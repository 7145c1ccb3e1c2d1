------------------------------ MODULE Gateway -------------------------------
(***************************************************************************)
(* One request on its way through the proxy, byte by byte: classification  *)
(* of method and path (internal/classify), the caller's identity           *)
(* (internal/identity), the body that is read for its parameters and put   *)
(* back (internal/audit), the routing of the middleware and the forwarding *)
(* of the body.  Admission has what follows from the decision; here the    *)
(* decision is either way, and what it was based on is kept.               *)
(***************************************************************************)
EXTENDS Integers, Sequences, FiniteSetsExt

CONSTANTS
    Users,      \* user ids of the form user@realm
    Admins,     \* those exempt from enforcement
    Recorded,   \* those with a quota record
    Requests,   \* the requests that may be sent
    Flags,      \* -enforce and -default-deny
    Bytes,      \* what bodies are made of
    MaxBody,    \* maxBody
    None        \* "absent"

\* The credentials of a request, parsed as far as the code tells them apart.
Tokens == [scheme : {"PVEAPIToken", "other"}, user : Users \cup {None}, id : BOOLEAN]

Cookies == [kind : {"ticket", "challenge", "other"}, user : Users \cup {None}]

\* A request.  The path is what stands between its slashes, with a "/" for the
\* empty segment where two of them meet; enc is the syntax the body is in, and
\* restore says whether its parameters ask for a restore.
RequestType ==
    [method  : {"GET", "POST", "PUT", "DELETE"},
     path    : Seq(STRING),
     auth    : Tokens \cup {None},
     cookie  : Cookies \cup {None},
     ctype   : {"form", "json", "multipart"},
     enc     : {"form", "json", "other"},
     restore : BOOLEAN,
     sent    : Seq(Bytes)]

\* What a decision may be based on.
Decisions == [user : Users, params : {"nil", "empty", "body"},
              branch : {"create", "restore", "config", "resize", "clone", "move", "rollback", "alloc"}]

ASSUME GatewayAssumption ==
    /\ Requests \subseteq RequestType
    /\ Flags \subseteq [enforce : BOOLEAN, defaultDeny : BOOLEAN]
    /\ Admins \cup Recorded \subseteq Users /\ None \notin Users \cup Decisions \cup Tokens \cup Cookies
    /\ MaxBody \in Nat

VARIABLES
    req,        \* the request
    flags,      \* the command line
    stage,      \* where its handler is
    buf,        \* bytes read from the connection and not yet sent on
    chained,    \* does r.Body go on with the connection after buf?
    conn,       \* bytes of the body still to come from the client
    broken,     \* the client's connection is lost
    params,     \* Params: "nil", "empty", or "body" for what the body says
    basis,      \* what the decision was based on, or None
    got         \* bytes the upstream has

vars == <<req, flags, stage, buf, chained, conn, broken, params, basis, got>>

-----------------------------------------------------------------------------
(* identity.go                                                             *)

\* A user id without a realm is None.
realmOf(user) == user # None

\* PVEAPIToken=user@realm!id=secret
parseToken(a) == IF a.scheme = "PVEAPIToken" /\ a.id /\ realmOf(a.user) THEN a.user ELSE None

\* PVE:user@realm:time::signature, and not the challenge of a second factor.
parseCookie(c) == IF c.kind = "ticket" /\ realmOf(c.user) THEN c.user ELSE None

\* The cookie counts before the token.
FromRequestCookieFirst(r) ==
    IF r.cookie # None /\ parseCookie(r.cookie) # None THEN parseCookie(r.cookie)
    ELSE IF r.auth # None THEN parseToken(r.auth)
    ELSE None

FromRequest(r) ==
    IF r.auth # None /\ parseToken(r.auth) # None THEN parseToken(r.auth)
    ELSE IF r.cookie # None THEN parseCookie(r.cookie)
    ELSE None

-----------------------------------------------------------------------------
(* classify.go                                                             *)

\* A path outside /api2/json and /api2/extjs is kept whole.
splitEnvelope(p) ==
    IF Len(p) >= 2 /\ p[1] = "api2" /\ p[2] \in {"json", "extjs"}
    THEN [env |-> p[2], rest |-> SubSeq(p, 3, Len(p))]
    ELSE [env |-> "other", rest |-> p]

\* Slashes around the path are trimmed, a doubled one inside makes a segment.
splitSegs(p) ==
    LET named == {i \in DOMAIN p : p[i] # "/"}
    IN  IF named = {} THEN <<>> ELSE SubSeq(p, Min(named), Max(named))

Segs(r) == splitSegs(splitEnvelope(r.path).rest)

\* Operations of more than one segment are forgotten.
guestPassthroughShort(m, s) ==
    \/ Len(s) = 4 /\ m = "DELETE"
    \/ Len(s) = 5 /\ s[5] \in {"status", "vncproxy", "snapshot"}

guestPassthrough(m, s) ==
    \/ Len(s) = 4 /\ m = "DELETE"
    \/ Len(s) >= 5 /\ s[5] \in {"status", "vncproxy", "termproxy", "spiceproxy", "vncwebsocket",
                               "agent", "firewall", "sendkey", "cloudinit", "unlink", "snapshot",
                               "rrd", "rrddata", "feature", "spiceshell"}

nodePassthrough(m, s) ==
    /\ Len(s) >= 3
    /\ \/ s[3] = "vzdump"
       \/ s[3] \in {"qemu", "lxc"} /\ guestPassthrough(m, s)
       \/ s[3] = "storage" /\ m = "DELETE" /\ Len(s) >= 5 /\ s[5] = "content"

knownPassthrough(m, s) ==
    /\ Len(s) >= 1
    /\ \/ s[1] = "access" /\ Len(s) >= 2 /\ s[2] \in {"ticket", "password", "tfa", "openid"}
       \/ s[1] = "nodes" /\ nodePassthrough(m, s)

passOrUnknown(m, s) == IF knownPassthrough(m, s) THEN "passthrough" ELSE "unknown"

\* A rollback is looked for one segment too far to the right.
classifyGuestOffByOne(m, s) ==
    CASE Len(s) = 3 /\ m = "POST" -> "create"
      [] Len(s) >= 5 /\ s[5] = "config" /\ m \in {"PUT", "POST"} -> "config"
      [] Len(s) >= 5 /\ s[5] = "resize" /\ m = "PUT" -> "resize"
      [] Len(s) >= 5 /\ s[5] = "clone" /\ m = "POST" -> "clone"
      [] Len(s) >= 5 /\ s[5] \in {"move_disk", "move_volume"} /\ m = "POST" -> "move"
      [] Len(s) >= 8 /\ s[5] = "snapshot" /\ s[8] = "rollback" /\ m = "POST" -> "rollback"
      [] OTHER -> passOrUnknown(m, s)

\* nodes/{node}/{kind}[/{vmid}/{op}/...]
classifyGuest(m, s) ==
    CASE Len(s) = 3 /\ m = "POST" -> "create"
      [] Len(s) >= 5 /\ s[5] = "config" /\ m \in {"PUT", "POST"} -> "config"
      [] Len(s) >= 5 /\ s[5] = "resize" /\ m = "PUT" -> "resize"
      [] Len(s) >= 5 /\ s[5] = "clone" /\ m = "POST" -> "clone"
      [] Len(s) >= 5 /\ s[5] \in {"move_disk", "move_volume"} /\ m = "POST" -> "move"
      [] Len(s) >= 7 /\ s[5] = "snapshot" /\ s[7] = "rollback" /\ m = "POST" -> "rollback"
      [] OTHER -> passOrUnknown(m, s)

\* nodes/{node}/storage/{storage}/{op}
classifyStorage(m, s) ==
    CASE m = "POST" /\ Len(s) >= 5 /\ s[5] = "content" -> "alloc"
      [] m = "POST" /\ Len(s) >= 5 /\ s[5] \in {"upload", "download-url"} -> "upload"
      [] OTHER -> passOrUnknown(m, s)

\* A path with fewer segments than expected falls through to the allowlist.
Classify(m, s) ==
    CASE m = "GET" -> "read"
      [] m # "GET" /\ Len(s) >= 1 /\ s[1] = "pools" ->
           IF m \in {"PUT", "POST"} THEN "pool" ELSE passOrUnknown(m, s)
      [] m # "GET" /\ Len(s) >= 3 /\ s[1] = "nodes" /\ s[3] \in {"qemu", "lxc"} -> classifyGuest(m, s)
      [] m # "GET" /\ Len(s) >= 3 /\ s[1] = "nodes" /\ s[3] = "storage" -> classifyStorage(m, s)
      [] OTHER -> passOrUnknown(m, s)

Action == Classify(req.method, Segs(req))

QuotaRelevant(a) == a \notin {"read", "passthrough", "unknown"}

\* The code's enforceable(): every quota-relevant action but an upload.
enforceable(a) == QuotaRelevant(a) /\ a # "upload"

-----------------------------------------------------------------------------
Init ==
    /\ req \in Requests /\ flags \in Flags /\ stage = "arrived"
    /\ buf = <<>> /\ chained = TRUE /\ conn = req.sent /\ broken = FALSE
    /\ params = "nil" /\ basis = None /\ got = <<>>

Body == <<buf, chained, conn, broken, got>>

Deny == stage' = "denied" /\ UNCHANGED <<req, flags, Body, params, basis>>

Forward == stage' = "forward" /\ UNCHANGED <<req, flags, Body, params, basis>>

Who == FromRequest(req)

\* handleUnknown
HandleUnknown ==
    /\ stage = "arrived" /\ Action = "unknown"
    /\ IF flags.enforce /\ flags.defaultDeny /\ Who \notin Admins THEN Deny ELSE Forward

\* Middleware: reads and writes that change no quota dimension.
PassThrough ==
    /\ stage = "arrived" /\ Action \in {"read", "passthrough"}
    /\ Forward

\* An empty body is http.NoBody.
shouldParseBody(r) ==
    r.sent # <<>> /\ Action # "upload" /\ r.ctype # "multipart"

\* Params, as far as the body.
Inspect ==
    /\ stage = "arrived" /\ QuotaRelevant(Action)
    /\ stage' = IF shouldParseBody(req) THEN "reading" ELSE "route"
    /\ UNCHANGED <<req, flags, Body, params, basis>>

\* readAndRestore reads without a limit.
ReadByteUnlimited ==
    /\ stage = "reading" /\ conn # <<>>
    /\ buf' = Append(buf, Head(conn)) /\ conn' = Tail(conn)
    /\ UNCHANGED <<req, flags, stage, chained, broken, params, basis, got>>

\* readAndRestore: io.ReadAll on a reader that ends after maxBody + 1 bytes.
ReadByte ==
    /\ stage = "reading" /\ conn # <<>> /\ Len(buf) < MaxBody + 1
    /\ buf' = Append(buf, Head(conn)) /\ conn' = Tail(conn)
    /\ UNCHANGED <<req, flags, stage, chained, broken, params, basis, got>>

\* parseParams: what does not parse has no parameters.
parseParams(r) == IF r.ctype = r.enc THEN "body" ELSE "empty"

\* The body is restored from the buffer alone.
ReadFailsCutOff ==
    /\ stage = "reading" /\ (broken \/ Len(buf) > MaxBody)
    /\ stage' = "route" /\ chained' = FALSE
    /\ UNCHANGED <<req, flags, buf, conn, broken, params, basis, got>>

\* A read error is tried again.
ReadFailsTooLong ==
    /\ stage = "reading" /\ Len(buf) > MaxBody
    /\ stage' = "route"
    /\ UNCHANGED <<req, flags, Body, params, basis>>

\* A read error, or a body above maxBody: the buffer is chained to what is left
\* of the connection, and nothing is parsed.
ReadFails ==
    /\ stage = "reading" /\ (broken \/ Len(buf) > MaxBody)
    /\ stage' = "route"
    /\ UNCHANGED <<req, flags, Body, params, basis>>

\* The end of the body: the buffer replaces it.
ReadWhole ==
    /\ stage = "reading" /\ conn = <<>> /\ ~ broken /\ Len(buf) <= MaxBody
    /\ stage' = "route" /\ chained' = FALSE /\ params' = parseParams(req)
    /\ UNCHANGED <<req, flags, buf, conn, broken, basis, got>>

\* The ways around enforcement (store and engine exist with -enforce: Process).
Bypass ==
    /\ stage = "route" /\ (~ flags.enforce \/ Who \in Admins \/ ~ enforceable(Action))
    /\ Forward

Enforced == stage = "route" /\ flags.enforce /\ Who \notin Admins /\ enforceable(Action)

\* Middleware: pool membership, and users without a record.
Refuse ==
    /\ Enforced /\ (Action = "pool" \/ Who \notin Recorded)
    /\ Deny

IsRestore == params = "body" /\ req.restore

\* decide: the branch that computes the delta.
Branch == IF Action = "create" /\ IsRestore THEN "restore" ELSE Action

\* A user without a record is decided about like any other.
DecideUnrecorded ==
    /\ Enforced /\ Action # "pool"
    /\ basis' = [user |-> Who, branch |-> Branch, params |-> params]
    /\ stage' \in {"forward", "denied"}
    /\ UNCHANGED <<req, flags, Body, params>>

\* decide, whichever way it goes.
Decide ==
    /\ Enforced /\ Action # "pool" /\ Who \in Recorded
    /\ basis' = [user |-> Who, branch |-> Branch, params |-> params]
    /\ stage' \in {"forward", "denied"}
    /\ UNCHANGED <<req, flags, Body, params>>

-----------------------------------------------------------------------------
\* The reverse proxy sends r.Body: what was buffered, then the connection.
SendBuffered ==
    /\ stage = "forward" /\ buf # <<>>
    /\ got' = Append(got, Head(buf)) /\ buf' = Tail(buf)
    /\ UNCHANGED <<req, flags, stage, chained, conn, broken, params, basis>>

SendRest ==
    /\ stage = "forward" /\ buf = <<>> /\ chained /\ conn # <<>>
    /\ got' = Append(got, Head(conn)) /\ conn' = Tail(conn)
    /\ UNCHANGED <<req, flags, stage, buf, chained, broken, params, basis>>

\* The end of r.Body is the end of the body for the upstream; an error aborts.
SendEnd ==
    /\ stage = "forward" /\ buf = <<>> /\ (chained => conn = <<>>)
    /\ stage' = IF chained /\ broken THEN "aborted" ELSE "sent"
    /\ UNCHANGED <<req, flags, Body, params, basis>>

\* The client goes away: no more bytes, and reading is an error from now on.
ClientBreaks ==
    /\ conn # <<>> /\ stage \in {"arrived", "reading", "route", "forward"}
    /\ conn' = <<>> /\ broken' = TRUE
    /\ UNCHANGED <<req, flags, stage, buf, chained, params, basis, got>>

Handler == \/ HandleUnknown \/ PassThrough \/ Inspect \/ ReadByte \/ ReadFails \/ ReadWhole
           \/ Bypass \/ Refuse \/ Decide \/ SendBuffered \/ SendRest \/ SendEnd

Next == Handler \/ ClientBreaks

Spec == Init /\ [][Next]_vars

\* The handler runs.  A client that neither sends nor goes away stalls it (no
\* read timeout is set): bytes that are still to come are assumed to come.
FairSpec == Spec /\ WF_vars(Handler)

-----------------------------------------------------------------------------
TypeOK ==
    /\ req \in RequestType /\ flags \in Flags
    /\ stage \in {"arrived", "reading", "route", "forward", "denied", "sent", "aborted"}
    /\ buf \in Seq(Bytes) /\ conn \in Seq(Bytes) /\ got \in Seq(Bytes)
    /\ chained \in BOOLEAN /\ broken \in BOOLEAN
    /\ params \in {"nil", "empty", "body"}
    /\ basis \in Decisions \cup {None}

\* "restoring the body so it still forwards intact" (audit.go:43-44), on all
\* three ways out of readAndRestore: the upstream gets the client's bytes in
\* order, and it takes for complete only what is.
BodyIntact ==
    /\ got = SubSeq(req.sent, 1, Len(got))
    /\ stage = "sent" => got = req.sent

\* "caps how much of a request body we buffer" (audit.go:21-22): no request
\* makes the proxy hold more than maxBody + 1 bytes, and an upload none.
BufferBounded ==
    /\ Len(buf) <= MaxBody + 1
    /\ Action = "upload" => buf = <<>>

\* What PVE's API reference says of a method and of a path below /api2/json or
\* /api2/extjs ("*" matches any name): the writes that allocate, by the branch
\* of decide that knows what, and those that the proxy must let pass.
Matches(s, pattern) ==
    Len(s) = Len(pattern) /\ \A i \in DOMAIN s : s[i] # "/" /\ pattern[i] \in {"*", s[i]}

Guest(tail) == {<<"nodes", "*", kind>> \o tail : kind \in {"qemu", "lxc"}}

Allocating ==
    [create   |-> {"POST"} \X Guest(<<>>),
     clone    |-> {"POST"} \X Guest(<<"*", "clone">>),
     config   |-> {"PUT", "POST"} \X Guest(<<"*", "config">>),
     resize   |-> {"PUT"} \X Guest(<<"*", "resize">>),
     rollback |-> {"POST"} \X Guest(<<"*", "snapshot", "*", "rollback">>),
     move     |-> {"POST"} \X {<<"nodes", "*", "qemu", "*", "move_disk">>,
                               <<"nodes", "*", "lxc", "*", "move_volume">>},
     alloc    |-> {"POST"} \X {<<"nodes", "*", "storage", "*", "content">>}]

Harmless ==
       {"POST"} \X (Guest(<<"*", "status", "*">>) \cup Guest(<<"*", "vncproxy">>)
                    \cup Guest(<<"*", "snapshot">>)
                    \cup {<<"nodes", "*", "vzdump">>, <<"access", "ticket">>})
  \cup {"DELETE"} \X (Guest(<<"*">>) \cup Guest(<<"*", "snapshot", "*">>)
                      \cup {<<"nodes", "*", "storage", "*", "content", "*">>})

Membership == {"PUT", "POST"} \X {<<"pools">>} \cup {"PUT"} \X {<<"pools", "*">>}

\* Writes that PVE has and neither table names, from the tests of Classify.
Unlisted == {"POST"} \X (Guest(<<"*", "migrate">>) \cup {<<"cluster", "*">>, <<"nodes", "*", "execute">>})
            \cup {<<"PUT", <<"access", "users", "*">>>>, <<"DELETE", <<"pools", "*">>>>}

Api == Len(req.path) >= 2 /\ req.path[1] = "api2" /\ req.path[2] \in {"json", "extjs"}

In(table) ==
    Api /\ \E e \in table : req.method = e[1] /\ Matches(SubSeq(req.path, 3, Len(req.path)), e[2])

\* A rendering of the API that the proxy does not know.
Foreign == Len(req.path) >= 1 /\ req.path[1] = "api2" /\ ~ Api

\* Who sends a request, to PVE: the owner of its API token, and without one the
\* user of its login ticket.
TokenOf(u) == req.auth = [scheme |-> "PVEAPIToken", user |-> u, id |-> TRUE]

TicketOf(u) == req.cookie = [kind |-> "ticket", user |-> u]

Sends(u) == TokenOf(u) \/ (TicketOf(u) /\ \A v \in Users : ~ TokenOf(v))

SentByAdmin == \E a \in Admins : Sends(a)

\* Bodies whose parameters the proxy does not read.
Opaque == req.ctype # req.enc \/ Len(req.sent) > MaxBody \/ broken \/ req.sent = <<>>

\* The decision is about the sender, on the branch for what the request asks
\* of PVE, and with the parameters PVE acts on, unless they cannot be read.
DecidedAs(kind) ==
    /\ basis # None /\ Sends(basis.user)
    /\ Opaque \/ basis.params = "body"
    /\ basis.branch = IF kind = "create" /\ req.restore /\ ~ Opaque THEN "restore" ELSE kind

\* With -enforce, a write that allocates leaves the proxy only for an
\* administrator, or after a decision about the user who sent it, on the branch
\* for what it does and with its parameters.  A change of a pool's members never
\* does, and with -default-deny no write does that the tables do not name.
CheckedOrHarmless ==
    (stage \in {"forward", "sent"} /\ req.method # "GET" /\ flags.enforce /\ ~ SentByAdmin) =>
        /\ \A kind \in DOMAIN Allocating : In(Allocating[kind]) => DecidedAs(kind)
        /\ ~ In(Membership)
        /\ flags.defaultDeny => ~ In(Unlisted) /\ ~ Foreign

\* What is denied is denied by the rules: in the observing mode nothing is,
\* and never an administrator's write, a read or a write that frees or changes
\* no resource.
DeniesOnlyEnforced ==
    stage = "denied" => flags.enforce /\ ~ SentByAdmin /\ ~ In(Harmless) /\ req.method # "GET"

\* Every request is denied or its body sent on to the end, or as far as the
\* client sent it: no way through the middleware leaves a reader waiting.
Delivered == <>(stage \in {"denied", "sent", "aborted"})
=============================================================================
