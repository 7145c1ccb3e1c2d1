----------------------------- MODULE MCGateway ------------------------------
(***************************************************************************)
(* Requests for TLC: every path with one body, every body on a few paths.  *)
(***************************************************************************)
EXTENDS Gateway

CONSTANTS root, alice, bob, carol

Token(u) == [scheme |-> "PVEAPIToken", user |-> u, id |-> TRUE]
Ticket(u) == [kind |-> "ticket", user |-> u]

Plain == [method |-> "POST", path |-> <<"api2", "json", "nodes", "n1", "qemu">>, auth |-> None,
          cookie |-> Ticket(alice), ctype |-> "form", enc |-> "form", restore |-> FALSE,
          sent |-> <<1>>]

Node(t) == <<"nodes", "n1">> \o t
OfGuest(t) == {Node(<<k, "100">> \o t) : k \in {"qemu", "lxc"}}

\* Paths of PVE's API: the ones of classify_test.go and their neighbours.
Paths ==
    {<<>>, <<"access">>, <<"access", "ticket">>, <<"access", "users", "x">>, <<"pools">>,
     <<"pools", "p">>, <<"cluster", "ha">>, <<"nodes">>, <<"nodes", "n1">>, Node(<<"qemu">>),
     Node(<<"lxc">>), Node(<<"vzdump">>), Node(<<"execute">>), Node(<<"storage">>),
     Node(<<"storage", "s">>), Node(<<"storage", "s", "content">>),
     Node(<<"storage", "s", "content", "v">>), Node(<<"storage", "s", "upload">>),
     Node(<<"storage", "s", "download-url">>)}
    \cup OfGuest(<<>>)
    \cup UNION {OfGuest(<<op>>) : op \in {"config", "resize", "clone", "move_disk", "move_volume",
                                          "migrate", "snapshot", "vncproxy"}}
    \cup OfGuest(<<"status", "start">>) \cup OfGuest(<<"snapshot", "s1">>)
    \cup OfGuest(<<"snapshot", "s1", "rollback">>)

Below(format, paths) == {<<"api2", format>> \o s : s \in paths}

\* Paths with slashes in excess, and outside the two renderings.
OddPaths ==
    Below("html", {<<>>, Node(<<"qemu">>), Node(<<"vzdump">>), <<"access", "ticket">>})
    \cup {<<>>, <<"/">>, <<"api2">>, Node(<<"qemu">>), <<"/", "api2", "json">> \o Node(<<"qemu">>)}
    \cup Below("json", {Node(<<"qemu", "/">>), <<"/">> \o Node(<<"qemu">>), <<"nodes", "/", "n1", "qemu">>,
                        Node(<<"qemu", "100", "/", "config">>), Node(<<"qemu", "/", "config">>)})

AllPaths == {[Plain EXCEPT !.method = m, !.path = s] :
                m \in {"GET", "POST", "PUT", "DELETE"},
                s \in Below("json", Paths) \cup Below("extjs", Paths) \cup OddPaths}

\* Bodies around the limit and of every syntax, callers with every credential.
SomePaths == Below("json", {Node(<<"qemu">>), Node(<<"storage", "s", "upload">>), <<"pools">>,
                            <<"cluster", "ha">>})
AllBodies == {[Plain EXCEPT !.path = s, !.sent = SubSeq(<<1, 2, 1, 2, 1>>, 1, n), !.ctype = c,
                            !.enc = e, !.restore = r] :
                s \in SomePaths, n \in 0..5, c \in {"form", "json", "multipart"},
                e \in {"form", "json", "other"}, r \in BOOLEAN}

AllCallers == {[Plain EXCEPT !.path = s, !.auth = a, !.cookie = c] :
                s \in SomePaths,
                a \in {None, Token(alice), Token(carol), Token(root), Token(None),
                       [Token(bob) EXCEPT !.id = FALSE], [Token(bob) EXCEPT !.scheme = "other"]},
                c \in {None, Ticket(root), Ticket(alice), Ticket(bob), Ticket(None),
                       [kind |-> "challenge", user |-> alice]}}

AllRequests == AllPaths \cup AllBodies \cup AllCallers

AllFlags == {[enforce |-> e, defaultDeny |-> d] : e, d \in BOOLEAN} \ {[enforce |-> FALSE, defaultDeny |-> TRUE]}
=============================================================================
