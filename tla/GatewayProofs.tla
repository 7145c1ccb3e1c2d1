---------------------------- MODULE GatewayProofs ---------------------------
(***************************************************************************)
(* The body of a request survives its inspection, and inspection is        *)
(* bounded, for bodies of any length, any limit and any request; and no    *)
(* path, credential or body finds a way around the decision.               *)
(***************************************************************************)
EXTENDS Gateway, FiniteSetTheorems, WellFoundedInduction, TLAPS

\* Position by position, g, b and c are parts of s, one after the other.
InPlace(g, b, c, s) ==
    /\ Len(g) + Len(b) + Len(c) <= Len(s)
    /\ \A i \in 1..Len(g) : g[i] = s[i]
    /\ \A i \in 1..Len(b) : b[i] = s[Len(g) + i]
    /\ \A i \in 1..Len(c) : c[i] = s[Len(g) + Len(b) + i]

\* What the upstream has, what is buffered and what the client has yet to send
\* are the body, and all of it while the client is there.
Accounted ==
    /\ InPlace(got, buf, conn, req.sent)
    /\ ~ broken => Len(got) + Len(buf) + Len(conn) = Len(req.sent)

\* The strengthening of BodyIntact and BufferBounded: the types of the parts,
\* and that a body that is no longer chained to its connection needs no more
\* of it.
BodyInv ==
    /\ req \in RequestType
    /\ buf \in Seq(Bytes) /\ conn \in Seq(Bytes) /\ got \in Seq(Bytes)
    /\ Accounted
    /\ ~ chained => conn = <<>> /\ ~ broken
    /\ stage = "sent" => Len(got) = Len(req.sent)
    /\ stage = "reading" => Action # "upload"
    /\ BufferBounded

\* The body a client means to send is a sequence of bytes.
LEMMA SentType == ASSUME NEW r \in RequestType PROVE r.sent \in Seq(Bytes)
  BY DEF RequestType

\* What is accounted for in the right places is a prefix of the body.
LEMMA AccountedPrefix ==
  ASSUME BodyInv
  PROVE  /\ got = SubSeq(req.sent, 1, Len(got))
         /\ Len(got) = Len(req.sent) => got = req.sent
<1>sent. req.sent \in Seq(Bytes) /\ got \in Seq(Bytes) /\ Len(got) <= Len(req.sent)
         /\ Len(buf) \in Nat /\ Len(conn) \in Nat /\ Len(got) \in Nat
  BY SentType DEF BodyInv, Accounted, InPlace
<1>same. \A i \in 1..Len(got) : got[i] = req.sent[i]
  BY DEF BodyInv, Accounted, InPlace
<1>cut. SubSeq(req.sent, 1, Len(got)) = [i \in 1..Len(got) |-> req.sent[i]]
  BY <1>sent
<1>whole. got = [i \in 1..Len(got) |-> got[i]]
  BY <1>sent
<1> QED
  BY <1>sent, <1>same, <1>cut, <1>whole

\* Taking the head of one part and putting it at the end of the one before.
LEMMA Handover ==
  ASSUME NEW a \in Seq(Bytes), NEW b \in Seq(Bytes), b # <<>>
  PROVE  /\ Append(a, Head(b)) \in Seq(Bytes) /\ Tail(b) \in Seq(Bytes)
         /\ Len(Append(a, Head(b))) = Len(a) + 1 /\ Len(Tail(b)) = Len(b) - 1
         /\ Len(a) \in Nat /\ Len(b) \in Nat \ {0}
         /\ \A i \in 1..(Len(a) + 1) : Append(a, Head(b))[i] = IF i = Len(a) + 1 THEN b[1] ELSE a[i]
         /\ \A i \in 1..(Len(b) - 1) : Tail(b)[i] = b[i + 1]
  OBVIOUS

\* Reading a byte, sending one from the buffer, and sending one past an empty
\* buffer leave the parts in place.
LEMMA MovesInPlace ==
  ASSUME NEW g \in Seq(Bytes), NEW b \in Seq(Bytes), NEW c \in Seq(Bytes), NEW s \in Seq(Bytes),
         InPlace(g, b, c, s)
  PROVE  /\ c # <<>> => InPlace(g, Append(b, Head(c)), Tail(c), s)
         /\ b # <<>> => InPlace(Append(g, Head(b)), Tail(b), c, s)
         /\ b = <<>> /\ c # <<>> => InPlace(Append(g, Head(c)), b, Tail(c), s)
<1>len. Len(g) \in Nat /\ Len(b) \in Nat /\ Len(c) \in Nat /\ Len(s) \in Nat
  OBVIOUS
<1>read. ASSUME c # <<>> PROVE InPlace(g, Append(b, Head(c)), Tail(c), s)
  <2> DEFINE bb == Append(b, Head(c))
             cc == Tail(c)
  <2>parts. /\ Len(bb) = Len(b) + 1 /\ Len(cc) = Len(c) - 1
            /\ \A i \in 1..(Len(b) + 1) : bb[i] = IF i = Len(b) + 1 THEN c[1] ELSE b[i]
            /\ \A i \in 1..(Len(c) - 1) : cc[i] = c[i + 1]
    BY <1>read, Handover
  <2> HIDE DEF bb, cc
  <2>last. c[1] = s[Len(g) + Len(b) + 1] /\ Len(c) >= 1
    BY <1>read, <1>len DEF InPlace
  <2>buffer. \A i \in 1..Len(bb) : bb[i] = s[Len(g) + i]
    <3> SUFFICES ASSUME NEW i \in 1..Len(bb) PROVE bb[i] = s[Len(g) + i]
      OBVIOUS
    <3>new. CASE i = Len(b) + 1
      BY <1>len, <2>parts, <2>last, <3>new
    <3>old. CASE i # Len(b) + 1
      <4>in. i \in 1..Len(b) /\ bb[i] = b[i]
        BY <1>len, <2>parts, <3>old
      <4> QED
        BY <4>in DEF InPlace
    <3> QED
      BY <3>new, <3>old
  <2>rest. \A i \in 1..Len(cc) : cc[i] = s[Len(g) + Len(bb) + i]
    <3> SUFFICES ASSUME NEW i \in 1..Len(cc) PROVE cc[i] = s[Len(g) + Len(bb) + i]
      OBVIOUS
    <3>next. c[i + 1] = s[Len(g) + Len(b) + (i + 1)]
      BY <1>len, <2>parts DEF InPlace
    <3> QED
      BY <1>len, <2>parts, <3>next
  <2>fits. Len(g) + Len(bb) + Len(cc) <= Len(s)
    BY <1>len, <2>parts DEF InPlace
  <2> QED
    BY <2>buffer, <2>rest, <2>fits DEF InPlace, bb, cc
<1>send. ASSUME b # <<>> PROVE InPlace(Append(g, Head(b)), Tail(b), c, s)
  <2> DEFINE gg == Append(g, Head(b))
             bb == Tail(b)
  <2>parts. /\ Len(gg) = Len(g) + 1 /\ Len(bb) = Len(b) - 1
            /\ \A i \in 1..(Len(g) + 1) : gg[i] = IF i = Len(g) + 1 THEN b[1] ELSE g[i]
            /\ \A i \in 1..(Len(b) - 1) : bb[i] = b[i + 1]
    BY <1>send, Handover
  <2> HIDE DEF gg, bb
  <2>last. b[1] = s[Len(g) + 1] /\ Len(b) >= 1
    BY <1>send, <1>len DEF InPlace
  <2>front. \A i \in 1..Len(gg) : gg[i] = s[i]
    <3> SUFFICES ASSUME NEW i \in 1..Len(gg) PROVE gg[i] = s[i]
      OBVIOUS
    <3>new. CASE i = Len(g) + 1
      BY <1>len, <2>parts, <2>last, <3>new
    <3>old. CASE i # Len(g) + 1
      <4>in. i \in 1..Len(g) /\ gg[i] = g[i]
        BY <1>len, <2>parts, <3>old
      <4> QED
        BY <4>in DEF InPlace
    <3> QED
      BY <3>new, <3>old
  <2>buffer. \A i \in 1..Len(bb) : bb[i] = s[Len(gg) + i]
    <3> SUFFICES ASSUME NEW i \in 1..Len(bb) PROVE bb[i] = s[Len(gg) + i]
      OBVIOUS
    <3>next. b[i + 1] = s[Len(g) + (i + 1)]
      BY <1>len, <2>parts DEF InPlace
    <3> QED
      BY <1>len, <2>parts, <3>next
  <2>sum. Len(gg) + Len(bb) = Len(g) + Len(b)
    BY <1>len, <2>parts
  <2> QED
    BY <2>front, <2>buffer, <2>sum DEF InPlace, gg, bb
<1>skip. ASSUME b = <<>>, c # <<>> PROVE InPlace(Append(g, Head(c)), b, Tail(c), s)
  <2> DEFINE gg == Append(g, Head(c))
             cc == Tail(c)
  <2>parts. /\ Len(gg) = Len(g) + 1 /\ Len(cc) = Len(c) - 1 /\ Len(b) = 0
            /\ \A i \in 1..(Len(g) + 1) : gg[i] = IF i = Len(g) + 1 THEN c[1] ELSE g[i]
            /\ \A i \in 1..(Len(c) - 1) : cc[i] = c[i + 1]
    BY <1>skip, Handover
  <2> HIDE DEF gg, cc
  <2>last. c[1] = s[Len(g) + 1] /\ Len(c) >= 1
    BY <1>skip, <1>len DEF InPlace
  <2>front. \A i \in 1..Len(gg) : gg[i] = s[i]
    <3> SUFFICES ASSUME NEW i \in 1..Len(gg) PROVE gg[i] = s[i]
      OBVIOUS
    <3>new. CASE i = Len(g) + 1
      BY <1>len, <2>parts, <2>last, <3>new
    <3>old. CASE i # Len(g) + 1
      <4>in. i \in 1..Len(g) /\ gg[i] = g[i]
        BY <1>len, <2>parts, <3>old
      <4> QED
        BY <4>in DEF InPlace
    <3> QED
      BY <3>new, <3>old
  <2>rest. \A i \in 1..Len(cc) : cc[i] = s[Len(gg) + Len(b) + i]
    <3> SUFFICES ASSUME NEW i \in 1..Len(cc) PROVE cc[i] = s[Len(gg) + Len(b) + i]
      OBVIOUS
    <3>next. c[i + 1] = s[Len(g) + Len(b) + (i + 1)]
      BY <1>len, <2>parts DEF InPlace
    <3> QED
      BY <1>len, <2>parts, <3>next
  <2>fits. Len(gg) + Len(b) + Len(cc) <= Len(s)
    BY <1>len, <2>parts DEF InPlace
  <2>none. \A i \in 1..Len(b) : b[i] = s[Len(gg) + i]
    BY <2>parts
  <2> QED
    BY <2>none, <2>front, <2>rest, <2>fits DEF InPlace, gg, cc
<1> QED
  BY <1>read, <1>send, <1>skip

\* A step that moves no byte keeps the account.
LEMMA NothingMoves ==
  ASSUME BodyInv, UNCHANGED <<req, Body>>,
         ~ chained' => conn' = <<>> /\ ~ broken',
         stage' = "sent" => Len(got) = Len(req.sent),
         stage' = "reading" => Action # "upload"
  PROVE  BodyInv'
  BY DEF BodyInv, Accounted, BufferBounded, Body, Action

\* A byte is read, or sent on, or lost with the client.
LEMMA ByteMoves ==
  ASSUME BodyInv, ReadByte \/ SendBuffered \/ SendRest \/ ClientBreaks
  PROVE  BodyInv'
<1>typed. /\ req.sent \in Seq(Bytes) /\ buf \in Seq(Bytes) /\ conn \in Seq(Bytes) /\ got \in Seq(Bytes)
          /\ Len(buf) \in Nat /\ Len(conn) \in Nat /\ Len(got) \in Nat /\ Len(req.sent) \in Nat
          /\ InPlace(got, buf, conn, req.sent)
  BY SentType DEF BodyInv, Accounted
<1>read. ASSUME ReadByte PROVE BodyInv'
  <2>step. /\ conn # <<>> /\ Len(buf) <= MaxBody /\ UNCHANGED <<req, stage, chained, broken, got>>
           /\ stage = "reading" /\ buf' = Append(buf, Head(conn)) /\ conn' = Tail(conn)
    BY <1>read, <1>typed, GatewayAssumption DEF ReadByte
  <2>place. InPlace(got', buf', conn', req'.sent)
    BY <1>typed, <2>step, MovesInPlace
  <2>size. /\ buf' \in Seq(Bytes) /\ conn' \in Seq(Bytes)
           /\ Len(buf') = Len(buf) + 1 /\ Len(conn') = Len(conn) - 1
    BY <1>typed, <2>step, Handover
  <2>bound. BufferBounded'
    BY <1>typed, <2>step, <2>size, GatewayAssumption DEF BufferBounded, BodyInv, Action
  <2>chain. chained' /\ stage' # "sent" /\ Action' # "upload" /\ req' \in RequestType
    BY <2>step DEF BodyInv, Action
  <2>total. Len(got') + Len(buf') + Len(conn') = Len(got) + Len(buf) + Len(conn)
    BY <1>typed, <2>step, <2>size
  <2>before. ~ broken => Len(got) + Len(buf) + Len(conn) = Len(req.sent)
    BY DEF BodyInv, Accounted
  <2>sum. ~ broken' => Len(got') + Len(buf') + Len(conn') = Len(req'.sent)
    BY <2>step, <2>total, <2>before
  <2> QED
    BY <1>typed, <2>step, <2>place, <2>size, <2>bound, <2>chain, <2>sum DEF BodyInv, Accounted
<1>buffered. ASSUME SendBuffered PROVE BodyInv'
  <2>step. /\ buf # <<>> /\ UNCHANGED <<req, stage, chained, broken, conn>>
           /\ stage = "forward" /\ got' = Append(got, Head(buf)) /\ buf' = Tail(buf)
    BY <1>buffered DEF SendBuffered
  <2>place. InPlace(got', buf', conn', req'.sent)
    BY <1>typed, <2>step, MovesInPlace
  <2>size. /\ buf' \in Seq(Bytes) /\ got' \in Seq(Bytes)
           /\ Len(got') = Len(got) + 1 /\ Len(buf') = Len(buf) - 1
    BY <1>typed, <2>step, Handover
  <2>bound. BufferBounded'
    BY <1>typed, <2>step, <2>size, GatewayAssumption DEF BufferBounded, BodyInv, Action
  <2>chain. (~ chained' => conn' = <<>> /\ ~ broken') /\ stage' = "forward" /\ req' \in RequestType
    BY <2>step DEF BodyInv
  <2>total. Len(got') + Len(buf') + Len(conn') = Len(got) + Len(buf) + Len(conn)
    BY <1>typed, <2>step, <2>size
  <2>before. ~ broken => Len(got) + Len(buf) + Len(conn) = Len(req.sent)
    BY DEF BodyInv, Accounted
  <2>sum. ~ broken' => Len(got') + Len(buf') + Len(conn') = Len(req'.sent)
    BY <2>step, <2>total, <2>before
  <2> QED
    BY <1>typed, <2>step, <2>place, <2>size, <2>bound, <2>chain, <2>sum DEF BodyInv, Accounted
<1>rest. ASSUME SendRest PROVE BodyInv'
  <2>step. /\ buf = <<>> /\ conn # <<>> /\ UNCHANGED <<req, stage, chained, broken, buf>>
           /\ chained /\ stage = "forward" /\ got' = Append(got, Head(conn)) /\ conn' = Tail(conn)
    BY <1>rest DEF SendRest
  <2>place. InPlace(got', buf', conn', req'.sent)
    BY <1>typed, <2>step, MovesInPlace
  <2>size. /\ conn' \in Seq(Bytes) /\ got' \in Seq(Bytes)
           /\ Len(got') = Len(got) + 1 /\ Len(conn') = Len(conn) - 1
    BY <1>typed, <2>step, Handover
  <2>bound. BufferBounded'
    BY <1>typed, <2>step, GatewayAssumption DEF BufferBounded, BodyInv, Action
  <2>chain. chained' /\ stage' = "forward" /\ req' \in RequestType
    BY <2>step DEF BodyInv
  <2>total. Len(got') + Len(buf') + Len(conn') = Len(got) + Len(buf) + Len(conn)
    BY <1>typed, <2>step, <2>size
  <2>before. ~ broken => Len(got) + Len(buf) + Len(conn) = Len(req.sent)
    BY DEF BodyInv, Accounted
  <2>sum. ~ broken' => Len(got') + Len(buf') + Len(conn') = Len(req'.sent)
    BY <2>step, <2>total, <2>before
  <2> QED
    BY <1>typed, <2>step, <2>place, <2>size, <2>bound, <2>chain, <2>sum DEF BodyInv, Accounted
<1>lost. ASSUME ClientBreaks PROVE BodyInv'
  <2>step. /\ UNCHANGED <<req, stage, chained, buf, got>> /\ conn # <<>>
           /\ stage # "sent" /\ conn' = <<>> /\ broken'
    BY <1>lost DEF ClientBreaks
  <2>place. InPlace(got', buf', conn', req'.sent)
    BY <1>typed, <2>step DEF InPlace
  <2> QED
    BY <1>typed, <2>step, <2>place DEF BodyInv, Accounted, BufferBounded, Action
<1> QED
  BY <1>read, <1>buffered, <1>rest, <1>lost

\* Every reachable state has every byte where it belongs.
LEMMA BodyAccounted == Spec => []BodyInv
<1>start. Init => BodyInv
  <2> SUFFICES ASSUME Init PROVE BodyInv
    OBVIOUS
  <2>sent. req \in RequestType /\ req.sent \in Seq(Bytes) /\ Len(req.sent) \in Nat
    BY SentType, GatewayAssumption DEF Init
  <2> QED
    BY <2>sent, GatewayAssumption DEF Init, BodyInv, Accounted, InPlace, BufferBounded
<1>step. ASSUME BodyInv, [Next]_vars PROVE BodyInv'
  <2>moves. ASSUME ReadByte \/ SendBuffered \/ SendRest \/ ClientBreaks PROVE BodyInv'
    BY <1>step, <2>moves, ByteMoves
  <2>routes. ASSUME HandleUnknown \/ PassThrough \/ Inspect \/ ReadFails \/ Bypass \/ Refuse \/ Decide
             PROVE  BodyInv'
    <3>still. UNCHANGED <<req, Body>> /\ stage' # "sent" /\ (stage' = "reading" => Action # "upload")
      BY <2>routes
         DEF HandleUnknown, PassThrough, Inspect, ReadFails, Bypass, Refuse, Decide, Deny, Forward,
             shouldParseBody
    <3> QED
      BY <1>step, <3>still, NothingMoves DEF BodyInv, Body
  <2>whole. ASSUME ReadWhole PROVE BodyInv'
    BY <1>step, <2>whole DEF ReadWhole, BodyInv, Accounted, BufferBounded, Action
  <2>end. ASSUME SendEnd PROVE BodyInv'
    <3>all. stage' = "sent" => Len(got) = Len(req.sent)
      <4> SUFFICES ASSUME stage' = "sent" PROVE Len(got) = Len(req.sent)
        OBVIOUS
      <4>empty. buf = <<>> /\ conn = <<>> /\ ~ broken
        BY <1>step, <2>end DEF SendEnd, BodyInv
      <4> QED
        BY <1>step, <4>empty, SentType DEF BodyInv, Accounted
    <3>still. UNCHANGED <<req, Body>> /\ stage' # "reading"
      BY <2>end DEF SendEnd
    <3> QED
      BY <1>step, <3>all, <3>still, NothingMoves DEF BodyInv, Body
  <2>idle. ASSUME UNCHANGED vars PROVE BodyInv'
    BY <1>step, <2>idle, NothingMoves DEF vars, Body, BodyInv
  <2> QED
    BY <1>step, <2>moves, <2>routes, <2>whole, <2>end, <2>idle DEF Next, Handler
<1> QED
  BY <1>start, <1>step, PTL DEF Spec

\* The upstream gets the client's body, byte for byte and never a truncated one
\* as if it were complete, however long it is and wherever the client breaks
\* off: on all three ways out of readAndRestore.
THEOREM BodyStaysIntact == Spec => []BodyIntact
<1>inv. BodyInv => BodyIntact
  BY AccountedPrefix DEF BodyInv, BodyIntact
<1> QED
  BY <1>inv, BodyAccounted, PTL

\* No request makes the proxy buffer more than maxBody + 1 bytes, whatever the
\* limit, and an upload is never buffered at all.
THEOREM BufferStaysBounded == Spec => []BufferBounded
<1>inv. BodyInv => BufferBounded
  BY DEF BodyInv
<1> QED
  BY <1>inv, BodyAccounted, PTL

-----------------------------------------------------------------------------
(* Classification, and what the decision rests on.                         *)

\* A sequence is the whole of itself, and its positions are counted from one.
LEMMA WholeSequence ==
  ASSUME NEW p \in Seq(STRING)
  PROVE  /\ DOMAIN p = 1..Len(p) /\ Len(p) \in Nat
         /\ SubSeq(p, 1, Len(p)) = p
         /\ SubSeq(p, 3, Len(p)) \in Seq(STRING)
  OBVIOUS

\* A least and a greatest element are the ones that Min and Max choose.
LEMMA EndsOfSet ==
  ASSUME NEW S \in SUBSET Int, NEW a \in S, NEW b \in S, \A i \in S : a <= i /\ i <= b
  PROVE  Min(S) = a /\ Max(S) = b
<1>1. \A x \in S : (\A y \in S : x <= y) => x = a
  OBVIOUS
<1>2. \A x \in S : (\A y \in S : x >= y) => x = b
  OBVIOUS
<1>3. Min(S) \in S /\ \A y \in S : Min(S) <= y
  <2>1. \A y \in S : a <= y
    OBVIOUS
  <2> QED
    BY <2>1, Zenon DEF Min
<1>4. Max(S) \in S /\ \A y \in S : Max(S) >= y
  <2>1. \A y \in S : b >= y
    OBVIOUS
  <2> QED
    BY <2>1, Zenon DEF Max
<1> QED
  BY <1>1, <1>2, <1>3, <1>4

\* Trimming takes nothing off a path without empty segments.
LEMMA NothingTrimmed ==
  ASSUME NEW p \in Seq(STRING), \A i \in DOMAIN p : p[i] # "/"
  PROVE  splitSegs(p) = p
<1> DEFINE named == {i \in DOMAIN p : p[i] # "/"}
<1>dom. DOMAIN p = 1..Len(p) /\ Len(p) \in Nat /\ SubSeq(p, 1, Len(p)) = p
  BY WholeSequence
<1>all. named = 1..Len(p)
  BY <1>dom
<1>empty. CASE Len(p) = 0
  <2>1. p = <<>> /\ named = {}
    BY <1>empty, <1>all
  <2> QED
    BY <2>1 DEF splitSegs
<1>some. CASE Len(p) # 0
  <2>1. 1 \in named /\ Len(p) \in named /\ \A i \in named : 1 <= i /\ i <= Len(p)
    BY <1>dom, <1>all, <1>some
  <2> HIDE DEF named
  <2>2. named \subseteq Int
    BY <1>all
  <2>3. Min(named) = 1 /\ Max(named) = Len(p)
    BY <2>1, <2>2, EndsOfSet
  <2>4. splitSegs(p) = SubSeq(p, Min(named), Max(named))
    BY <2>1 DEF splitSegs, named
  <2> QED
    BY <1>dom, <2>3, <2>4
<1> QED
  BY <1>empty, <1>some

\* A path of PVE's API reference is classified by what follows the rendering.
LEMMA ApiSegments ==
  ASSUME req \in RequestType, Api, \A i \in DOMAIN SubSeq(req.path, 3, Len(req.path)) :
                                       SubSeq(req.path, 3, Len(req.path))[i] # "/"
  PROVE  Segs(req) = SubSeq(req.path, 3, Len(req.path))
<1>1. SubSeq(req.path, 3, Len(req.path)) \in Seq(STRING)
  BY WholeSequence DEF RequestType
<1>2. splitEnvelope(req.path).rest = SubSeq(req.path, 3, Len(req.path))
  BY DEF splitEnvelope, Api
<1> QED
  BY <1>1, <1>2, NothingTrimmed DEF Segs

\* Of the positions in a set that are not below one of them, the fewest are not
\* below the last.
LEMMA LastExists ==
  ASSUME NEW n \in Nat, NEW S, S \subseteq 1..n, S # {}
  PROVE  \E m \in S : \A i \in S : i <= m
<1> DEFINE From(x) == {y \in S : y >= x}
           Ends == {From(x) : x \in S}
<1>end. \A x \in S : From(x) \in Ends
  OBVIOUS
<1>1. IsFiniteSet(S)
  BY FS_Interval, FS_Subset, 1 \in Int, n \in Int
<1>2. IsWellFoundedOn(StrictSubsetOrdering(S), SUBSET S)
  BY <1>1, FS_StrictSubsetOrderingWellFounded, FS_FiniteSubsetsOfFinite
<1>3. Ends \subseteq SUBSET S /\ Ends # {}
  OBVIOUS
<1>4. PICK U \in Ends : \A T \in Ends : ~ (<<T, U>> \in StrictSubsetOrdering(S))
  <2> HIDE DEF Ends
  <2> QED
    BY <1>2, <1>3, WFMin
<1>5. PICK m \in S : U = From(m)
  OBVIOUS
<1>int. S \subseteq Int
  OBVIOUS
<1>6. ASSUME NEW i \in S PROVE i <= m
  <2>1. CASE i > m
    <3>a. From(i) \in Ends
      <4> HIDE DEF From, Ends
      <4> QED
        BY <1>end
    <3>b. i \in Int /\ m \in Int
      BY <1>int
    <3>c. m \in From(m) /\ m \notin From(i)
      BY <2>1, <3>b
    <3>d. ASSUME NEW j \in From(i) PROVE j \in From(m)
      <4>1. j \in S /\ j \in Int /\ j >= i
        BY <1>int
      <4> QED
        BY <4>1, <2>1, <3>b
    <3>1. From(i) \subseteq U /\ m \in U /\ m \notin From(i) /\ From(i) \in Ends
      <4> HIDE DEF From, Ends
      <4> QED
        BY <1>5, <3>a, <3>c, <3>d
    <3>2. <<From(i), U>> \in StrictSubsetOrdering(S)
      BY <1>3, <3>1 DEF StrictSubsetOrdering
    <3> QED
      BY <1>4, <3>1, <3>2
  <2> QED
    BY <2>1
<1> QED
  BY <1>6

\* The first segment of any other path below /api2 is api2, and no rule of
\* Classify begins with that.
LEMMA ForeignUnknown ==
  ASSUME req \in RequestType, Foreign, req.method # "GET"
  PROVE  Action = "unknown"
<1> DEFINE named == {i \in DOMAIN req.path : req.path[i] # "/"}
<1>path. /\ DOMAIN req.path = 1..Len(req.path) /\ Len(req.path) \in Nat \ {0}
         /\ req.path \in Seq(STRING) /\ req.path[1] = "api2"
  BY WholeSequence DEF RequestType, Foreign
<1>kept. Segs(req) = SubSeq(req.path, Min(named), Max(named))
  <2>1. splitEnvelope(req.path).rest = req.path
    BY DEF splitEnvelope, Foreign, Api
  <2>2. 1 \in named
    BY <1>path
  <2> QED
    BY <2>1, <2>2 DEF Segs, splitSegs
<1>ends. Min(named) = 1 /\ Max(named) \in 1..Len(req.path)
  <2>1. 1 \in named /\ named \subseteq 1..Len(req.path)
    BY <1>path
  <2>3. PICK m \in named : \A i \in named : i <= m
    BY <2>1, <1>path, LastExists
  <2> HIDE DEF named
  <2>4. named \subseteq Int /\ \A i \in named : 1 <= i /\ i <= m
    BY <2>1, <2>3, <1>path
  <2>5. Min(named) = 1 /\ Max(named) = m
    BY <2>1, <2>4, EndsOfSet
  <2> QED
    BY <2>1, <2>4, <2>5
<1>first. Len(Segs(req)) >= 1 /\ Segs(req)[1] = "api2"
  <2>1. \A m \in 1..Len(req.path) : /\ Len(SubSeq(req.path, 1, m)) = m
                                    /\ SubSeq(req.path, 1, m)[1] = req.path[1]
    BY <1>path
  <2>2. Segs(req) = SubSeq(req.path, 1, Max(named)) /\ Max(named) \in 1..Len(req.path)
    BY <1>kept, <1>ends
  <2> HIDE DEF named
  <2>3. Len(Segs(req)) = Max(named) /\ Segs(req)[1] = req.path[1]
    BY <2>1, <2>2
  <2> QED
    BY <1>path, <2>2, <2>3
<1> QED
  BY <1>first DEF Action, Classify, passOrUnknown, knownPassthrough

\* The writes that are decided about.
Decided == {"create", "config", "resize", "clone", "move", "rollback", "alloc"}

\* Every endpoint of PVE that allocates is classified as what it is.
LEMMA AllocatingClassified ==
  ASSUME NEW s, DOMAIN s = 1..Len(s), NEW m, NEW p, NEW kind \in DOMAIN Allocating,
         <<m, p>> \in Allocating[kind], Matches(s, p)
  PROVE  Classify(m, s) = kind /\ kind \in Decided
<1>create. CASE kind = "create"
  <2>row. m = "POST" /\ p \in Guest(<<>>)
    BY <1>create DEF Allocating
  <2>path. Len(s) = 3 /\ s[1] = "nodes" /\ s[3] \in {"qemu", "lxc"}
    BY <2>row DEF Matches, Guest
  <2> QED
    BY <1>create, <2>row, <2>path DEF Classify, classifyGuest, Decided
<1>clone. CASE kind = "clone"
  <2>row. m = "POST" /\ p \in Guest(<<"*", "clone">>)
    BY <1>clone DEF Allocating
  <2>path. Len(s) = 5 /\ s[1] = "nodes" /\ s[3] \in {"qemu", "lxc"} /\ s[5] = "clone"
    BY <2>row DEF Matches, Guest
  <2> QED
    BY <1>clone, <2>row, <2>path DEF Classify, classifyGuest, Decided
<1>rollback. CASE kind = "rollback"
  <2>row. m = "POST" /\ p \in Guest(<<"*", "snapshot", "*", "rollback">>)
    BY <1>rollback DEF Allocating
  <2>path. Len(s) = 7 /\ s[1] = "nodes" /\ s[3] \in {"qemu", "lxc"} /\ s[5] = "snapshot" /\ s[7] = "rollback"
    BY <2>row DEF Matches, Guest
  <2> QED
    BY <1>rollback, <2>row, <2>path DEF Classify, classifyGuest, Decided
<1>config. CASE kind = "config"
  <2>row. m \in {"PUT", "POST"} /\ p \in Guest(<<"*", "config">>)
    BY <1>config DEF Allocating
  <2>path. Len(s) = 5 /\ s[1] = "nodes" /\ s[3] \in {"qemu", "lxc"} /\ s[5] = "config"
    BY <2>row DEF Matches, Guest
  <2> QED
    BY <1>config, <2>row, <2>path DEF Classify, classifyGuest, Decided
<1>resize. CASE kind = "resize"
  <2>row. m = "PUT" /\ p \in Guest(<<"*", "resize">>)
    BY <1>resize DEF Allocating
  <2>path. Len(s) = 5 /\ s[1] = "nodes" /\ s[3] \in {"qemu", "lxc"} /\ s[5] = "resize"
    BY <2>row DEF Matches, Guest
  <2> QED
    BY <1>resize, <2>row, <2>path DEF Classify, classifyGuest, Decided
<1>move. CASE kind = "move"
  <2>row. m = "POST" /\ p \in {<<"nodes", "*", "qemu", "*", "move_disk">>,
                               <<"nodes", "*", "lxc", "*", "move_volume">>}
    BY <1>move DEF Allocating
  <2>path. Len(s) = 5 /\ s[1] = "nodes" /\ s[3] \in {"qemu", "lxc"} /\ s[5] \in {"move_disk", "move_volume"}
    BY <2>row DEF Matches
  <2> QED
    BY <1>move, <2>row, <2>path DEF Classify, classifyGuest, Decided
<1>alloc. CASE kind = "alloc"
  <2>row. m = "POST" /\ p = <<"nodes", "*", "storage", "*", "content">>
    BY <1>alloc DEF Allocating
  <2>path. Len(s) = 5 /\ s[1] = "nodes" /\ s[3] = "storage" /\ s[5] = "content"
    BY <2>row DEF Matches
  <2> QED
    BY <1>alloc, <2>row, <2>path DEF Classify, classifyStorage, Decided
<1> QED
  BY <1>create, <1>clone, <1>rollback, <1>config, <1>resize, <1>move, <1>alloc DEF Allocating

\* Every endpoint that frees or changes no resource passes.
LEMMA HarmlessPasses ==
  ASSUME NEW s, DOMAIN s = 1..Len(s), NEW m, NEW p, <<m, p>> \in Harmless, Matches(s, p)
  PROVE  Classify(m, s) = "passthrough"
<1> USE DEF passOrUnknown, knownPassthrough, nodePassthrough, guestPassthrough
<1>status. CASE m = "POST" /\ p \in Guest(<<"*", "status", "*">>)
  <2>path. Len(s) = 6 /\ s[1] = "nodes" /\ s[3] \in {"qemu", "lxc"} /\ s[5] = "status"
    BY <1>status DEF Matches, Guest
  <2> QED
    BY <1>status, <2>path DEF Classify, classifyGuest
<1>vnc. CASE m = "POST" /\ p \in Guest(<<"*", "vncproxy">>)
  <2>path. Len(s) = 5 /\ s[1] = "nodes" /\ s[3] \in {"qemu", "lxc"} /\ s[5] = "vncproxy"
    BY <1>vnc DEF Matches, Guest
  <2> QED
    BY <1>vnc, <2>path DEF Classify, classifyGuest
<1>snapshot. CASE m = "POST" /\ p \in Guest(<<"*", "snapshot">>)
  <2>path. Len(s) = 5 /\ s[1] = "nodes" /\ s[3] \in {"qemu", "lxc"} /\ s[5] = "snapshot"
    BY <1>snapshot DEF Matches, Guest
  <2> QED
    BY <1>snapshot, <2>path DEF Classify, classifyGuest
<1>vzdump. CASE m = "POST" /\ p = <<"nodes", "*", "vzdump">>
  <2>path. Len(s) = 3 /\ s[1] = "nodes" /\ s[3] = "vzdump"
    BY <1>vzdump DEF Matches
  <2> QED
    BY <1>vzdump, <2>path DEF Classify
<1>ticket. CASE m = "POST" /\ p = <<"access", "ticket">>
  <2>path. Len(s) = 2 /\ s[1] = "access" /\ s[2] = "ticket"
    BY <1>ticket DEF Matches
  <2> QED
    BY <1>ticket, <2>path DEF Classify
<1>destroy. CASE m = "DELETE" /\ p \in Guest(<<"*">>)
  <2>path. Len(s) = 4 /\ s[1] = "nodes" /\ s[3] \in {"qemu", "lxc"}
    BY <1>destroy DEF Matches, Guest
  <2> QED
    BY <1>destroy, <2>path DEF Classify, classifyGuest
<1>forget. CASE m = "DELETE" /\ p \in Guest(<<"*", "snapshot", "*">>)
  <2>path. Len(s) = 6 /\ s[1] = "nodes" /\ s[3] \in {"qemu", "lxc"} /\ s[5] = "snapshot"
    BY <1>forget DEF Matches, Guest
  <2> QED
    BY <1>forget, <2>path DEF Classify, classifyGuest
<1>free. CASE m = "DELETE" /\ p = <<"nodes", "*", "storage", "*", "content", "*">>
  <2>path. Len(s) = 6 /\ s[1] = "nodes" /\ s[3] = "storage" /\ s[5] = "content"
    BY <1>free DEF Matches
  <2> QED
    BY <1>free, <2>path DEF Classify, classifyStorage
<1> QED
  BY <1>status, <1>vnc, <1>snapshot, <1>vzdump, <1>ticket, <1>destroy, <1>forget, <1>free DEF Harmless

\* A change of a pool's members is recognised.
LEMMA MembershipSeen ==
  ASSUME NEW s, DOMAIN s = 1..Len(s), NEW m, NEW p, <<m, p>> \in Membership, Matches(s, p)
  PROVE  Classify(m, s) = "pool"
<1>pools. CASE m \in {"PUT", "POST"} /\ p = <<"pools">>
  <2>path. Len(s) = 1 /\ s[1] = "pools"
    BY <1>pools DEF Matches
  <2> QED
    BY <1>pools, <2>path DEF Classify
<1>pool. CASE m = "PUT" /\ p = <<"pools", "*">>
  <2>path. Len(s) = 2 /\ s[1] = "pools"
    BY <1>pool DEF Matches
  <2> QED
    BY <1>pool, <2>path DEF Classify
<1> QED
  BY <1>pools, <1>pool DEF Membership

\* A write that the tables do not name is unknown.
LEMMA UnlistedUnknown ==
  ASSUME NEW s, DOMAIN s = 1..Len(s), NEW m, NEW p, <<m, p>> \in Unlisted, Matches(s, p)
  PROVE  Classify(m, s) = "unknown"
<1> USE DEF passOrUnknown, knownPassthrough, nodePassthrough, guestPassthrough
<1>migrate. CASE m = "POST" /\ p \in Guest(<<"*", "migrate">>)
  <2>path. Len(s) = 5 /\ s[1] = "nodes" /\ s[3] \in {"qemu", "lxc"} /\ s[5] = "migrate"
    BY <1>migrate DEF Matches, Guest
  <2> QED
    BY <1>migrate, <2>path DEF Classify, classifyGuest
<1>cluster. CASE m = "POST" /\ p = <<"cluster", "*">>
  <2>path. Len(s) = 2 /\ s[1] = "cluster"
    BY <1>cluster DEF Matches
  <2> QED
    BY <1>cluster, <2>path DEF Classify
<1>execute. CASE m = "POST" /\ p = <<"nodes", "*", "execute">>
  <2>path. Len(s) = 3 /\ s[1] = "nodes" /\ s[3] = "execute"
    BY <1>execute DEF Matches
  <2> QED
    BY <1>execute, <2>path DEF Classify
<1>users. CASE m = "PUT" /\ p = <<"access", "users", "*">>
  <2>path. Len(s) = 3 /\ s[1] = "access" /\ s[2] = "users"
    BY <1>users DEF Matches
  <2> QED
    BY <1>users, <2>path DEF Classify
<1>pools. CASE m = "DELETE" /\ p = <<"pools", "*">>
  <2>path. Len(s) = 2 /\ s[1] = "pools"
    BY <1>pools DEF Matches
  <2> QED
    BY <1>pools, <2>path DEF Classify
<1> QED
  BY <1>migrate, <1>cluster, <1>execute, <1>users, <1>pools DEF Unlisted

\* The classes that Classify knows.
LEMMA ClassifyType ==
  ASSUME NEW m, NEW s
  PROVE  Classify(m, s) \in Decided \cup {"read", "passthrough", "unknown", "upload", "pool"}
  BY DEF Classify, classifyGuest, classifyStorage, passOrUnknown, Decided

\* A row of a table that a request matches, and the path that Classify sees.
LEMMA RowSeen ==
  ASSUME NEW table, req \in RequestType, In(table), \A e \in table : e = <<e[1], e[2]>>
  PROVE  \E p : /\ <<req.method, p>> \in table /\ Matches(Segs(req), p)
                /\ DOMAIN Segs(req) = 1..Len(Segs(req))
<1> DEFINE s == SubSeq(req.path, 3, Len(req.path))
<1>1. PICK e \in table : req.method = e[1] /\ Matches(s, e[2])
  BY DEF In
<1>2. Api /\ \A i \in DOMAIN s : s[i] # "/"
  BY <1>1 DEF In, Matches
<1>3. Segs(req) = s
  BY <1>2, ApiSegments
<1>4. s \in Seq(STRING) /\ DOMAIN s = 1..Len(s)
  BY WholeSequence DEF RequestType
<1>5. e = <<req.method, e[2]>>
  BY <1>1
<1> HIDE DEF s
<1> QED
  BY <1>1, <1>3, <1>4, <1>5

\* The rows of the tables, by the class of a request that they match.
LEMMA TablesAgree ==
  ASSUME req \in RequestType
  PROVE  /\ \A kind \in DOMAIN Allocating : In(Allocating[kind]) => Action = kind /\ kind \in Decided
         /\ In(Harmless) => Action = "passthrough"
         /\ In(Membership) => Action = "pool"
         /\ In(Unlisted) => Action = "unknown"
         /\ req.method = "GET" => Action = "read"
<1>alloc. ASSUME NEW kind \in DOMAIN Allocating, In(Allocating[kind]) PROVE Action = kind /\ kind \in Decided
  <2>1. \A e \in Allocating[kind] : e = <<e[1], e[2]>>
    BY <1>alloc DEF Allocating
  <2>2. PICK p : /\ <<req.method, p>> \in Allocating[kind] /\ Matches(Segs(req), p)
                 /\ DOMAIN Segs(req) = 1..Len(Segs(req))
    BY <1>alloc, <2>1, RowSeen
  <2> QED
    BY <2>2, AllocatingClassified DEF Action
<1>harmless. ASSUME In(Harmless) PROVE Action = "passthrough"
  <2>1. \A e \in Harmless : e = <<e[1], e[2]>>
    BY DEF Harmless
  <2>2. PICK p : /\ <<req.method, p>> \in Harmless /\ Matches(Segs(req), p)
                 /\ DOMAIN Segs(req) = 1..Len(Segs(req))
    BY <1>harmless, <2>1, RowSeen
  <2> QED
    BY <2>2, HarmlessPasses DEF Action
<1>member. ASSUME In(Membership) PROVE Action = "pool"
  <2>1. \A e \in Membership : e = <<e[1], e[2]>>
    BY DEF Membership
  <2>2. PICK p : /\ <<req.method, p>> \in Membership /\ Matches(Segs(req), p)
                 /\ DOMAIN Segs(req) = 1..Len(Segs(req))
    BY <1>member, <2>1, RowSeen
  <2> QED
    BY <2>2, MembershipSeen DEF Action
<1>unlisted. ASSUME In(Unlisted) PROVE Action = "unknown"
  <2>1. \A e \in Unlisted : e = <<e[1], e[2]>>
    BY DEF Unlisted
  <2>2. PICK p : /\ <<req.method, p>> \in Unlisted /\ Matches(Segs(req), p)
                 /\ DOMAIN Segs(req) = 1..Len(Segs(req))
    BY <1>unlisted, <2>1, RowSeen
  <2> QED
    BY <2>2, UnlistedUnknown DEF Action
<1>read. ASSUME req.method = "GET" PROVE Action = "read"
  BY <1>read DEF Action, Classify
<1> QED
  BY <1>alloc, <1>harmless, <1>member, <1>unlisted, <1>read

\* The user whom the proxy finds is the one whom PVE finds.
LEMMA SenderKnown ==
  ASSUME req \in RequestType
  PROVE  \A u \in Users : Sends(u) <=> Who = u
<1>types. /\ req.auth \in Tokens \cup {None} /\ req.cookie \in Cookies \cup {None}
          /\ None \notin Users \cup Tokens \cup Cookies
  BY GatewayAssumption DEF RequestType
<1>token. \A u \in Users : TokenOf(u) <=> req.auth # None /\ parseToken(req.auth) = u
  <2>1. ASSUME req.auth # None
        PROVE req.auth = [scheme |-> req.auth.scheme, user |-> req.auth.user, id |-> req.auth.id]
    BY <1>types, <2>1 DEF Tokens
  <2>2. ASSUME NEW u \in Users, TokenOf(u) PROVE req.auth # None /\ parseToken(req.auth) = u
    <3>1. req.auth \in Tokens
      BY <2>2 DEF TokenOf, Tokens
    <3>2. req.auth.scheme = "PVEAPIToken" /\ req.auth.user = u /\ req.auth.id = TRUE
      BY <2>2 DEF TokenOf
    <3>3. req.auth # None /\ u # None
      BY <1>types, <3>1
    <3> QED
      BY <3>2, <3>3 DEF parseToken, realmOf
  <2>3. ASSUME NEW u \in Users, req.auth # None, parseToken(req.auth) = u PROVE TokenOf(u)
    <3>1. req.auth.scheme = "PVEAPIToken" /\ req.auth.id /\ req.auth.user = u
      BY <1>types, <2>3 DEF parseToken
    <3>2. req.auth.id = TRUE
      BY <1>types, <2>3, <3>1 DEF Tokens
    <3> QED
      BY <2>1, <2>3, <3>1, <3>2 DEF TokenOf
  <2> QED
    BY <2>2, <2>3
<1>ticket. \A u \in Users : TicketOf(u) <=> req.cookie # None /\ parseCookie(req.cookie) = u
  <2>1. ASSUME req.cookie # None PROVE req.cookie = [kind |-> req.cookie.kind, user |-> req.cookie.user]
    BY <1>types, <2>1 DEF Cookies
  <2>2. ASSUME NEW u \in Users, TicketOf(u) PROVE req.cookie # None /\ parseCookie(req.cookie) = u
    <3>1. req.cookie \in Cookies
      BY <2>2 DEF TicketOf, Cookies
    <3> QED
      BY <1>types, <2>2, <3>1 DEF TicketOf, parseCookie, realmOf
  <2>3. ASSUME NEW u \in Users, req.cookie # None, parseCookie(req.cookie) = u PROVE TicketOf(u)
    <3>1. req.cookie.kind = "ticket" /\ req.cookie.user = u
      BY <1>types, <2>3 DEF parseCookie
    <3> QED
      BY <2>1, <2>3, <3>1 DEF TicketOf
  <2> QED
    BY <2>2, <2>3
<1>parsed. req.auth # None /\ parseToken(req.auth) # None => parseToken(req.auth) \in Users
  BY <1>types DEF parseToken, realmOf, Tokens
<1> QED
  BY <1>types, <1>token, <1>ticket, <1>parsed DEF Sends, Who, FromRequest

\* A decision about the sender, on the branch for what the request does.
Sound ==
    /\ basis # None /\ basis.user = Who /\ Who \in Users /\ basis.params = params
    /\ Opaque \/ params = "body"
    /\ basis.branch = IF Action = "create" /\ req.restore /\ ~ Opaque THEN "restore" ELSE Action

\* What lets a request out of the middleware when it is enforced.
Justified ==
    \/ Action \in {"read", "passthrough", "upload"}
    \/ Action = "unknown" /\ ~ flags.defaultDeny
    \/ Action \in Decided /\ Sound

\* The strengthening of CheckedOrHarmless and DeniesOnlyEnforced: what is known
\* at every stage about the class of the request and the parameters read.
RouteInv ==
    /\ stage \in {"arrived", "reading", "route"} => got = <<>>
    /\ stage \in {"reading", "route"} => QuotaRelevant(Action)
    /\ stage = "reading" => req.sent # <<>>
    /\ stage = "route" => Opaque \/ params = "body" \/ Action = "upload"
    /\ params = "body" => ~ chained /\ ~ Opaque
    /\ stage \in {"forward", "sent"} /\ flags.enforce /\ Who \notin Admins => Justified
    /\ stage = "denied" => flags.enforce /\ Who \notin Admins /\ Action \notin {"read", "passthrough"}

\* The state of a request is well typed, and a decision is about a user that
\* exists, on a branch that decide has, for any tables, users and bodies.
THEOREM GatewayTypeCorrect == Spec => []TypeOK
<1>start. Init => TypeOK
  <2> SUFFICES ASSUME Init PROVE TypeOK
    OBVIOUS
  <2>1. req \in RequestType /\ req.sent \in Seq(Bytes) /\ <<>> \in Seq(Bytes)
    BY SentType, GatewayAssumption DEF Init
  <2> QED
    BY <2>1 DEF Init, TypeOK
<1>step. ASSUME TypeOK, BodyInv', [Next]_vars PROVE TypeOK'
  <2>seqs. buf' \in Seq(Bytes) /\ conn' \in Seq(Bytes) /\ got' \in Seq(Bytes) /\ req' \in RequestType
    BY <1>step DEF BodyInv
  <2>decide. ASSUME Decide PROVE TypeOK'
    <3>who. Who \in Users
      BY <2>decide, GatewayAssumption DEF Decide
    <3>class. Action \in Decided
      BY <2>decide, ClassifyType DEF Decide, Enforced, enforceable, QuotaRelevant, Action
    <3>branch. Branch \in Decided \cup {"restore"}
      BY <3>class DEF Branch
    <3>basis. basis' \in Decisions
      BY <1>step, <2>decide, <3>who, <3>branch DEF Decide, Decisions, Decided, TypeOK
    <3> QED
      BY <1>step, <2>decide, <2>seqs, <3>basis DEF Decide, TypeOK, Body
  <2>other. ASSUME ~ Decide PROVE TypeOK'
    BY <1>step, <2>other, <2>seqs
       DEF Next, Handler, HandleUnknown, PassThrough, Inspect, ReadByte, ReadFails, ReadWhole, Bypass,
           Refuse, SendBuffered, SendRest, SendEnd, ClientBreaks, Deny, Forward, Body, parseParams,
           TypeOK, vars
  <2> QED
    BY <2>decide, <2>other
<1> QED
  BY <1>start, <1>step, BodyAccounted, PTL DEF Spec

\* The routing facts hold on every path through the middleware.
LEMMA RoutesKnown == Spec => []RouteInv
<1>start. Init => RouteInv
  BY DEF Init, RouteInv
<1>step. ASSUME TypeOK, TypeOK', BodyInv, RouteInv, [Next]_vars PROVE RouteInv'
  <2>known. req \in RequestType /\ Action \in Decided \cup {"read", "passthrough", "unknown", "upload", "pool"}
    BY <1>step, ClassifyType DEF TypeOK, Action
  <2>routed. ASSUME HandleUnknown \/ PassThrough \/ Bypass \/ Refuse PROVE RouteInv'
    <3>same. /\ UNCHANGED <<req, flags, chained, broken, params, basis>> /\ stage' \in {"forward", "denied"}
             /\ Action' = Action /\ Who' = Who
      BY <2>routed DEF HandleUnknown, PassThrough, Bypass, Refuse, Deny, Forward, Body, Action, Who
    <3>out. stage' = "forward" /\ flags.enforce /\ Who \notin Admins =>
               Action \in {"read", "passthrough", "upload"} \/ (Action = "unknown" /\ ~ flags.defaultDeny)
      BY <1>step, <2>known, <2>routed
         DEF HandleUnknown, PassThrough, Bypass, Refuse, Deny, Forward, RouteInv, enforceable, QuotaRelevant
    <3>refused. stage' = "denied" => flags.enforce /\ Who \notin Admins /\ Action \notin {"read", "passthrough"}
      BY <2>routed
         DEF HandleUnknown, PassThrough, Bypass, Refuse, Deny, Forward, Enforced, enforceable, QuotaRelevant
    <3> QED
      BY <1>step, <3>same, <3>out, <3>refused DEF RouteInv, Justified, Opaque
  <2>inspect. ASSUME Inspect PROVE RouteInv'
    <3>same. /\ UNCHANGED <<req, flags, chained, broken, params, basis, got>> /\ stage = "arrived"
             /\ Action' = Action /\ QuotaRelevant(Action) /\ stage' \in {"reading", "route"}
             /\ stage' = "reading" => req.sent # <<>>
      BY <2>inspect DEF Inspect, Body, Action, shouldParseBody
    <3>opaque. stage' = "route" => Opaque \/ Action = "upload"
      <4>multi. req.ctype = "multipart" => req.ctype # req.enc
        BY <2>known DEF RequestType
      <4> QED
        BY <2>inspect, <4>multi DEF Inspect, shouldParseBody, Opaque
    <3> QED
      BY <1>step, <3>same, <3>opaque DEF RouteInv, Opaque
  <2>byte. ASSUME ReadByte PROVE RouteInv'
    BY <1>step, <2>byte DEF ReadByte, RouteInv, Action, Opaque
  <2>sizes. /\ Len(buf) \in Nat /\ Len(got) \in Nat /\ Len(conn) \in Nat /\ Len(req.sent) \in Nat
            /\ Len(got) + Len(buf) + Len(conn) <= Len(req.sent)
            /\ ~ broken => Len(got) + Len(buf) + Len(conn) = Len(req.sent)
    BY <1>step, SentType DEF BodyInv, Accounted, InPlace
  <2>fails. ASSUME ReadFails PROVE RouteInv'
    <3>long. Len(buf) > MaxBody => Len(req.sent) > MaxBody
      BY <2>sizes, GatewayAssumption
    <3>same. /\ UNCHANGED <<req, chained, broken, params, got>> /\ Action' = Action
             /\ stage = "reading" /\ stage' = "route" /\ Opaque /\ QuotaRelevant(Action)
      BY <1>step, <2>fails, <3>long DEF ReadFails, Body, Action, Opaque, RouteInv
    <3> QED
      BY <1>step, <3>same DEF RouteInv, Opaque
  <2>whole. ASSUME ReadWhole PROVE RouteInv'
    <3>same. /\ UNCHANGED <<req, broken, got>> /\ Action' = Action /\ stage = "reading" /\ stage' = "route"
             /\ ~ chained' /\ params' = parseParams(req) /\ ~ broken /\ conn = <<>> /\ Len(buf) <= MaxBody
      BY <2>whole DEF ReadWhole, Action
    <3>short. Len(req.sent) <= MaxBody /\ req.sent # <<>> /\ got = <<>> /\ QuotaRelevant(Action)
      <4>1. got = <<>> /\ req.sent # <<>> /\ QuotaRelevant(Action)
        BY <1>step, <3>same DEF RouteInv
      <4>2. Len(got) = 0 /\ Len(conn) = 0
        BY <3>same, <4>1
      <4> QED
        BY <2>sizes, <3>same, <4>1, <4>2
    <3>clear. Len(req.sent) > MaxBody <=> FALSE
      BY <2>sizes, <3>short, GatewayAssumption
    <3> QED
      BY <3>same, <3>short, <3>clear DEF RouteInv, Opaque, parseParams
  <2>decide. ASSUME Decide PROVE RouteInv'
    <3>same. /\ UNCHANGED <<req, flags, chained, broken, params>> /\ stage' \in {"forward", "denied"}
             /\ Action' = Action /\ Who' = Who /\ flags.enforce /\ Who \notin Admins /\ stage = "route"
             /\ basis' = [user |-> Who, branch |-> Branch, params |-> params]
      BY <2>decide DEF Decide, Enforced, Body, Action, Who
    <3>class. Action \in Decided
      BY <2>known, <2>decide DEF Decide, Enforced, enforceable, QuotaRelevant
    <3>who. Who \in Users
      BY <2>decide, GatewayAssumption DEF Decide
    <3>basis. basis' # None
      <4>2. Branch \in Decided \cup {"restore"}
        BY <3>class DEF Branch
      <4>3. basis' \in Decisions
        BY <1>step, <3>same, <3>who, <4>2 DEF Decisions, Decided, TypeOK
      <4> QED
        BY <4>3, GatewayAssumption
    <3>read. (Opaque \/ params = "body") /\ (params = "body" => ~ Opaque /\ ~ chained)
      BY <1>step, <3>same, <3>class DEF RouteInv, Decided
    <3>branch. Branch = IF Action = "create" /\ req.restore /\ ~ Opaque THEN "restore" ELSE Action
      BY <3>read DEF Branch, IsRestore
    <3>opaque. Opaque' = Opaque
      BY <3>same DEF Opaque
    <3>sound. Sound'
      BY <3>same, <3>who, <3>basis, <3>read, <3>branch, <3>opaque DEF Sound
    <3> QED
      BY <3>same, <3>class, <3>sound, <3>read, <3>opaque DEF RouteInv, Justified, Decided
  <2>sends. ASSUME SendBuffered \/ SendRest \/ SendEnd \/ UNCHANGED vars PROVE RouteInv'
    <3>same. /\ UNCHANGED <<req, flags, chained, broken, params, basis>> /\ Action' = Action /\ Who' = Who
             /\ (stage' = stage /\ UNCHANGED got) \/ (stage = "forward" /\ stage' \in {"forward", "sent", "aborted"})
      BY <2>sends DEF SendBuffered, SendRest, SendEnd, Body, Action, Who, vars
    <3>opaque. Opaque' = Opaque
      BY <3>same DEF Opaque
    <3>sound. Justified => Justified'
      BY <3>same, <3>opaque DEF Justified, Sound
    <3> QED
      BY <1>step, <3>same, <3>opaque, <3>sound DEF RouteInv
  <2>breaks. ASSUME ClientBreaks PROVE RouteInv'
    <3>same. /\ UNCHANGED <<req, flags, stage, chained, params, basis, got>> /\ Action' = Action /\ Who' = Who
             /\ conn # <<>> /\ broken'
      BY <2>breaks DEF ClientBreaks, Action, Who
    <3>opaque. Opaque'
      BY <3>same DEF Opaque
    <3>chained. chained /\ params # "body"
      BY <1>step, <3>same DEF BodyInv, RouteInv
    <3>sound. Justified => Justified'
      BY <3>same, <3>opaque, <3>chained DEF Justified, Sound
    <3> QED
      BY <1>step, <3>same, <3>opaque, <3>chained, <3>sound DEF RouteInv
  <2> QED
    BY <1>step, <2>routed, <2>inspect, <2>byte, <2>fails, <2>whole, <2>decide, <2>sends, <2>breaks
       DEF Next, Handler
<1> QED
  BY <1>start, <1>step, GatewayTypeCorrect, BodyAccounted, PTL DEF Spec

\* With -enforce, no write that allocates leaves the proxy unless an
\* administrator sent it or it was decided about: for the user that PVE takes
\* for its sender, on the branch of its own kind, and with the parameters that
\* PVE acts on unless they cannot be read.  No change of a pool's members does,
\* and with -default-deny nothing the tables do not name, whatever the path,
\* the credentials, the body, the limit and the users.
THEOREM AllocationsChecked == Spec => []CheckedOrHarmless
<1>inv. TypeOK /\ RouteInv => CheckedOrHarmless
  <2> SUFFICES ASSUME TypeOK, RouteInv, stage \in {"forward", "sent"}, req.method # "GET",
                      flags.enforce, ~ SentByAdmin
               PROVE  /\ \A kind \in DOMAIN Allocating : In(Allocating[kind]) => DecidedAs(kind)
                      /\ ~ In(Membership)
                      /\ flags.defaultDeny => ~ In(Unlisted) /\ ~ Foreign
    BY DEF CheckedOrHarmless
  <2>req. req \in RequestType
    BY DEF TypeOK
  <2>who. \A u \in Users : Sends(u) <=> Who = u
    BY <2>req, SenderKnown
  <2>just. Justified
    BY <2>who, GatewayAssumption DEF RouteInv, SentByAdmin
  <2>table. /\ \A kind \in DOMAIN Allocating : In(Allocating[kind]) => Action = kind /\ kind \in Decided
            /\ In(Membership) => Action = "pool"
            /\ In(Unlisted) => Action = "unknown"
            /\ Foreign => Action = "unknown"
    BY <2>req, TablesAgree, ForeignUnknown
  <2>kinds. ASSUME NEW kind \in DOMAIN Allocating, In(Allocating[kind]) PROVE DecidedAs(kind)
    <3>1. Action = kind /\ Sound
      BY <2>just, <2>table, <2>kinds DEF Justified, Decided
    <3> QED
      BY <2>who, <3>1 DEF Sound, DecidedAs
  <2> QED
    BY <2>just, <2>table, <2>kinds DEF Justified, Decided
<1> QED
  BY <1>inv, GatewayTypeCorrect, RoutesKnown, PTL

\* Nothing is denied in the observing mode, to an administrator, or that reads,
\* frees or changes no resource, whatever the request.
THEOREM DenialsJustified == Spec => []DeniesOnlyEnforced
<1>inv. TypeOK /\ RouteInv => DeniesOnlyEnforced
  <2> SUFFICES ASSUME TypeOK, RouteInv, stage = "denied" PROVE DeniesOnlyEnforced
    BY DEF DeniesOnlyEnforced
  <2>1. flags.enforce /\ Who \notin Admins /\ Action \notin {"read", "passthrough"} /\ req \in RequestType
    BY DEF RouteInv, TypeOK
  <2>2. ~ SentByAdmin
    BY <2>1, SenderKnown, GatewayAssumption DEF SentByAdmin
  <2> QED
    BY <2>1, <2>2, TablesAgree DEF DeniesOnlyEnforced
<1> QED
  BY <1>inv, GatewayTypeCorrect, RoutesKnown, PTL
=============================================================================
