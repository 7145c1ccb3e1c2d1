--------------------------- MODULE AdmissionProofs --------------------------
(***************************************************************************)
(* Type correctness, the lock discipline and the serialization per pool of *)
(* the admission middleware, for any users, pools, requests, quota files   *)
(* and failures.                                                           *)
(***************************************************************************)
EXTENDS Admission, TLAPS

-----------------------------------------------------------------------------
(* What the operators on vectors and tasks return.                         *)

\* Vectors are closed under the operators on them.
LEMMA VecFacts ==
  /\ Zero \in Vec
  /\ \A a, b \in Vec : Plus(a, b) \in Vec
  /\ \A a, b \in Vec : \A keys : Override(a, keys, b) \in Vec
  BY DEF Vec, Zero, Plus, Override

\* So are the vectors without a negative component.
LEMMA AmountFacts ==
  /\ Amounts \subseteq Vec /\ Zero \in Amounts
  /\ \A a, b \in Amounts : Plus(a, b) \in Amounts
  /\ \A a, b \in Amounts : \A keys : Override(a, keys, b) \in Amounts
  BY DEF Vec, Amounts, Zero, Plus, Override

\* The fields of a write have their types.
LEMMA OpFacts ==
  ASSUME NEW o \in Ops
  PROVE  /\ o.user \in Users /\ o.g \in Guests /\ o.pool \in Pools \cup {None}
         /\ o.keys \in SUBSET Dims /\ o.to \in Amounts /\ o.act \in Acts
         /\ o.act = "clone" => o.src \in Guests
  BY OpAssumption

\* A write that PVE accepts starts a well-typed task.
LEMMA TaskOfType ==
  ASSUME PveTypeOK, NEW o \in Ops
  PROVE  TaskOf(o) \in Task
<1>1. (IF o.act = "clone" THEN res[o.src] ELSE o.to) \in Amounts
  BY OpFacts DEF PveTypeOK
<1> DEFINE m == CASE o.act \in NewGuest -> "create"
                  [] o.act \in {"restore", "pool"} -> o.act
                  [] o.act \in {"resize", "move"} -> "add"
                  [] OTHER -> "set"
<1>2. m \in {"create", "restore", "set", "add", "pool"}
  OBVIOUS
<1> HIDE DEF m
<1>3. TaskOf(o) = [mode |-> m, g |-> o.g, pool |-> o.pool, keys |-> o.keys,
                   to |-> IF o.act = "clone" THEN res[o.src] ELSE o.to]
  BY DEF TaskOf, m
<1>4. QED
  BY <1>1, <1>2, <1>3, OpFacts DEF Task

\* A task leaves its guest with a vector that has no negative component.
LEMMA ResultType ==
  ASSUME PveTypeOK, NEW k \in Task
  PROVE  Result(k) \in Amounts
<1>1. k.to \in Amounts /\ k.keys \in SUBSET Dims /\ res[k.g] \in Amounts
      /\ k.mode \in {"create", "restore", "set", "add", "pool"}
  BY DEF Task, PveTypeOK
<1>2. /\ Override(res[k.g], k.keys, k.to) \in Amounts
      /\ Override(Zero, k.keys, k.to) \in Amounts
      /\ Plus(res[k.g], Override(Zero, k.keys, k.to)) \in Amounts
  BY <1>1, AmountFacts
<1>3. QED
  BY <1>1, <1>2 DEF Result

\* decide computes a vector, whatever vector the base guest reads as.
LEMMA DeltaType ==
  ASSUME NEW o \in Ops, NEW cur \in Vec
  PROVE  DeltaOf(o, cur) \in Vec
<1>1. o.to \in Vec /\ o.keys \in SUBSET Dims
  BY OpFacts, AmountFacts
<1>2. [k \in Dims |-> IF k \in o.keys THEN o.to[k] - cur[k] ELSE 0] \in Vec
  BY <1>1 DEF Vec
<1>3. Override(Zero, o.keys, o.to) \in Vec /\ Override(cur, o.keys, o.to) \in Vec
  BY <1>1, VecFacts
<1>4. \A t \in Vec : IncreaseDelta(t, cur) \in Vec
  BY DEF Vec, IncreaseDelta
<1>5. QED
  BY <1>1, <1>2, <1>3, <1>4 DEF DeltaOf

\* Reading a guest returns a vector, with or without the content listing.
LEMMA ReadingsType ==
  ASSUME PveTypeOK, NEW g \in Guests
  PROVE  Readings(g) \subseteq Vec
  BY VecFacts, AmountFacts DEF PveTypeOK, Readings

\* A loaded quota record is in Records and names a pool.
LEMMA RecordFacts ==
  /\ \A c \in Configs, u \in Users : c[u] \in Records \cup {None}
  /\ \A q \in Records : q.pool \in Pools
  BY ConfigAssumption

\* The locals of a handler without a request are well typed.
LEMMA NoRequestType ==
  /\ NoRequest \in HandlerState
  /\ NoRequest.quota = None /\ NoRequest.tid = None
  BY VecFacts DEF NoRequest, HandlerState

-----------------------------------------------------------------------------
(* Type correctness.                                                       *)

\* The proxy starts well typed.
LEMMA InitTyping == Init => TypeOK
<1> SUFFICES ASSUME Init PROVE TypeOK
  OBVIOUS
<1>1. PveTypeOK
  BY WorldAssumption DEF Init, PveTypeOK
<1>2. h \in [Slots -> HandlerState]
  BY NoRequestType DEF Init
<1>3. QED
  BY <1>1, <1>2, NoRequestType DEF Init, TypeOK

\* A handler that returns leaves a well-typed state.
LEMMA ReturnTyping ==
  ASSUME TypeOK, NEW s \in Slots, Return(s), UNCHANGED <<pveVars, cfg>>
  PROVE  TypeOK'
<1>1. PveTypeOK' /\ cfg' \in Configs
  BY DEF TypeOK, PveTypeOK, pveVars
<1>2. h' \in [Slots -> HandlerState]
  BY NoRequestType DEF TypeOK, Return
<1>3. slipped' \subseteq Pools
  BY RecordFacts DEF TypeOK, Return, Slips, HandlerState
<1>4. lock' \in [Users -> Slots \cup {None}]
  BY DEF TypeOK, Return
<1>5. QED
  BY <1>1, <1>2, <1>3, <1>4, NoRequestType DEF TypeOK, Return

\* Every step, one case per action, keeps the state well typed.
LEMMA StepTyping == TypeOK /\ [Next]_vars => TypeOK'
<1> SUFFICES ASSUME TypeOK, [Next]_vars PROVE TypeOK'
  OBVIOUS
<1> USE DEF TypeOK
<1>1. ASSUME NEW s \in Slots, NEW o \in Ops, ArriveBypass(s, o)
      PROVE  TypeOK'
  <2>1. [NoRequest EXCEPT !.op = o] \in HandlerState
    BY NoRequestType DEF NoRequest, HandlerState
  <2>2. PveTypeOK'
    BY <1>1 DEF ArriveBypass, PveTypeOK, pveVars
  <2>3. [NoRequest EXCEPT !.op = o].op # None
    BY NoneAssumption DEF NoRequest
  <2>4. QED
    BY <1>1, <2>1, <2>2, <2>3 DEF ArriveBypass
<1>2. ASSUME NEW s \in Slots, NEW o \in Ops, ArriveEnforced(s, o)
      PROVE  TypeOK'
  <2>1. cfg[o.user] \in Records
    BY <1>2, RecordFacts, OpFacts DEF ArriveEnforced, Refused
  <2> DEFINE x == [NoRequest EXCEPT !.op = o, !.quota = cfg[o.user]]
  <2>2. x \in HandlerState
    BY <2>1, NoRequestType DEF NoRequest, HandlerState
  <2>3. x.op # None /\ x.quota # None
    BY <1>2, NoneAssumption DEF NoRequest, ArriveEnforced, Refused
  <2>4. PveTypeOK'
    BY <1>2 DEF ArriveEnforced, PveTypeOK, pveVars
  <2> HIDE DEF x
  <2>5. h' = [h EXCEPT ![s] = x] /\ pc' = [pc EXCEPT ![s] = "lock"]
        /\ UNCHANGED <<cfg, lock, slipped>>
    BY <1>2 DEF ArriveEnforced, x
  <2>6. QED
    BY <2>2, <2>3, <2>4, <2>5
<1>3. ASSUME NEW s \in Slots, Acquire(s)
      PROVE  TypeOK'
  BY <1>3 DEF Acquire, PveTypeOK, pveVars
<1>4. ASSUME NEW s \in Slots, ReadBase(s)
      PROVE  TypeOK'
  <2> DEFINE o == h[s].op
  <2>1. PICK cur \in BaseReadings(o) : UseBase(s, cur)
    BY <1>4 DEF ReadBase
  <2>2. pc[s] = "base" /\ h[s] \in HandlerState /\ o \in Ops /\ h[s].quota \in Records
    BY <1>4 DEF ReadBase, HandlerState
  <2>3. cur \in Vec
    BY <2>1, <2>2, OpFacts, ReadingsType, VecFacts, AmountFacts DEF BaseReadings, PveTypeOK
  <2>4. DeltaOf(o, cur) \in Vec
    BY <2>2, <2>3, DeltaType
  <2>5. (IF o.act \in GuestMod THEN ConfigOf(o.g) ELSE None) \in [res : Vec, rev : BOOLEAN] \cup {None}
    BY <2>2, OpFacts, AmountFacts DEF PveTypeOK, ConfigOf
  <2>6. h' \in [Slots -> HandlerState]
    BY <2>1, <2>2, <2>4, <2>5 DEF HandlerState, UseBase
  <2>7. slipped' \subseteq Pools
    BY <2>1, <2>2, RecordFacts DEF Slips, UseBase
  <2>8. PveTypeOK' /\ cfg' \in Configs /\ lock' \in [Users -> Slots \cup {None}]
    BY <1>4 DEF ReadBase, PveTypeOK, pveVars
  <2>9. \A r \in Slots : h'[r].op = h[r].op /\ h'[r].quota = h[r].quota /\ h'[r].tid = h[r].tid
    BY <2>1, <2>2 DEF HandlerState, UseBase
  <2>11. QED
    BY <2>1, <2>2, <2>6, <2>7, <2>8, <2>9 DEF UseBase
<1>5. ASSUME NEW s \in Slots, ReadMembers(s)
      PROVE  TypeOK'
  <2>1. h[s] \in HandlerState /\ Members(h[s].quota.pool) \in SUBSET Guests
    BY DEF Members
  <2>2. h' \in [Slots -> HandlerState]
    BY <1>5, <2>1 DEF ReadMembers, HandlerState
  <2>3. \A r \in Slots : h'[r].op = h[r].op /\ h'[r].quota = h[r].quota /\ h'[r].tid = h[r].tid
    BY <1>5, <2>1 DEF ReadMembers, HandlerState
  <2>4. PveTypeOK'
    BY <1>5 DEF ReadMembers, PveTypeOK, pveVars
  <2>5. QED
    BY <1>5, <2>2, <2>3, <2>4 DEF ReadMembers
<1>6. ASSUME NEW s \in Slots, NEW g \in Guests, ReadConfig(s, g)
      PROVE  TypeOK'
  <2>1. PICK v \in Readings(g) :
               /\ h' = [h EXCEPT ![s].todo = @ \ {g}, ![s].acc = Plus(@, v)]
               /\ Slips(IF v # res[g] THEN {h[s].quota.pool} ELSE {})
    BY <1>6 DEF ReadConfig
  <2>2. h[s] \in HandlerState /\ h[s].quota \in Records
    BY <1>6 DEF ReadConfig, HandlerState
  <2>3. Plus(h[s].acc, v) \in Vec /\ (h[s].todo \ {g}) \in SUBSET Guests
    BY <2>2, ReadingsType, VecFacts DEF HandlerState
  <2>4. h' \in [Slots -> HandlerState]
    BY <2>1, <2>2, <2>3 DEF HandlerState
  <2>5. \A r \in Slots : h'[r].op = h[r].op /\ h'[r].quota = h[r].quota /\ h'[r].tid = h[r].tid
    BY <2>1, <2>2 DEF HandlerState
  <2>6. slipped' \subseteq Pools
    BY <2>1, <2>2, RecordFacts DEF Slips
  <2>7. PveTypeOK'
    BY <1>6 DEF ReadConfig, PveTypeOK, pveVars
  <2>8. QED
    BY <1>6, <2>4, <2>5, <2>6, <2>7 DEF ReadConfig
<1>7. ASSUME NEW s \in Slots, ErrAllows(s)
      PROVE  TypeOK'
  <2>1. pc[s] \in {"base", "members", "sum"}
    BY <1>7 DEF ErrAllows, ReadFails
  <2>2. h[s].quota \in Records /\ h[s].op # None
    BY <2>1 DEF HandlerState
  <2>3. slipped' \subseteq Pools
    BY <1>7, <2>2, RecordFacts DEF ErrAllows, Slips
  <2>4. QED
    BY <1>7, <2>2, <2>3 DEF ErrAllows, PveTypeOK, pveVars
<1>8. ASSUME NEW s \in Slots, CheckAllows(s)
      PROVE  TypeOK'
  BY <1>8 DEF CheckAllows, PveTypeOK, pveVars
<1>9. ASSUME NEW s \in Slots, PveAccepts(s)
      PROVE  TypeOK'
  <2>1. h[s] \in HandlerState /\ h[s].op \in Ops
    BY <1>9 DEF PveAccepts, HandlerState
  <2>2. CASE h[s].op.act \in Unattached
    BY <1>9, <2>1, <2>2 DEF PveAccepts, PveTypeOK, Slips
  <2>3. CASE h[s].op.act \notin Unattached
    <3>1. PICK t \in TaskIds : /\ task' = [task EXCEPT ![t] = TaskOf(h[s].op)]
                               /\ h' = [h EXCEPT ![s].tid = t]
      BY <1>9, <2>3 DEF PveAccepts
    <3>2. TaskOf(h[s].op) \in Task
      BY <2>1, TaskOfType
    <3>3. PveTypeOK'
      BY <1>9, <3>1, <3>2 DEF PveAccepts, PveTypeOK
    <3>4. h' \in [Slots -> HandlerState]
      BY <2>1, <3>1 DEF HandlerState
    <3>5. \A r \in Slots : /\ h'[r].op = h[r].op /\ h'[r].quota = h[r].quota
                           /\ r # s => h'[r].tid = h[r].tid
      BY <2>1, <3>1 DEF HandlerState
    <3>6. slipped' \subseteq Pools
      BY <1>9 DEF PveAccepts, Slips
    <3>7. QED
      BY <1>9, <2>1, <3>3, <3>4, <3>5, <3>6 DEF PveAccepts
  <2>4. QED
    BY <2>2, <2>3
<1>10. ASSUME NEW s \in Slots, PveRefuses(s) \/ ReplyOk(s)
       PROVE  TypeOK'
  <2>1. pc[s] # "idle" /\ UNCHANGED <<pveVars, cfg>> /\ (Return(s) \/ StatusOk(s))
    BY <1>10 DEF PveRefuses, ReplyOk
  <2>2. CASE Return(s)
    BY <2>1, <2>2, ReturnTyping
  <2>3. CASE StatusOk(s) /\ settle(h[s]) # "none"
    BY <2>1, <2>3 DEF StatusOk, settle, PveTypeOK, pveVars
  <2>4. QED
    BY <2>1, <2>2, <2>3 DEF StatusOk
<1>11. ASSUME NEW s \in Slots,
              \/ ErrDenies(s) \/ CheckDenies(s)
              \/ ReplyLost(s) \/ Settled(s) \/ SettleTimeout(s)
       PROVE  TypeOK'
  BY <1>11, ReturnTyping DEF ErrDenies, CheckDenies, ReplyLost, Settled, SettleTimeout
<1>12. ASSUME NEW t \in TaskIds, TaskLands(t) \/ TaskFails(t)
       PROVE  TypeOK'
  <2>1. task[t] \in Task
    BY <1>12 DEF TaskLands, TaskFails, Land, Fail, Pending, PveTypeOK
  <2>2. PveTypeOK'
    <3>1. CASE TaskLands(t)
      <4>1. Result(task[t]) \in Amounts /\ task[t].g \in Guests /\ task[t].pool \in Pools \cup {None}
        BY <2>1, ResultType DEF Task
      <4>2. QED
        BY <3>1, <4>1 DEF TaskLands, Land, PveTypeOK
    <3>2. CASE TaskFails(t)
      BY <3>2 DEF TaskFails, Fail, PveTypeOK
    <3>3. QED
      BY <1>12, <3>1, <3>2
  <2>3. h' \in [Slots -> HandlerState]
    BY <1>12 DEF TaskLands, TaskFails, Unlink, HandlerState
  <2>4. \A r \in Slots : /\ h'[r].op = h[r].op /\ h'[r].quota = h[r].quota
                         /\ h'[r].tid = h[r].tid \/ h'[r].tid = None
    BY <1>12 DEF TaskLands, TaskFails, Unlink, HandlerState
  <2>5. QED
    BY <1>12, <2>2, <2>3, <2>4 DEF TaskLands, TaskFails
<1>13. ASSUME NEW g \in Guests, GuestDestroyed(g) \/ GuestTouched(g)
       PROVE  TypeOK'
  <2>1. PveTypeOK'
    BY <1>13, AmountFacts DEF GuestDestroyed, GuestTouched, Destroy, Touch, PveTypeOK
  <2>2. QED
    BY <1>13, <2>1 DEF GuestDestroyed, GuestTouched, admVars
<1>14. ASSUME NEW c \in Configs, Reload(c)
       PROVE  TypeOK'
  <2>1. slipped' \subseteq Pools
    BY <1>14 DEF Reload, Slips
  <2>2. QED
    BY <1>14, <2>1 DEF Reload, PveTypeOK, pveVars
<1>15. CASE Crash
  <2>1. slipped' \subseteq Pools
    BY <1>15 DEF Crash, Slips
  <2>2. QED
    BY <1>15, <2>1, NoRequestType DEF Crash, PveTypeOK, pveVars
<1>16. CASE UNCHANGED vars
  BY <1>16 DEF vars, PveTypeOK
<1>17. QED
  BY <1>1, <1>2, <1>3, <1>4, <1>5, <1>6, <1>7, <1>8, <1>9, <1>10, <1>11, <1>12, <1>13,
     <1>14, <1>15, <1>16
     DEF Next, Arrive, ArriveRefused, Handler, Decide, Forward, Reply, Settle, Cluster

\* Every reachable state is well typed, and a handler has its request and its
\* quota record wherever the code uses them.
THEOREM TypeCorrect == Spec => []TypeOK
  BY InitTyping, StepTyping, PTL DEF Spec

-----------------------------------------------------------------------------
(* The lock discipline.  It is inductive together with TypeOK.             *)

\* A handler that returns gives back the mutex if, and only if, it holds it.
LEMMA ReturnLock ==
  ASSUME TypeOK, LockDiscipline, NEW s \in Slots, Return(s)
  PROVE  LockDiscipline'
<1>1. h[s] \in HandlerState /\ (Critical(s) => h[s].op \in Ops)
  BY DEF TypeOK, Critical, HandlerState
<1>2. \A r \in Slots : r # s => pc'[r] = pc[r] /\ h'[r] = h[r]
  BY DEF TypeOK, Return
<1>3. pc'[s] = "idle"
  BY DEF TypeOK, Return
<1>4. CASE Critical(s)
  <2>1. h[s].op.user \in Users /\ lock[h[s].op.user] = s
    BY <1>1, <1>4, OpFacts DEF LockDiscipline
  <2>2. lock' = [lock EXCEPT ![h[s].op.user] = None]
    BY <1>4 DEF Return
  <2>3. \A r \in Slots : Critical(r) => h[r].op.user \in Users
    BY OpFacts DEF TypeOK, Critical, HandlerState
  <2>4. QED
    BY <1>2, <1>3, <2>1, <2>2, <2>3, NoneAssumption DEF LockDiscipline, Critical, TypeOK
<1>5. CASE ~ Critical(s)
  <2>1. lock' = lock
    BY <1>5 DEF Return
  <2>2. QED
    BY <1>2, <1>3, <1>5, <2>1 DEF LockDiscipline, Critical, TypeOK
<1>6. QED
  BY <1>4, <1>5

\* A step that leaves the locks alone and moves no handler into or out of its
\* critical section.
LEMMA SameLocks ==
  ASSUME TypeOK, LockDiscipline, UNCHANGED lock,
         \A r \in Slots : /\ Critical(r)' <=> Critical(r)
                          /\ Critical(r) => h'[r].op = h[r].op
  PROVE  LockDiscipline'
  BY DEF TypeOK, LockDiscipline

\* Every step, one case per action, keeps the lock discipline.
LEMMA StepLock == TypeOK /\ LockDiscipline /\ [Next]_vars => LockDiscipline'
<1> SUFFICES ASSUME TypeOK, LockDiscipline, [Next]_vars PROVE LockDiscipline'
  OBVIOUS
<1>1. ASSUME NEW s \in Slots, NEW o \in Ops, ArriveBypass(s, o) \/ ArriveEnforced(s, o)
      PROVE  LockDiscipline'
  <2>1. pc[s] = "idle" /\ UNCHANGED lock /\ pc'[s] \in {"lock", "forward"}
        /\ (pc'[s] = "forward" => h'[s].quota = None)
    BY <1>1, NoRequestType DEF ArriveBypass, ArriveEnforced, TypeOK, NoRequest
  <2>2. \A r \in Slots : r # s => pc'[r] = pc[r] /\ h'[r] = h[r]
    BY <1>1 DEF ArriveBypass, ArriveEnforced, TypeOK
  <2>3. QED
    BY <2>1, <2>2, SameLocks DEF Critical
<1>2. ASSUME NEW s \in Slots, Acquire(s)
      PROVE  LockDiscipline'
  <2>1. h[s].op \in Ops /\ h[s].op.user \in Users /\ lock[h[s].op.user] = None
    BY <1>2, OpFacts DEF Acquire, TypeOK, HandlerState
  <2>2. lock' = [lock EXCEPT ![h[s].op.user] = s] /\ pc' = [pc EXCEPT ![s] = "base"] /\ h' = h
    BY <1>2 DEF Acquire
  <2>3. ~ Critical(s) /\ Critical(s)' /\ \A r \in Slots : r # s => (Critical(r)' <=> Critical(r))
    BY <1>2, <2>2 DEF Acquire, Critical, TypeOK
  <2>4. \A r \in Slots : Critical(r) => h[r].op.user \in Users
    BY OpFacts DEF TypeOK, Critical, HandlerState
  <2>5. \A r \in Slots : Critical(r)' => lock'[h'[r].op.user] = r
    BY <2>1, <2>2, <2>3, <2>4, NoneAssumption DEF LockDiscipline, TypeOK
  <2>6. \A u \in Users : lock'[u] # None =>
                \E r \in Slots : r = lock'[u] /\ Critical(r)' /\ h'[r].op.user = u
    BY <2>1, <2>2, <2>3, NoneAssumption DEF LockDiscipline, TypeOK
  <2>7. QED
    BY <2>5, <2>6 DEF LockDiscipline, Critical
<1>3. ASSUME NEW s \in Slots, ReadBase(s)
      PROVE  LockDiscipline'
  <2>1. PICK cur : UseBase(s, cur)
    BY <1>3 DEF ReadBase
  <2>2. \A r \in Slots : h'[r].op = h[r].op /\ h'[r].quota = h[r].quota
    BY <2>1 DEF UseBase, TypeOK, HandlerState
  <2>3. pc[s] = "base" /\ h[s].quota # None /\ UNCHANGED lock
    BY <1>3 DEF ReadBase, TypeOK
  <2>4. pc'[s] \in {"members", "forward"} /\ \A r \in Slots : r # s => pc'[r] = pc[r]
    BY <2>1 DEF UseBase, TypeOK
  <2>5. QED
    BY <2>2, <2>3, <2>4, SameLocks DEF Critical
<1>4. ASSUME NEW s \in Slots, ReadMembers(s) \/ CheckAllows(s) \/ ErrAllows(s)
      PROVE  LockDiscipline'
  <2>1. \A r \in Slots : h'[r].op = h[r].op /\ h'[r].quota = h[r].quota
    BY <1>4 DEF ReadMembers, CheckAllows, ErrAllows, TypeOK, HandlerState
  <2>2. pc[s] \in {"base", "members", "sum"} /\ h[s].quota # None /\ UNCHANGED lock
    BY <1>4 DEF ReadMembers, CheckAllows, ErrAllows, ReadFails, TypeOK
  <2>3. pc'[s] \in {"sum", "forward"} /\ \A r \in Slots : r # s => pc'[r] = pc[r]
    BY <1>4 DEF ReadMembers, CheckAllows, ErrAllows, TypeOK
  <2>4. QED
    BY <2>1, <2>2, <2>3, SameLocks DEF Critical
<1>5. ASSUME NEW s \in Slots, NEW g \in Guests, ReadConfig(s, g)
      PROVE  LockDiscipline'
  <2>1. \A r \in Slots : h'[r].op = h[r].op /\ h'[r].quota = h[r].quota
    BY <1>5 DEF ReadConfig, TypeOK, HandlerState
  <2>2. QED
    BY <1>5, <2>1, SameLocks DEF ReadConfig, Critical
<1>6. ASSUME NEW s \in Slots, PveAccepts(s)
      PROVE  LockDiscipline'
  <2>1. pc[s] = "forward" /\ pc' = [pc EXCEPT ![s] = "answer"] /\ UNCHANGED lock
    BY <1>6 DEF PveAccepts, Slips
  <2>2. h' = h \/ \E t \in TaskIds : h' = [h EXCEPT ![s].tid = t]
    BY <1>6 DEF PveAccepts, Slips
  <2>3. \A r \in Slots : h'[r].op = h[r].op /\ h'[r].quota = h[r].quota
    BY <2>2 DEF TypeOK, HandlerState
  <2>4. QED
    BY <2>1, <2>3, SameLocks DEF Critical, TypeOK
<1>7. ASSUME NEW s \in Slots, PveRefuses(s) \/ ReplyOk(s)
      PROVE  LockDiscipline'
  <2>1. pc[s] \in {"forward", "answer"} /\ (Return(s) \/ StatusOk(s))
    BY <1>7 DEF PveRefuses, ReplyOk
  <2>2. CASE Return(s)
    BY <2>1, <2>2, ReturnLock
  <2>3. CASE StatusOk(s) /\ settle(h[s]) # "none"
    <3>1. pc' = [pc EXCEPT ![s] = "settle"] /\ UNCHANGED <<lock, h>>
      BY <2>3 DEF StatusOk
    <3>2. QED
      BY <2>1, <3>1, SameLocks DEF Critical, TypeOK
  <2>4. QED
    BY <2>1, <2>2, <2>3 DEF StatusOk
<1>8. ASSUME NEW s \in Slots,
             \/ ErrDenies(s) \/ CheckDenies(s)
             \/ ReplyLost(s) \/ Settled(s) \/ SettleTimeout(s)
      PROVE  LockDiscipline'
  BY <1>8, ReturnLock DEF ErrDenies, CheckDenies, ReplyLost, Settled, SettleTimeout
<1>9. ASSUME NEW t \in TaskIds, TaskLands(t) \/ TaskFails(t)
      PROVE  LockDiscipline'
  <2>1. \A r \in Slots : h'[r].op = h[r].op /\ h'[r].quota = h[r].quota
    BY <1>9 DEF TaskLands, TaskFails, Unlink, TypeOK, HandlerState
  <2>2. QED
    BY <1>9, <2>1, SameLocks DEF TaskLands, TaskFails, Critical
<1>10. CASE Crash
  BY <1>10 DEF Crash, LockDiscipline, Critical
<1>11. ASSUME UNCHANGED <<lock, pc, h>>
       PROVE  LockDiscipline'
  BY <1>11, SameLocks DEF Critical
<1>12. QED
  BY <1>1, <1>2, <1>3, <1>4, <1>5, <1>6, <1>7, <1>8, <1>9, <1>10, <1>11
     DEF Next, Arrive, ArriveRefused, Handler, Decide, Forward, Reply, Settle, Cluster,
         GuestDestroyed, GuestTouched, Reload, admVars, vars

\* The mutex of a user is held exactly while a request of that user is between
\* Lock and Unlock: on no path of the middleware is it leaked or shared.
THEOREM LocksHold == Spec => []LockDiscipline
<1>1. Init => LockDiscipline
  BY DEF Init, LockDiscipline, Critical
<1>2. QED
  BY <1>1, StepLock, TypeCorrect, PTL DEF Spec

-----------------------------------------------------------------------------
(* Serialization per pool.  The mutex is per user; what carries it over to *)
(* pools is that the record a request works with is the one the store has, *)
(* where it is not, the pool has slipped, and that Validate keeps pools    *)
(* unshared.                                                               *)

RecordCurrent ==
    \A s \in Slots : h[s].quota # None /\ h[s].quota.pool \notin slipped =>
                         h[s].quota = cfg[h[s].op.user]

\* Only a reload changes records, and it makes the pools of stale ones slip.
LEMMA StepRecord == TypeOK /\ RecordCurrent /\ [Next]_vars => RecordCurrent'
<1> SUFFICES ASSUME TypeOK, RecordCurrent, [Next]_vars PROVE RecordCurrent'
  OBVIOUS
<1>1. ASSUME slipped \subseteq slipped', UNCHANGED cfg,
             \A r \in Slots : \/ h'[r].quota = None
                              \/ h'[r].quota = cfg[h'[r].op.user]
                              \/ h'[r].op = h[r].op /\ h'[r].quota = h[r].quota
      PROVE  RecordCurrent'
  BY <1>1 DEF RecordCurrent
<1>2. ASSUME NEW s \in Slots, NEW o \in Ops, ArriveBypass(s, o) \/ ArriveEnforced(s, o)
      PROVE  RecordCurrent'
  <2>1. slipped' = slipped /\ UNCHANGED cfg
    BY <1>2 DEF ArriveBypass, ArriveEnforced
  <2>2. h'[s].quota = None \/ h'[s].quota = cfg[h'[s].op.user]
    <3>1. CASE ArriveBypass(s, o)
      BY <3>1 DEF ArriveBypass, NoRequest, TypeOK
    <3>2. CASE ArriveEnforced(s, o)
      BY <3>2 DEF ArriveEnforced, NoRequest, TypeOK
    <3>3. QED
      BY <1>2, <3>1, <3>2
  <2>3. \A r \in Slots : r # s => h'[r] = h[r]
    BY <1>2 DEF ArriveBypass, ArriveEnforced, TypeOK
  <2>4. QED
    BY <1>1, <2>1, <2>2, <2>3
<1>3. ASSUME NEW s \in Slots, Acquire(s) \/ ReadBase(s) \/ ReadMembers(s) \/ ErrAllows(s) \/ CheckAllows(s)
      PROVE  RecordCurrent'
  <2>1. \A r \in Slots : h'[r].op = h[r].op /\ h'[r].quota = h[r].quota
    <3>1. CASE ReadBase(s)
      BY <3>1 DEF ReadBase, UseBase, TypeOK, HandlerState
    <3>2. CASE ReadMembers(s)
      BY <3>2 DEF ReadMembers, TypeOK, HandlerState
    <3>3. CASE Acquire(s) \/ ErrAllows(s) \/ CheckAllows(s)
      BY <3>3 DEF Acquire, ErrAllows, CheckAllows
    <3>4. QED
      BY <1>3, <3>1, <3>2, <3>3
  <2>2. slipped \subseteq slipped' /\ UNCHANGED cfg
    BY <1>3 DEF Acquire, ReadBase, UseBase, ReadMembers, ErrAllows, CheckAllows, Slips
  <2>3. QED
    BY <1>1, <2>1, <2>2
<1>4. ASSUME NEW s \in Slots, NEW g \in Guests, ReadConfig(s, g)
      PROVE  RecordCurrent'
  <2>1. \A r \in Slots : h'[r].op = h[r].op /\ h'[r].quota = h[r].quota
    BY <1>4 DEF ReadConfig, TypeOK, HandlerState
  <2>2. slipped \subseteq slipped' /\ UNCHANGED cfg
    BY <1>4 DEF ReadConfig, Slips
  <2>3. QED
    BY <1>1, <2>1, <2>2
<1>5. ASSUME NEW s \in Slots, PveAccepts(s)
      PROVE  RecordCurrent'
  <2>1. h' = h \/ \E t \in TaskIds : h' = [h EXCEPT ![s].tid = t]
    BY <1>5 DEF PveAccepts, Slips
  <2>2. \A r \in Slots : h'[r].op = h[r].op /\ h'[r].quota = h[r].quota
    BY <2>1 DEF TypeOK, HandlerState
  <2>3. slipped \subseteq slipped' /\ UNCHANGED cfg
    BY <1>5 DEF PveAccepts, Slips
  <2>4. QED
    BY <1>1, <2>2, <2>3
<1>6. ASSUME NEW s \in Slots, Return(s), UNCHANGED cfg
      PROVE  RecordCurrent'
  <2>1. slipped \subseteq slipped' /\ \A r \in Slots : h'[r].quota = None \/ h'[r] = h[r]
    BY <1>6, NoRequestType DEF Return, Slips, TypeOK
  <2>2. QED
    BY <1>1, <1>6, <2>1
<1>7. ASSUME NEW s \in Slots,
             \/ ErrDenies(s) \/ CheckDenies(s) \/ PveRefuses(s) \/ ReplyOk(s)
             \/ ReplyLost(s) \/ Settled(s) \/ SettleTimeout(s)
      PROVE  RecordCurrent'
  <2>1. UNCHANGED cfg /\ (Return(s) \/ UNCHANGED <<h, slipped>>)
    BY <1>7 DEF ErrDenies, CheckDenies, PveRefuses, ReplyOk, StatusOk, ReplyLost, Settled, SettleTimeout
  <2>2. QED
    BY <1>1, <1>6, <2>1
<1>8. ASSUME NEW t \in TaskIds, TaskLands(t) \/ TaskFails(t)
      PROVE  RecordCurrent'
  <2>1. \A r \in Slots : h'[r].op = h[r].op /\ h'[r].quota = h[r].quota
    BY <1>8 DEF TaskLands, TaskFails, Unlink, TypeOK, HandlerState
  <2>2. QED
    BY <1>1, <1>8, <2>1 DEF TaskLands, TaskFails
<1>9. ASSUME NEW c \in Configs, Reload(c)
      PROVE  RecordCurrent'
  <2> SUFFICES ASSUME NEW s \in Slots, h'[s].quota # None, h'[s].quota.pool \notin slipped'
               PROVE  h'[s].quota = cfg'[h'[s].op.user]
    BY DEF RecordCurrent
  <2>1. h' = h /\ cfg' = c
    BY <1>9 DEF Reload
  <2>2. h[s].quota \in Records /\ h[s].quota.pool \in Pools
    BY <2>1, RecordFacts DEF TypeOK, HandlerState
  <2>3. h[s].quota = c[h[s].op.user]
    BY <1>9, <2>1, <2>2 DEF Reload, Slips
  <2>4. QED
    BY <2>1, <2>3
<1>10. CASE Crash
  BY <1>10, NoRequestType DEF Crash, RecordCurrent
<1>11. ASSUME UNCHANGED <<cfg, h, slipped>>
       PROVE  RecordCurrent'
  BY <1>11 DEF RecordCurrent
<1>12. QED
  BY <1>2, <1>3, <1>4, <1>5, <1>7, <1>8, <1>9, <1>10, <1>11
     DEF Next, Arrive, ArriveRefused, Handler, Decide, Forward, Reply, Settle, Cluster,
         GuestDestroyed, GuestTouched, admVars, vars

\* The record a request works with is the one the store has, unless the pool
\* has slipped.
THEOREM RecordsCurrent == Spec => []RecordCurrent
<1>init. Init => RecordCurrent
  BY NoRequestType DEF Init, RecordCurrent
<1> QED
  BY <1>init, StepRecord, TypeCorrect, PTL DEF Spec

\* Check, forward and settle are serial for every pool that has not slipped,
\* whatever quota files are loaded meanwhile.
THEOREM PoolsSerial == Spec => []PoolSerial
<1>serial. TypeOK /\ LockDiscipline /\ RecordCurrent => PoolSerial
  <2> SUFFICES ASSUME TypeOK, LockDiscipline, RecordCurrent, NEW s \in Slots, NEW t \in Slots,
                      Critical(s), Critical(t), h[s].quota.pool = h[t].quota.pool,
                      h[s].quota.pool \notin slipped
               PROVE  s = t
    BY DEF PoolSerial
  <2>1. h[s].quota # None /\ h[t].quota # None /\ h[s].op.user \in Users /\ h[t].op.user \in Users
    BY OpFacts DEF TypeOK, Critical, HandlerState
  <2>2. h[s].quota = cfg[h[s].op.user] /\ h[t].quota = cfg[h[t].op.user]
    BY <2>1 DEF RecordCurrent
  <2>3. h[s].op.user = h[t].op.user
    BY <2>1, <2>2, ConfigAssumption DEF TypeOK, Validate
  <2>4. QED
    BY <2>3 DEF LockDiscipline
<1> QED
  BY <1>serial, RecordsCurrent, TypeCorrect, LocksHold, PTL
=============================================================================
