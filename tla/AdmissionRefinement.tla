------------------------- MODULE AdmissionRefinement ------------------------
(***************************************************************************)
(* Admission implements QuotaGate: seen from a pool that has not slipped,  *)
(* the middleware, the usage engine and the cluster together grant what    *)
(* fits, apply at most what was granted, and otherwise only make room.     *)
(*                                                                         *)
(* The argument: check, forward and settle are serial per pool; therefore, *)
(* while a handler decides, no task can land in its pool (Owned), the      *)
(* guests it has read do not grow (Tallied) and neither does the guest its *)
(* delta is relative to (Priced); so the sum it compares covers the usage, *)
(* and the delta it compares covers the effect.                            *)
(***************************************************************************)
EXTENDS AdmissionProofs, ResourceProofs

\* The pool that a task adds to.
Landing(k) == IF k.mode \in {"set", "add"} THEN pool[k.g] ELSE k.pool

\* What slot s was granted pays for the effect of task k.
Covers(s, k) ==
    IF k.mode \in {"create", "restore"}
    THEN Leq(k.to, Pos(h[s].delta))
    ELSE Leq(Result(k), Plus(res[k.g], Pos(h[s].delta)))

\* A handler has an unfinished task only while it waits for it, works under a
\* record only on what is enforced, and adds nothing up before the sum.
StageOf(s) ==
    /\ h[s].tid # None => Pending(h[s].tid) /\ pc[s] \in {"answer", "settle"}
    /\ h[s].quota # None => h[s].op.act \in NewGuest \cup GuestMod \cup {"restore", "alloc"}
    /\ pc[s] \in {"lock", "base", "members"} => h[s].acc = Zero

Stage == \A s \in Slots : StageOf(s)

\* What the cluster keeps in order between accepting a task and ending it.
InOrder(t) ==
    /\ task[t].mode = "create" => ~ Exists(task[t].g)
    /\ task[t].mode \in {"set", "add", "pool"} => Exists(task[t].g)
    /\ task[t].mode \in {"create", "restore"} => task[t].pool \in Pools
    /\ task[t].mode = "restore" =>
          pool[task[t].g] \in {None, task[t].pool} \/ task[t].pool \in slipped
    /\ task[t].mode = "pool" => pool[task[t].g] \in slipped /\ task[t].pool \in slipped
    /\ ~ Exists(task[t].g) =>
          \A r \in TaskIds : Pending(r) /\ task[r].g = task[t].g => r = t
    /\ task[t].mode = "restore" =>
          \A r \in TaskIds :
              Pending(r) /\ task[r].g = task[t].g /\ task[r].mode = "restore" => r = t

TaskOrder == \A t \in TaskIds : Pending(t) => InOrder(t)

\* A task that will add to a pool that has not slipped belongs to a handler that
\* still works on that pool and was granted what the task needs.
Owner(s, t) ==
    /\ h[s].tid = t /\ h[s].quota # None
    /\ h[s].quota.pool = Landing(task[t])
    /\ Covers(s, task[t])

Owned == \A t \in TaskIds : Pending(t) /\ Landing(task[t]) \notin slipped =>
             \E s \in Slots : Owner(s, t)

\* The delta that decide computed still pays for the write when it is forwarded.
PricedFor(s) ==
    /\ pc[s] \in {"members", "sum", "forward"}
    /\ h[s].quota # None /\ h[s].quota.pool \notin slipped
    /\ \/ h[s].op.act \in {"create", "restore"}
       \/ h[s].op.act \in GuestMod /\ pool[h[s].op.g] = h[s].quota.pool
    => Covers(s, TaskOf(h[s].op))

Priced == \A s \in Slots : PricedFor(s)

\* The members that were read are in the sum with what they have now.
TalliedBy(s) ==
    pc[s] = "sum" /\ h[s].quota.pool \notin slipped =>
        Leq(Total(res, Members(h[s].quota.pool) \ h[s].todo), h[s].acc)

Tallied == \A s \in Slots : TalliedBy(s)

-----------------------------------------------------------------------------
(* What the steps do, field by field.                                      *)

\* No handler but s moves.
Only(s) == \A r \in Slots : r # s => h'[r] = h[r] /\ pc'[r] = pc[r]

\* The guests and the tasks stay as they are.
Quiet == UNCHANGED <<pool, res, task>> /\ slipped \subseteq slipped'

\* The fields of a handler's locals.
LEMMA SlotFacts ==
  ASSUME TypeOK, NEW s \in Slots
  PROVE  /\ h[s].op \in Ops \cup {None} /\ (pc[s] # "idle" => h[s].op \in Ops)
         /\ h[s].quota # None => h[s].quota \in Records /\ h[s].quota.pool \in Pools
         /\ h[s].delta \in Vec /\ h[s].acc \in Vec /\ h[s].todo \in SUBSET Guests
         /\ h[s].tid \in TaskIds \cup {None}
         /\ pc[s] \in {"lock", "base", "members", "sum", "settle"} => h[s].quota # None
         /\ pc[s] = "idle" => h[s].tid = None /\ h[s].quota = None
  BY RecordFacts DEF TypeOK, HandlerState

\* The fields of an unfinished task.
LEMMA TaskFacts ==
  ASSUME TypeOK, NEW t \in TaskIds, Pending(t)
  PROVE  /\ task[t] \in Task /\ task[t].g \in Guests /\ task[t].pool \in Pools \cup {None}
         /\ task[t].mode \in {"create", "restore", "set", "add", "pool"}
         /\ task[t].to \in Amounts
  BY DEF TypeOK, PveTypeOK, Pending, Task

\* A request arrives: its handler has no task and nothing added up yet, and a
\* request that bypasses the check carries no record.
LEMMA ArriveEffect ==
  ASSUME TypeOK, NEW s \in Slots, NEW o \in Ops, ArriveBypass(s, o) \/ ArriveEnforced(s, o)
  PROVE  /\ Only(s) /\ Quiet /\ UNCHANGED cfg /\ pc[s] = "idle"
         /\ h'[s].tid = None /\ h'[s].acc = Zero
         /\ pc'[s] \in {"lock", "forward"}
         /\ pc'[s] = "forward" => h'[s].quota = None
         /\ h'[s].quota # None => h'[s].op.act \in NewGuest \cup GuestMod \cup {"restore", "alloc"}
<1>1. Only(s) /\ Quiet /\ UNCHANGED cfg /\ pc[s] = "idle"
  BY DEF ArriveBypass, ArriveEnforced, TypeOK, Only, Quiet, pveVars
<1>2. CASE ArriveBypass(s, o)
  BY <1>1, <1>2 DEF ArriveBypass, TypeOK, NoRequest
<1>3. CASE ArriveEnforced(s, o)
  <2>1. pc'[s] = "lock" /\ h'[s].op = o /\ h'[s].tid = None /\ h'[s].acc = Zero
    BY <1>3 DEF ArriveEnforced, TypeOK, NoRequest
  <2>2. o.act \in NewGuest \cup GuestMod \cup {"restore", "alloc"}
    BY <1>3 DEF ArriveEnforced, Bypasses, Refused, enforceable
  <2> QED
    BY <1>1, <2>1, <2>2
<1> QED
  BY <1>2, <1>3

\* The lock is taken, or the decision is to forward: only the place changes.
LEMMA MoveEffect ==
  ASSUME TypeOK, NEW s \in Slots, Acquire(s) \/ ErrAllows(s) \/ CheckAllows(s)
  PROVE  /\ Only(s) /\ Quiet /\ UNCHANGED cfg /\ h' = h
         /\ \/ pc[s] = "lock" /\ pc'[s] = "base"
            \/ /\ pc[s] \in {"base", "members", "sum"} /\ pc'[s] = "forward"
               /\ CheckAllows(s) \/ h[s].quota.pool \in slipped'
<1>1. Only(s) /\ Quiet /\ UNCHANGED cfg /\ h' = h
  BY DEF Acquire, ErrAllows, CheckAllows, TypeOK, Only, Quiet, pveVars, Slips
<1>2. CASE Acquire(s)
  BY <1>1, <1>2 DEF Acquire, TypeOK
<1>3. CASE ErrAllows(s)
  BY <1>1, <1>3 DEF ErrAllows, ReadFails, Slips, TypeOK
<1>4. CASE CheckAllows(s)
  BY <1>1, <1>4 DEF CheckAllows, TypeOK
<1> QED
  BY <1>2, <1>3, <1>4

\* The base is read: the delta is computed, from a reading of it.
LEMMA BaseEffect ==
  ASSUME TypeOK, NEW s \in Slots, ReadBase(s)
  PROVE  /\ Only(s) /\ Quiet /\ UNCHANGED cfg /\ pc[s] = "base"
         /\ h'[s].op = h[s].op /\ h'[s].quota = h[s].quota /\ h'[s].tid = h[s].tid
         /\ h'[s].acc = h[s].acc
         /\ \E cur \in BaseReadings(h[s].op) :
              /\ h'[s].delta = DeltaOf(h[s].op, cur)
              /\ pc'[s] = IF positive(DeltaOf(h[s].op, cur)) THEN "members" ELSE "forward"
<1>1. PICK cur \in BaseReadings(h[s].op) : UseBase(s, cur)
  BY DEF ReadBase
<1>2. h[s] \in HandlerState
  BY DEF TypeOK
<1>3. Only(s) /\ Quiet /\ UNCHANGED cfg /\ pc[s] = "base"
  BY <1>1 DEF ReadBase, UseBase, TypeOK, Only, Quiet, pveVars, Slips
<1>4. /\ h'[s].op = h[s].op /\ h'[s].quota = h[s].quota /\ h'[s].tid = h[s].tid
      /\ h'[s].acc = h[s].acc /\ h'[s].delta = DeltaOf(h[s].op, cur)
  BY <1>1, <1>2 DEF UseBase, TypeOK, HandlerState
<1>5. pc'[s] = IF positive(DeltaOf(h[s].op, cur)) THEN "members" ELSE "forward"
  BY <1>1 DEF UseBase, TypeOK
<1> QED
  BY <1>3, <1>4, <1>5

\* The pool is listed: all its members are still to be read.
LEMMA MembersEffect ==
  ASSUME TypeOK, NEW s \in Slots, ReadMembers(s)
  PROVE  /\ Only(s) /\ Quiet /\ UNCHANGED cfg /\ pc[s] = "members" /\ pc'[s] = "sum"
         /\ h'[s].op = h[s].op /\ h'[s].quota = h[s].quota /\ h'[s].tid = h[s].tid
         /\ h'[s].delta = h[s].delta /\ h'[s].acc = h[s].acc
         /\ h'[s].todo = Members(h[s].quota.pool)
<1>1. h[s] \in HandlerState
  BY DEF TypeOK
<1>2. Only(s) /\ Quiet /\ UNCHANGED cfg /\ pc[s] = "members" /\ pc'[s] = "sum"
  BY DEF ReadMembers, TypeOK, Only, Quiet, pveVars
<1>3. /\ h'[s].op = h[s].op /\ h'[s].quota = h[s].quota /\ h'[s].tid = h[s].tid
      /\ h'[s].delta = h[s].delta /\ h'[s].acc = h[s].acc
      /\ h'[s].todo = Members(h[s].quota.pool)
  BY <1>1 DEF ReadMembers, TypeOK, HandlerState
<1> QED
  BY <1>2, <1>3

\* One member is read: it is in the sum with what it has, or the pool slips.
LEMMA ConfigEffect ==
  ASSUME TypeOK, NEW s \in Slots, NEW g \in Guests, ReadConfig(s, g)
  PROVE  /\ Only(s) /\ Quiet /\ UNCHANGED <<cfg, pc>> /\ pc[s] = "sum" /\ g \in h[s].todo
         /\ h'[s].op = h[s].op /\ h'[s].quota = h[s].quota /\ h'[s].tid = h[s].tid
         /\ h'[s].delta = h[s].delta /\ h'[s].todo = h[s].todo \ {g}
         /\ \/ h[s].quota.pool \in slipped'
            \/ h'[s].acc = Plus(h[s].acc, res[g])
<1>1. PICK v \in Readings(g) :
             /\ h' = [h EXCEPT ![s].todo = @ \ {g}, ![s].acc = Plus(@, v)]
             /\ Slips(IF v # res[g] THEN {h[s].quota.pool} ELSE {})
  BY DEF ReadConfig
<1>2. h[s] \in HandlerState
  BY DEF TypeOK
<1>3. Only(s) /\ Quiet /\ UNCHANGED <<cfg, pc>> /\ pc[s] = "sum" /\ g \in h[s].todo
  BY <1>1 DEF ReadConfig, TypeOK, Only, Quiet, pveVars, Slips
<1>4. /\ h'[s].op = h[s].op /\ h'[s].quota = h[s].quota /\ h'[s].tid = h[s].tid
      /\ h'[s].delta = h[s].delta /\ h'[s].todo = h[s].todo \ {g}
      /\ h'[s].acc = Plus(h[s].acc, v)
  BY <1>1, <1>2 DEF TypeOK, HandlerState
<1>5. v = res[g] \/ h[s].quota.pool \in slipped'
  BY <1>1 DEF Slips
<1> QED
  BY <1>3, <1>4, <1>5

\* A handler returns: a task of its own that has not ended makes its pool slip.
LEMMA ReturnEffect ==
  ASSUME TypeOK, NEW s \in Slots, Return(s), UNCHANGED <<pveVars, cfg>>
  PROVE  /\ Only(s) /\ Quiet /\ pc'[s] = "idle" /\ h'[s] = NoRequest
         /\ h'[s].quota = None /\ h'[s].tid = None
         /\ h[s].quota # None /\ h[s].tid # None => h[s].quota.pool \in slipped'
  BY NoRequestType DEF Return, TypeOK, Only, Quiet, pveVars, Slips

\* A step that answers a request either returns or waits for the effect.
LEMMA AnswerEffect ==
  ASSUME TypeOK, NEW s \in Slots,
         \/ ErrDenies(s) \/ CheckDenies(s) \/ PveRefuses(s) \/ ReplyOk(s)
         \/ ReplyLost(s) \/ Settled(s) \/ SettleTimeout(s)
  PROVE  /\ UNCHANGED <<pveVars, cfg>>
         /\ \/ Return(s)
            \/ /\ Only(s) /\ Quiet /\ h' = h
               /\ pc[s] \in {"forward", "answer"} /\ pc'[s] = "settle"
  BY DEF ErrDenies, CheckDenies, PveRefuses, ReplyOk, StatusOk, ReplyLost, Settled,
         SettleTimeout, TypeOK, Only, Quiet, pveVars

\* PVE accepts a write: it starts the task of that write, if it starts any.
LEMMA AcceptEffect ==
  ASSUME TypeOK, NEW s \in Slots, PveAccepts(s)
  PROVE  /\ Only(s) /\ UNCHANGED <<pool, res, cfg>> /\ pc[s] = "forward" /\ pc'[s] = "answer"
         /\ h'[s].op = h[s].op /\ h'[s].quota = h[s].quota /\ h'[s].delta = h[s].delta
         /\ h[s].op \in Ops /\ CanAccept(h[s].op)
         /\ slipped' = slipped \cup (Unchecked(h[s]) \cap Pools)
         /\ \/ h[s].op.act \in Unattached /\ UNCHANGED <<task, h>>
            \/ /\ h[s].op.act \notin Unattached
               /\ \E t \in TaskIds : /\ ~ Pending(t) /\ h'[s].tid = t
                                     /\ task' = [task EXCEPT ![t] = TaskOf(h[s].op)]
<1>1. h[s] \in HandlerState /\ h[s].op \in Ops
  BY DEF PveAccepts, TypeOK, HandlerState
<1>2. Only(s) /\ UNCHANGED <<pool, res, cfg>> /\ pc[s] = "forward" /\ pc'[s] = "answer"
  BY DEF PveAccepts, TypeOK, Only, Slips
<1>3. CASE h[s].op.act \in Unattached
  BY <1>1, <1>2, <1>3 DEF PveAccepts, Slips
<1>4. CASE h[s].op.act \notin Unattached
  <2>1. PICK t \in TaskIds : /\ ~ Pending(t) /\ task' = [task EXCEPT ![t] = TaskOf(h[s].op)]
                             /\ h' = [h EXCEPT ![s].tid = t]
    BY <1>4 DEF PveAccepts
  <2>2. /\ h'[s].op = h[s].op /\ h'[s].quota = h[s].quota /\ h'[s].delta = h[s].delta
        /\ h'[s].tid = t
    BY <1>1, <2>1 DEF TypeOK, HandlerState
  <2>3. CanAccept(h[s].op) /\ slipped' = slipped \cup (Unchecked(h[s]) \cap Pools)
    BY DEF PveAccepts, Slips
  <2> QED
    BY <1>1, <1>2, <1>4, <2>1, <2>2, <2>3
<1> QED
  BY <1>3, <1>4

\* A task ends: its handler, if it still waits, has no task any more.
LEMMA EndEffect ==
  ASSUME TypeOK, NEW t \in TaskIds, TaskLands(t) \/ TaskFails(t)
  PROVE  /\ UNCHANGED <<cfg, pc, slipped>> /\ Pending(t) /\ task[t] \in Task
         /\ task' = [task EXCEPT ![t] = None]
         /\ \A r \in Slots :
              /\ h'[r].op = h[r].op /\ h'[r].quota = h[r].quota /\ h'[r].delta = h[r].delta
              /\ h'[r].acc = h[r].acc /\ h'[r].todo = h[r].todo
              /\ h'[r].tid = IF h[r].tid = t THEN None ELSE h[r].tid
<1>1. /\ UNCHANGED <<cfg, pc, slipped>> /\ Pending(t)
      /\ task' = [task EXCEPT ![t] = None] /\ Unlink(t)
  BY DEF TaskLands, TaskFails, Land, Fail
<1>2. \A r \in Slots : h[r] \in HandlerState
  BY DEF TypeOK
<1>3. \A r \in Slots :
        /\ h'[r].op = h[r].op /\ h'[r].quota = h[r].quota /\ h'[r].delta = h[r].delta
        /\ h'[r].acc = h[r].acc /\ h'[r].todo = h[r].todo
        /\ h'[r].tid = IF h[r].tid = t THEN None ELSE h[r].tid
  BY <1>1, <1>2 DEF Unlink, HandlerState
<1> QED
  BY <1>1, <1>3, TaskFacts

\* The mode of the task of a write.
LEMMA ModeFacts ==
  ASSUME NEW o \in Ops
  PROVE  /\ TaskOf(o).g = o.g /\ TaskOf(o).pool = o.pool /\ TaskOf(o).keys = o.keys
         /\ o.act # "clone" => TaskOf(o).to = o.to
         /\ o.act = "clone" => TaskOf(o).to = res[o.src]
         /\ o.act \in NewGuest => TaskOf(o).mode = "create"
         /\ o.act = "restore" => TaskOf(o).mode = "restore"
         /\ o.act = "pool" => TaskOf(o).mode = "pool"
         /\ o.act \in {"resize", "move"} => TaskOf(o).mode = "add"
         /\ o.act \in {"config", "rollback", "unknown"} => TaskOf(o).mode = "set"
         /\ o.act \notin Unattached =>
              o.act \in NewGuest \cup {"restore", "pool", "resize", "move", "config", "rollback", "unknown"}
  BY OpFacts DEF TaskOf, NewGuest, Acts, GuestMod, Unattached

-----------------------------------------------------------------------------
(* The stages of a handler.                                                *)

\* Every step, one case per action, keeps every handler at its stage.
LEMMA StepStage == TypeOK /\ Stage /\ [Next]_vars => Stage'
<1> SUFFICES ASSUME TypeOK, Stage, [Next]_vars PROVE Stage'
  OBVIOUS
<1>still. ASSUME NEW r \in Slots, h'[r] = h[r], pc'[r] = pc[r],
                 h[r].tid # None => task'[h[r].tid] = task[h[r].tid]
          PROVE  StageOf(r)'
  BY <1>still DEF Stage, StageOf, Pending
<1>one. ASSUME NEW s \in Slots, Only(s), UNCHANGED task, StageOf(s)'
        PROVE  Stage'
  BY <1>one, <1>still DEF Only, Stage
<1>1. ASSUME NEW s \in Slots, NEW o \in Ops, ArriveBypass(s, o) \/ ArriveEnforced(s, o)
      PROVE  Stage'
  <2>1. StageOf(s)'
    BY <1>1, ArriveEffect DEF StageOf
  <2> QED
    BY <1>1, <1>one, <2>1, ArriveEffect DEF Quiet
<1>2. ASSUME NEW s \in Slots, Acquire(s) \/ ErrAllows(s) \/ CheckAllows(s)
      PROVE  Stage'
  <2>1. StageOf(s)'
    BY <1>2, MoveEffect DEF Stage, StageOf
  <2> QED
    BY <1>2, <1>one, <2>1, MoveEffect DEF Quiet
<1>3. ASSUME NEW s \in Slots, ReadBase(s)
      PROVE  Stage'
  <2>1. /\ Only(s) /\ Quiet /\ pc[s] = "base" /\ pc'[s] \in {"members", "forward"}
        /\ h'[s].op = h[s].op /\ h'[s].quota = h[s].quota /\ h'[s].tid = h[s].tid
        /\ h'[s].acc = h[s].acc
    BY <1>3, BaseEffect
  <2>2. StageOf(s)'
    BY <2>1 DEF Stage, StageOf
  <2> QED
    BY <1>one, <2>1, <2>2 DEF Quiet
<1>4. ASSUME NEW s \in Slots, ReadMembers(s)
      PROVE  Stage'
  <2>1. StageOf(s)'
    BY <1>4, MembersEffect DEF Stage, StageOf
  <2> QED
    BY <1>4, <1>one, <2>1, MembersEffect DEF Quiet
<1>5. ASSUME NEW s \in Slots, NEW g \in Guests, ReadConfig(s, g)
      PROVE  Stage'
  <2>1. StageOf(s)'
    BY <1>5, ConfigEffect DEF Stage, StageOf
  <2> QED
    BY <1>5, <1>one, <2>1, ConfigEffect DEF Quiet
<1>6. ASSUME NEW s \in Slots, PveAccepts(s)
      PROVE  Stage'
  <2>1. h[s].tid = None /\ pc'[s] = "answer" /\ Only(s)
        /\ h'[s].op = h[s].op /\ h'[s].quota = h[s].quota
    BY <1>6, AcceptEffect DEF Stage, StageOf
  <2>2. CASE UNCHANGED <<task, h>>
    BY <2>1, <2>2, <1>one DEF Stage, StageOf
  <2>3. ASSUME NEW t \in TaskIds, ~ Pending(t), h'[s].tid = t,
               task' = [task EXCEPT ![t] = TaskOf(h[s].op)]
        PROVE  Stage'
    <3>1. TaskOf(h[s].op) # None
      BY <1>6, AcceptEffect, TaskOfType, NoneAssumption DEF TypeOK
    <3>2. Pending(t)'
      BY <2>3, <3>1 DEF Pending, TypeOK, PveTypeOK
    <3>3. StageOf(s)'
      BY <2>1, <2>3, <3>2 DEF Stage, StageOf
    <3>4. \A r \in Slots : h[r].tid # None => task'[h[r].tid] = task[h[r].tid]
      BY <2>3, SlotFacts DEF Stage, StageOf, TypeOK, PveTypeOK
    <3> QED
      BY <2>1, <3>3, <3>4, <1>still DEF Only, Stage
  <2> QED
    BY <1>6, <2>2, <2>3, AcceptEffect
<1>7. ASSUME NEW s \in Slots, Return(s), UNCHANGED <<pveVars, cfg>>
      PROVE  Stage'
  <2>1. StageOf(s)'
    BY <1>7, ReturnEffect DEF StageOf
  <2> QED
    BY <1>7, <1>one, <2>1, ReturnEffect DEF Quiet
<1>8. ASSUME NEW s \in Slots,
             \/ ErrDenies(s) \/ CheckDenies(s) \/ PveRefuses(s) \/ ReplyOk(s)
             \/ ReplyLost(s) \/ Settled(s) \/ SettleTimeout(s)
      PROVE  Stage'
  <2>1. CASE Only(s) /\ Quiet /\ h' = h /\ pc'[s] = "settle"
    <3>1. StageOf(s)'
      BY <2>1 DEF Stage, StageOf, Quiet, Pending
    <3> QED
      BY <2>1, <3>1, <1>one DEF Quiet
  <2> QED
    BY <1>7, <1>8, <2>1, AnswerEffect
<1>9. ASSUME NEW t \in TaskIds, TaskLands(t) \/ TaskFails(t)
      PROVE  Stage'
  <2> SUFFICES ASSUME NEW r \in Slots PROVE StageOf(r)'
    BY DEF Stage
  <2>1. h'[r].tid # None => h'[r].tid = h[r].tid /\ h[r].tid # t /\ h[r].tid \in TaskIds
    BY <1>9, EndEffect, SlotFacts
  <2>2. h'[r].tid # None => task'[h'[r].tid] = task[h[r].tid]
    BY <1>9, <2>1, EndEffect DEF TypeOK, PveTypeOK
  <2>3. pc' = pc /\ h'[r].op = h[r].op /\ h'[r].quota = h[r].quota /\ h'[r].acc = h[r].acc
    BY <1>9, EndEffect
  <2> QED
    BY <2>1, <2>2, <2>3 DEF Stage, StageOf, Pending
<1>10. CASE Crash
  <2>1. \A r \in Slots : h'[r].tid = None /\ h'[r].quota = None /\ pc'[r] = "idle"
    BY <1>10, NoRequestType DEF Crash
  <2> QED
    BY <2>1 DEF Stage, StageOf
<1>11. ASSUME UNCHANGED <<task, pc, h>>
       PROVE  Stage'
  BY <1>11, <1>still DEF Stage
<1> QED
  BY <1>1, <1>2, <1>3, <1>4, <1>5, <1>6, <1>8, <1>9, <1>10, <1>11
     DEF Next, Arrive, ArriveRefused, Handler, Decide, Forward, Reply, Settle, Cluster,
         GuestDestroyed, GuestTouched, Destroy, Touch, Reload, admVars, vars, pveVars

-----------------------------------------------------------------------------
(* The other invariants see most steps alike: the guests and tasks stay,   *)
(* and a handler keeps its locals or drops them.                           *)

\* Handler r drops its locals, its task having ended or the pool slipping, or
\* keeps them and moves on.
Carries(r) ==
    \/ /\ h'[r].tid = None /\ pc'[r] \in {"idle", "lock", "forward"}
       /\ pc'[r] = "forward" => h'[r].quota = None
       /\ h[r].tid # None /\ h[r].quota # None => h[r].quota.pool \in slipped'
    \/ /\ h'[r] = h[r]
       /\ \/ pc'[r] \in {pc[r], "base", "settle"}
          \/ CheckAllows(r) /\ pc[r] = "sum" /\ pc'[r] = "forward"
          \/ h[r].quota.pool \in slipped'

\* A step at which nothing happens to guests and tasks.
Routine == Quiet /\ \A r \in Slots : Carries(r)

\* Every step is routine, or reads, or starts or ends a task, or takes a guest
\* away.
LEMMA StepKinds ==
  ASSUME TypeOK, [Next]_vars
  PROVE  \/ \E s \in Slots : ReadBase(s) \/ ReadMembers(s) \/ PveAccepts(s)
         \/ \E s \in Slots, g \in Guests : ReadConfig(s, g)
         \/ \E t \in TaskIds : TaskLands(t) \/ TaskFails(t)
         \/ \E g \in Guests : GuestDestroyed(g)
         \/ Routine
<1>one. ASSUME NEW s \in Slots, Only(s), Quiet, Carries(s)
        PROVE  Routine
  BY <1>one DEF Only, Carries, Routine
<1>1. ASSUME NEW s \in Slots, NEW o \in Ops, ArriveBypass(s, o) \/ ArriveEnforced(s, o)
      PROVE  Routine
  <2>1. Carries(s)
    BY <1>1, ArriveEffect, SlotFacts DEF Carries
  <2> QED
    BY <1>1, <1>one, <2>1, ArriveEffect
<1>2. ASSUME NEW s \in Slots, Acquire(s) \/ ErrAllows(s) \/ CheckAllows(s)
      PROVE  Routine
  <2>1. Carries(s)
    BY <1>2, MoveEffect DEF Carries, CheckAllows
  <2> QED
    BY <1>2, <1>one, <2>1, MoveEffect
<1>3. ASSUME NEW s \in Slots, Return(s), UNCHANGED <<pveVars, cfg>>
      PROVE  Routine
  <2>1. Carries(s)
    BY <1>3, ReturnEffect DEF Carries
  <2> QED
    BY <1>3, <1>one, <2>1, ReturnEffect
<1>4. ASSUME NEW s \in Slots,
             \/ ErrDenies(s) \/ CheckDenies(s) \/ PveRefuses(s) \/ ReplyOk(s)
             \/ ReplyLost(s) \/ Settled(s) \/ SettleTimeout(s)
      PROVE  Routine
  <2>1. CASE Only(s) /\ Quiet /\ h' = h /\ pc'[s] = "settle"
    BY <2>1, <1>one DEF Carries
  <2> QED
    BY <1>3, <1>4, <2>1, AnswerEffect
<1>5. CASE Crash
  <2>1. Quiet
    BY <1>5 DEF Crash, Quiet, Slips, pveVars
  <2>2. \A r \in Slots : h'[r].tid = None /\ pc'[r] = "idle"
    BY <1>5, NoRequestType DEF Crash
  <2>3. \A r \in Slots : h[r].tid # None /\ h[r].quota # None => h[r].quota.pool \in slipped'
    BY <1>5, SlotFacts DEF Crash, Slips
  <2> QED
    BY <2>1, <2>2, <2>3 DEF Routine, Carries
<1>6. ASSUME UNCHANGED <<pool, res, task, pc, h>>, slipped \subseteq slipped'
      PROVE  Routine
  BY <1>6 DEF Routine, Carries, Quiet
<1>7. ASSUME NEW c \in Configs, Reload(c)
      PROVE  Routine
  BY <1>6, <1>7 DEF Reload, Slips, pveVars
<1> QED
  BY <1>1, <1>2, <1>4, <1>5, <1>6, <1>7
     DEF Next, Arrive, ArriveRefused, Handler, Decide, Forward, Reply, Settle, Cluster,
         GuestTouched, Touch, admVars, vars

-----------------------------------------------------------------------------
(* The order of tasks.                                                     *)

\* What PVE checks before it accepts a write.
LEMMA AcceptFacts ==
  ASSUME NEW o \in Ops, CanAccept(o)
  PROVE  /\ o.act \in NewGuest \cup {"restore"} => ~ Reserved(o.g) /\ o.pool \in Acl[o.user]
         /\ o.act \in NewGuest => ~ Exists(o.g)
         /\ o.act = "restore" => pool[o.g] \in {None, o.pool}
         /\ o.act \in GuestMod \cup {"unknown", "pool"} => Exists(o.g) /\ pool[o.g] \in Acl[o.user]
         /\ o.act = "pool" => o.pool \in Acl[o.user]
<1>1. CASE o.act \in NewGuest
  BY <1>1 DEF CanAccept, NewGuest, GuestMod
<1>2. CASE o.act = "restore"
  BY <1>2 DEF CanAccept, NewGuest, GuestMod
<1>3. CASE o.act = "pool"
  BY <1>3 DEF CanAccept, NewGuest, GuestMod
<1>4. CASE o.act \in GuestMod \cup {"unknown"}
  BY <1>4 DEF CanAccept, NewGuest, GuestMod
<1> QED
  BY <1>1, <1>2, <1>3, <1>4

\* A task stays in order while its guest stays in its pool and no other task
\* comes in that it excludes.
LEMMA StaysInOrder ==
  ASSUME NEW t \in TaskIds, InOrder(t), task'[t] = task[t], slipped \subseteq slipped',
         pool'[task[t].g] = pool[task[t].g],
         \A r \in TaskIds : Pending(r)' /\ task'[r].g = task[t].g =>
            \/ Pending(r) /\ task'[r] = task[r]
            \/ Exists(task[t].g) /\ task'[r].mode # "restore"
  PROVE  InOrder(t)'
<1>1. /\ task'[t].mode = "create" => ~ Exists(task[t].g)'
      /\ task'[t].mode \in {"set", "add", "pool"} => Exists(task[t].g)'
      /\ task'[t].mode \in {"create", "restore"} => task'[t].pool \in Pools
  BY DEF InOrder, Exists
<1>2. /\ task'[t].mode = "restore" =>
           pool'[task'[t].g] \in {None, task'[t].pool} \/ task'[t].pool \in slipped'
      /\ task'[t].mode = "pool" => pool'[task'[t].g] \in slipped' /\ task'[t].pool \in slipped'
  BY DEF InOrder
<1>3. ~ Exists(task[t].g)' =>
        \A r \in TaskIds : Pending(r)' /\ task'[r].g = task'[t].g => r = t
  BY DEF InOrder, Exists
<1>4. task'[t].mode = "restore" =>
        \A r \in TaskIds : Pending(r)' /\ task'[r].g = task'[t].g /\ task'[r].mode = "restore" => r = t
  BY DEF InOrder
<1> QED
  BY <1>1, <1>2, <1>3, <1>4 DEF InOrder, Exists

\* Every step keeps the tasks in order.
LEMMA StepTaskOrder == TypeOK /\ Stage /\ TaskOrder /\ [Next]_vars => TaskOrder'
<1> SUFFICES ASSUME TypeOK, Stage, TaskOrder, [Next]_vars PROVE TaskOrder'
  OBVIOUS
<1>quiet. ASSUME Quiet PROVE TaskOrder'
  BY <1>quiet DEF Quiet, TaskOrder, InOrder, Pending, Exists
<1>1. ASSUME NEW g \in Guests, GuestDestroyed(g)
      PROVE  TaskOrder'
  <2>1. /\ UNCHANGED <<task, slipped>> /\ ~ Reserved(g)
        /\ \A x \in Guests : x # g => pool'[x] = pool[x]
    BY <1>1 DEF GuestDestroyed, Destroy, admVars, TypeOK, PveTypeOK
  <2>2. \A t \in TaskIds : Pending(t) => task[t].g # g /\ task[t].g \in Guests
    BY <2>1, TaskFacts DEF Reserved
  <2> QED
    BY <2>1, <2>2 DEF TaskOrder, InOrder, Pending, Exists
<1>2. ASSUME NEW t \in TaskIds, TaskFails(t)
      PROVE  TaskOrder'
  <2>1. UNCHANGED <<pool, slipped>> /\ task' = [task EXCEPT ![t] = None]
    BY <1>2, EndEffect DEF TaskFails, Fail
  <2>2. \A r \in TaskIds : Pending(r)' => Pending(r) /\ task'[r] = task[r]
    BY <2>1 DEF Pending, TypeOK, PveTypeOK
  <2> QED
    BY <2>1, <2>2, StaysInOrder DEF TaskOrder
<1>3. ASSUME NEW t \in TaskIds, TaskLands(t)
      PROVE  TaskOrder'
  <2> DEFINE k == task[t]
  <2>1. /\ UNCHANGED slipped /\ Pending(t) /\ task' = [task EXCEPT ![t] = None]
        /\ pool' = IF k.mode \in {"create", "restore", "pool"}
                   THEN [pool EXCEPT ![k.g] = k.pool] ELSE pool
    BY <1>3, EndEffect DEF TaskLands, Land
  <2>2. /\ k.g \in Guests /\ k.mode \in {"create", "restore", "set", "add", "pool"}
        /\ \A x \in Guests : x # k.g => pool'[x] = pool[x]
        /\ k.mode \in {"create", "restore", "pool"} => pool'[k.g] = k.pool
        /\ k.mode \in {"set", "add"} => pool'[k.g] = pool[k.g]
    BY <2>1, TaskFacts DEF TypeOK, PveTypeOK
  <2>3. \A r \in TaskIds : Pending(r)' => r # t /\ Pending(r) /\ task'[r] = task[r] /\ task[r].g \in Guests
    BY <2>1, TaskFacts DEF Pending, TypeOK, PveTypeOK
  <2>4. ASSUME NEW r \in TaskIds, Pending(r), r # t, task[r].g = k.g
        PROVE  /\ Exists(k.g) /\ pool'[k.g] # None
               /\ task[r].mode = "restore" =>
                     pool'[k.g] = task[r].pool \/ task[r].pool \in slipped
               /\ task[r].mode = "pool" => pool'[k.g] \in slipped
               /\ task[r].mode # "create"
    <3>1. Exists(k.g)
      BY <2>1, <2>4 DEF TaskOrder, InOrder
    <3>2. k.mode # "create" /\ task[r].mode # "create"
      BY <2>1, <2>4, <3>1 DEF TaskOrder, InOrder
    <3>3. None \notin slipped /\ None \notin Pools
      BY NoneAssumption DEF TypeOK
    <3>4. CASE k.mode \in {"set", "add"}
      BY <2>2, <2>4, <3>1, <3>2, <3>4 DEF TaskOrder, InOrder, Exists
    <3>5. CASE k.mode = "restore"
      <4>1. k.pool \in Pools /\ (pool[k.g] = k.pool \/ k.pool \in slipped)
        BY <2>1, <3>1, <3>5 DEF TaskOrder, InOrder, Exists
      <4>2. task[r].mode # "restore" /\ (task[r].mode = "pool" => pool[k.g] \in slipped)
        BY <2>1, <2>4, <3>5 DEF TaskOrder, InOrder
      <4> QED
        BY <2>2, <3>1, <3>2, <3>3, <3>5, <4>1, <4>2
    <3>6. CASE k.mode = "pool"
      <4>1. k.pool \in slipped /\ pool[k.g] \in slipped
        BY <2>1, <3>6 DEF TaskOrder, InOrder
      <4>2. task[r].mode = "restore" => pool[k.g] = task[r].pool \/ task[r].pool \in slipped
        BY <2>4, <3>1 DEF TaskOrder, InOrder, Exists
      <4> QED
        BY <2>2, <3>1, <3>2, <3>3, <3>6, <4>1, <4>2
    <3> QED
      BY <2>2, <3>2, <3>4, <3>5, <3>6
  <2> HIDE DEF k
  <2> SUFFICES ASSUME NEW r \in TaskIds, Pending(r)' PROVE InOrder(r)'
    BY DEF TaskOrder
  <2>5. r # t /\ Pending(r) /\ task'[r] = task[r] /\ task[r].g \in Guests
    BY <2>3
  <2>6. CASE task[r].g # k.g
    <3>1. pool'[task[r].g] = pool[task[r].g]
      BY <2>2, <2>5, <2>6
    <3>2. InOrder(r)
      BY <2>5 DEF TaskOrder
    <3> QED
      BY <2>1, <2>3, <2>5, <3>1, <3>2, StaysInOrder
  <2>7. CASE task[r].g = k.g
    <3>1. /\ Exists(k.g) /\ pool'[k.g] # None
          /\ task[r].mode = "restore" => pool'[k.g] = task[r].pool \/ task[r].pool \in slipped
          /\ task[r].mode = "pool" => pool'[k.g] \in slipped
          /\ task[r].mode # "create"
      BY <2>4, <2>5, <2>7
    <3>2. InOrder(r)
      BY <2>5 DEF TaskOrder
    <3>3. /\ task'[r].mode = "create" => ~ Exists(task[r].g)'
          /\ Exists(task[r].g)'
          /\ task'[r].mode \in {"create", "restore"} => task'[r].pool \in Pools
      BY <2>5, <2>7, <3>1, <3>2 DEF InOrder, Exists
    <3>4. /\ task'[r].mode = "restore" =>
               pool'[task'[r].g] \in {None, task'[r].pool} \/ task'[r].pool \in slipped'
          /\ task'[r].mode = "pool" => pool'[task'[r].g] \in slipped' /\ task'[r].pool \in slipped'
      BY <2>1, <2>5, <2>7, <3>1, <3>2 DEF InOrder
    <3>5. task'[r].mode = "restore" =>
            \A q \in TaskIds : Pending(q)' /\ task'[q].g = task'[r].g /\ task'[q].mode = "restore" => q = r
      BY <2>3, <2>5, <3>2 DEF InOrder
    <3> QED
      BY <3>3, <3>4, <3>5 DEF InOrder, Exists
  <2> QED
    BY <2>6, <2>7
<1>4. ASSUME NEW s \in Slots, PveAccepts(s)
      PROVE  TaskOrder'
  <2> DEFINE o == h[s].op
  <2>1. o \in Ops /\ CanAccept(o) /\ pool' = pool /\ slipped \subseteq slipped'
        /\ slipped' = slipped \cup (Unchecked(h[s]) \cap Pools)
    BY <1>4, AcceptEffect
  <2>2. ASSUME NEW t \in TaskIds, ~ Pending(t), task' = [task EXCEPT ![t] = TaskOf(o)],
               o.act \notin Unattached
        PROVE  TaskOrder'
    <3> DEFINE k == TaskOf(o)
    <3>1. task'[t] = k /\ \A r \in TaskIds : r # t => task'[r] = task[r] /\ (Pending(r)' <=> Pending(r))
      BY <2>2 DEF TypeOK, PveTypeOK, Pending
    <3>2. k.g = o.g /\ k.pool = o.pool /\ o.g \in Guests
      BY <2>1, ModeFacts, OpFacts
    <3>3. Acl[o.user] \subseteq Pools /\ None \notin Pools
      BY <2>1, OpFacts, WorldAssumption, NoneAssumption
    <3>4. k.mode \in {"create", "restore"} => ~ Reserved(o.g) /\ o.pool \in Pools
      BY <2>1, <2>2, <3>3, ModeFacts, AcceptFacts
    <3>5. k.mode = "create" => ~ Exists(o.g)
      BY <2>1, <2>2, ModeFacts, AcceptFacts
    <3>6. k.mode = "restore" => pool[o.g] \in {None, o.pool}
      BY <2>1, <2>2, ModeFacts, AcceptFacts
    <3>7. k.mode \in {"set", "add", "pool"} => Exists(o.g)
      BY <2>1, <2>2, ModeFacts, AcceptFacts DEF GuestMod
    <3>8. k.mode = "pool" => pool[o.g] \in slipped' /\ o.pool \in slipped'
      <4>1. CASE o.act = "pool"
        <5>1. {pool[o.g], o.pool} \subseteq Acl[o.user]
          BY <2>1, <4>1, AcceptFacts
        <5>2. h[s].quota = None
          BY <4>1 DEF Stage, StageOf, NewGuest, GuestMod
        <5>3. Unchecked(h[s]) = {pool[o.g], o.pool}
          BY <4>1, <5>2 DEF Unchecked, Targets, NewGuest, Unattached
        <5> QED
          BY <2>1, <3>3, <5>1, <5>3
      <4> QED
        BY <2>1, <2>2, <4>1, ModeFacts
    <3>9. InOrder(t)'
      <4> HIDE DEF k, o
      <4>1. ~ Exists(k.g) => k.mode \in {"create", "restore"}
        BY <3>2, <3>7, <2>1, <1>4, TaskOfType DEF TypeOK, Task, k
      <4>2. \A r \in TaskIds : Pending(r)' /\ r # t => Pending(r) /\ task'[r] = task[r]
        BY <3>1
      <4>3. k.mode \in {"create", "restore"} =>
              \A r \in TaskIds : Pending(r)' /\ task'[r].g = k.g => r = t
        BY <3>2, <3>4, <4>2 DEF Reserved
      <4>4. /\ task'[t].mode = "create" => ~ Exists(task[t].g)'
            /\ task'[t].mode \in {"set", "add", "pool"} => Exists(task[t].g)'
            /\ task'[t].mode \in {"create", "restore"} => task'[t].pool \in Pools
        BY <2>1, <3>1, <3>2, <3>4, <3>5, <3>7 DEF Exists
      <4>5. /\ task'[t].mode = "restore" => pool'[task'[t].g] \in {None, task'[t].pool}
            /\ task'[t].mode = "pool" => pool'[task'[t].g] \in slipped' /\ task'[t].pool \in slipped'
        BY <2>1, <3>1, <3>2, <3>6, <3>8
      <4>6. ~ Exists(task[t].g)' =>
              \A r \in TaskIds : Pending(r)' /\ task'[r].g = task'[t].g => r = t
        BY <2>1, <3>1, <4>1, <4>3 DEF Exists
      <4> QED
        BY <3>1, <4>3, <4>4, <4>5, <4>6 DEF InOrder, Exists
    <3>10. ASSUME NEW r \in TaskIds, r # t, Pending(r)
           PROVE  InOrder(r)'
      <4> HIDE DEF k, o
      <4>1. InOrder(r) /\ task'[r] = task[r]
        BY <3>1, <3>10 DEF TaskOrder
      <4>2. k.g = task[r].g => Exists(k.g) /\ k.mode # "restore"
        <5> SUFFICES ASSUME k.g = task[r].g PROVE Exists(k.g) /\ k.mode # "restore"
          OBVIOUS
        <5>1. Reserved(o.g)
          BY <3>2, <3>10 DEF Reserved
        <5>2. k.mode \in {"create", "restore", "set", "add", "pool"}
          BY <2>1, TaskOfType DEF TypeOK, Task, k
        <5> QED
          BY <3>2, <3>4, <3>7, <5>1, <5>2
      <4> QED
        BY <2>1, <3>1, <4>1, <4>2, StaysInOrder
    <3> QED
      BY <3>1, <3>9, <3>10 DEF TaskOrder
  <2>3. CASE UNCHANGED task
    BY <2>1, <2>3, AcceptEffect DEF TaskOrder, InOrder, Pending, Exists
  <2> QED
    BY <1>4, <2>2, <2>3, AcceptEffect
<1> QED
  BY <1>quiet, <1>1, <1>2, <1>3, <1>4, StepKinds, BaseEffect, MembersEffect, ConfigEffect DEF Routine

-----------------------------------------------------------------------------
(* What a write adds is what it was priced at.                             *)

\* The delta that decide computes pays for the write, as the guest is now.
LEMMA DeltaPays ==
  ASSUME TypeOK, NEW o \in Ops, NEW d,
         \/ o.act \in {"create", "restore"} /\ d = DeltaOf(o, Zero)
         \/ o.act \in GuestMod /\ d = DeltaOf(o, res[o.g])
  PROVE  IF o.act \in {"create", "restore"} THEN Leq(o.to, Pos(d))
         ELSE Leq(Result(TaskOf(o)), Plus(res[o.g], Pos(d)))
<1>1. o.to \in Vec /\ o.g \in Guests /\ res[o.g] \in Vec
  BY OpFacts, AmountFacts DEF TypeOK, PveTypeOK
<1>2. CASE o.act \in {"create", "restore"}
  <2>1. d = o.to
    BY <1>2 DEF DeltaOf, GuestMod
  <2> QED
    BY <1>1, <1>2, <2>1 DEF Leq, Pos, Vec
<1>3. CASE o.act = "config"
  <2>1. d = [k \in Dims |-> IF k \in o.keys THEN o.to[k] - res[o.g][k] ELSE 0]
    BY <1>3 DEF DeltaOf
  <2>2. Result(TaskOf(o)) = Override(res[o.g], o.keys, o.to)
    BY <1>3, ModeFacts DEF Result
  <2> QED
    BY <1>1, <1>3, <2>1, <2>2 DEF Leq, Pos, Plus, Override, Vec
<1>4. CASE o.act = "rollback"
  <2>1. d = IncreaseDelta(Override(res[o.g], o.keys, o.to), res[o.g])
    BY <1>4 DEF DeltaOf
  <2>2. Result(TaskOf(o)) = Override(res[o.g], o.keys, o.to)
    BY <1>4, ModeFacts DEF Result
  <2> QED
    BY <1>1, <1>4, <2>1, <2>2 DEF Leq, Pos, Plus, Override, IncreaseDelta, Vec
<1>5. CASE o.act \in {"resize", "move"}
  <2>1. d = Override(Zero, o.keys, o.to)
    BY <1>5 DEF DeltaOf, GuestMod
  <2>2. Result(TaskOf(o)) = Plus(res[o.g], Override(Zero, o.keys, o.to))
    BY <1>5, ModeFacts DEF Result
  <2> QED
    BY <1>1, <1>5, <2>1, <2>2 DEF Leq, Pos, Plus, Override, Zero, Vec
<1> QED
  BY <1>2, <1>3, <1>4, <1>5 DEF GuestMod

\* A task is paid for as long as its guest, the task and the grant stay.
LEMMA CoversStays ==
  ASSUME NEW s \in Slots, NEW t \in TaskIds, Covers(s, task[t]),
         task'[t] = task[t], h'[s].delta = h[s].delta,
         task[t].mode \in {"create", "restore"} \/ res'[task[t].g] = res[task[t].g]
  PROVE  Covers(s, task[t])'
  BY DEF Covers, Result

\* A delta pays for a write as long as the guest it is relative to stays.
LEMMA PriceStays ==
  ASSUME TypeOK, NEW s \in Slots, h[s].op \in Ops,
         h[s].op.act \in {"create", "restore"} \cup GuestMod,
         Covers(s, TaskOf(h[s].op)), h'[s].op = h[s].op, h'[s].delta = h[s].delta,
         h[s].op.act \in {"create", "restore"} \/ res'[h[s].op.g] = res[h[s].op.g]
  PROVE  Covers(s, TaskOf(h[s].op))'
<1> DEFINE o == h[s].op
<1>1. o.act # "clone"
  BY DEF GuestMod
<1>2. CASE o.act \in {"create", "restore"}
  BY <1>2 DEF Covers, TaskOf, NewGuest
<1>3. CASE o.act \in GuestMod
  BY <1>3 DEF Covers, TaskOf, NewGuest, GuestMod, Result
<1> QED
  BY <1>2, <1>3

-----------------------------------------------------------------------------
(* Tasks and their owners.                                                 *)

\* While a handler works on a pool that has not slipped, the only task that
\* can land in it is the handler's own, and it is paid for.
LEMMA OnlyOwner ==
  ASSUME TypeOK, PoolSerial, Stage, Owned, NEW s \in Slots, Critical(s), h[s].quota # None,
         h[s].quota.pool \notin slipped,
         NEW t \in TaskIds, Pending(t), Landing(task[t]) = h[s].quota.pool
  PROVE  h[s].tid = t /\ Covers(s, task[t])
<1>1. PICK r \in Slots : /\ h[r].tid = t /\ h[r].quota # None
                         /\ h[r].quota.pool = Landing(task[t]) /\ Covers(r, task[t])
  BY DEF Owned, Owner
<1>2. Critical(r)
  BY <1>1, NoneAssumption DEF Stage, StageOf, Critical
<1> QED
  BY <1>1, <1>2 DEF PoolSerial

\* Pool p gets no guest and no guest of it changes.
Shrinks(p) == \A g \in Guests : pool'[g] = p => pool[g] = p /\ res'[g] = res[g]

\* A task that lands somewhere else adds nothing to p.
LEMMA LandsElsewhere ==
  ASSUME TypeOK, NEW t \in TaskIds, TaskLands(t), NEW p \in Pools, Landing(task[t]) # p
  PROVE  Shrinks(p)
<1> DEFINE k == task[t]
<1>1. /\ Pending(t) /\ res' = [res EXCEPT ![k.g] = Result(k)]
      /\ pool' = IF k.mode \in {"create", "restore", "pool"}
                 THEN [pool EXCEPT ![k.g] = k.pool] ELSE pool
  BY DEF TaskLands, Land
<1>2. k.g \in Guests /\ k.mode \in {"create", "restore", "set", "add", "pool"}
  BY <1>1, TaskFacts
<1>3. \A g \in Guests : g # k.g => pool'[g] = pool[g] /\ res'[g] = res[g]
  BY <1>1 DEF TypeOK, PveTypeOK
<1>4. pool'[k.g] = Landing(k)
  BY <1>1, <1>2 DEF Landing, TypeOK, PveTypeOK
<1> QED
  BY <1>3, <1>4 DEF Shrinks

\* A guest that goes adds nothing to any pool.
LEMMA DestroyShrinks ==
  ASSUME TypeOK, NEW g \in Guests, GuestDestroyed(g), NEW p \in Pools
  PROVE  Shrinks(p)
  BY NoneAssumption DEF GuestDestroyed, Destroy, Shrinks, TypeOK, PveTypeOK

\* A task keeps its owner while its guest and the owner's locals stay.
LEMMA OwnerStays ==
  ASSUME NEW s \in Slots, NEW t \in TaskIds, Owner(s, t), task'[t] = task[t],
         h'[s].tid = h[s].tid, h'[s].quota = h[s].quota, h'[s].delta = h[s].delta,
         \/ task[t].mode \in {"create", "restore"}
         \/ pool'[task[t].g] = pool[task[t].g] /\ res'[task[t].g] = res[task[t].g]
  PROVE  Owner(s, t)'
<1>1. Covers(s, task[t])'
  BY CoversStays DEF Owner
<1>2. Landing(task[t])' = Landing(task[t])
  BY DEF Landing
<1> QED
  BY <1>1, <1>2 DEF Owner

\* Every step leaves the tasks that land in a pool with their owners: a task is
\* accepted only against a grant that pays for it, or the pool slips, and a
\* handler does not return before its task unless the pool slips.
LEMMA StepOwned ==
  TypeOK /\ PoolSerial /\ Stage /\ TaskOrder /\ Owned /\ Priced /\ [Next]_vars => Owned'
<1> SUFFICES ASSUME TypeOK, PoolSerial, Stage, TaskOrder, Owned, Priced, [Next]_vars
             PROVE  Owned'
  OBVIOUS
<1>quiet. ASSUME Quiet,
                 \A r \in Slots : h[r].tid # None /\ h[r].quota # None =>
                     \/ h[r].quota.pool \in slipped'
                     \/ /\ h'[r].tid = h[r].tid /\ h'[r].quota = h[r].quota
                        /\ h'[r].delta = h[r].delta
          PROVE  Owned'
  <2> SUFFICES ASSUME NEW t \in TaskIds, Pending(t)', Landing(task[t])' \notin slipped'
               PROVE  \E s \in Slots : Owner(s, t)'
    BY DEF Owned
  <2>1. /\ UNCHANGED <<pool, res, task>> /\ slipped \subseteq slipped' /\ Pending(t)
        /\ Landing(task[t])' = Landing(task[t])
    BY <1>quiet DEF Quiet, Landing, Pending
  <2>2. PICK s \in Slots : Owner(s, t)
    BY <2>1 DEF Owned
  <2>3. h'[s].tid = h[s].tid /\ h'[s].quota = h[s].quota /\ h'[s].delta = h[s].delta
    BY <1>quiet, <2>1, <2>2, NoneAssumption DEF Owner
  <2> QED
    BY <2>1, <2>2, <2>3, OwnerStays
<1>1. CASE Routine
  <2>1. \A r \in Slots : h[r].tid # None /\ h[r].quota # None =>
                     \/ h[r].quota.pool \in slipped'
                     \/ h'[r] = h[r]
    BY <1>1 DEF Routine, Carries
  <2> QED
    BY <1>1, <1>quiet, <2>1 DEF Routine
<1>2. ASSUME NEW s \in Slots, ReadBase(s) \/ ReadMembers(s)
      PROVE  Owned'
  <2>1. Quiet /\ Only(s) /\ h[s].tid = None
    BY <1>2, BaseEffect, MembersEffect DEF Stage, StageOf
  <2> QED
    BY <2>1, <1>quiet DEF Only
<1>3. ASSUME NEW s \in Slots, NEW g \in Guests, ReadConfig(s, g)
      PROVE  Owned'
  <2>1. Quiet /\ Only(s) /\ h[s].tid = None
    BY <1>3, ConfigEffect DEF Stage, StageOf
  <2> QED
    BY <2>1, <1>quiet DEF Only
<1>4. ASSUME NEW s \in Slots, PveAccepts(s)
      PROVE  Owned'
  <2> DEFINE o == h[s].op
  <2>1. /\ o \in Ops /\ CanAccept(o) /\ UNCHANGED <<pool, res>> /\ Only(s) /\ h[s].tid = None
        /\ pc[s] = "forward"
        /\ h'[s].quota = h[s].quota /\ h'[s].delta = h[s].delta
        /\ slipped' = slipped \cup (Unchecked(h[s]) \cap Pools)
    BY <1>4, AcceptEffect DEF Stage, StageOf
  <2>2. CASE UNCHANGED <<task, h>>
    BY <2>1, <2>2, <1>quiet DEF Quiet
  <2>3. ASSUME NEW t \in TaskIds, ~ Pending(t), h'[s].tid = t, o.act \notin Unattached,
               task' = [task EXCEPT ![t] = TaskOf(o)]
        PROVE  Owned'
    <3>1. /\ task'[t] = TaskOf(o)
          /\ \A r \in TaskIds : r # t => task'[r] = task[r] /\ (Pending(r)' <=> Pending(r))
      BY <2>3 DEF TypeOK, PveTypeOK, Pending
    <3>2. ASSUME NEW r \in TaskIds, r # t, Pending(r)', Landing(task[r])' \notin slipped'
          PROVE  \E q \in Slots : Owner(q, r)'
      <4>1. Pending(r) /\ task'[r] = task[r] /\ Landing(task[r])' = Landing(task[r])
        BY <2>1, <3>1, <3>2 DEF Landing
      <4>2. PICK q \in Slots : Owner(q, r)
        BY <2>1, <3>2, <4>1 DEF Owned
      <4>3. q # s
        BY <2>1, <4>2, NoneAssumption DEF Owner
      <4> QED
        BY <2>1, <4>1, <4>2, <4>3, OwnerStays DEF Only
    <3>3. ASSUME Landing(task[t])' \notin slipped'
          PROVE  Owner(s, t)'
      <4> DEFINE p == Landing(TaskOf(o))
      <4>1. Landing(task[t])' = p
        BY <2>1, <3>1 DEF Landing
      <4>2. p \in Pools /\ p \in Targets(o)
        <5>1. Acl[o.user] \subseteq Pools
          BY <2>1, OpFacts, WorldAssumption
        <5>2. CASE o.act \in NewGuest \cup {"restore"}
          BY <2>1, <5>1, <5>2, ModeFacts, AcceptFacts DEF Landing, Targets, NewGuest, Unattached
        <5>3. CASE o.act = "pool"
          BY <2>1, <5>1, <5>3, ModeFacts, AcceptFacts DEF Landing, Targets, NewGuest, Unattached
        <5>4. CASE o.act \in GuestMod \cup {"unknown"}
          BY <2>1, <5>1, <5>4, ModeFacts, AcceptFacts DEF Landing, Targets, NewGuest, GuestMod, Unattached
        <5> QED
          BY <2>1, <2>3, <5>2, <5>3, <5>4, ModeFacts DEF GuestMod
      <4>3. p \notin slipped /\ p \notin Unchecked(h[s])
        BY <2>1, <3>3, <4>1, <4>2
      <4>4. h[s].quota # None /\ p = h[s].quota.pool
        BY <4>2, <4>3 DEF Unchecked
      <4>5. o.act = "clone" => Leq(res[o.src], h[s].delta)
        BY <4>2, <4>3, <4>4 DEF Unchecked
      <4>6. o.act \in NewGuest \cup GuestMod \cup {"restore"}
        BY <2>3, <4>4 DEF Stage, StageOf, Unattached
      <4>7. Covers(s, TaskOf(o))
        <5>1. CASE o.act = "clone"
          <6>1. res[o.src] \in Vec /\ h[s].delta \in Vec
            BY <2>1, <5>1, OpFacts, AmountFacts, SlotFacts DEF TypeOK, PveTypeOK
          <6>2. Leq(res[o.src], Pos(h[s].delta))
            BY <4>5, <5>1, <6>1 DEF Leq, Pos, Vec
          <6> QED
            BY <2>1, <5>1, <6>2, ModeFacts DEF Covers, NewGuest
        <5>2. CASE o.act \in {"create", "restore"}
          BY <2>1, <4>3, <4>4, <5>2 DEF Priced, PricedFor
        <5>3. CASE o.act \in GuestMod
          <6>1. p = pool[o.g]
            BY <2>1, <5>3, ModeFacts DEF Landing, GuestMod
          <6> QED
            BY <2>1, <4>3, <4>4, <5>3, <6>1 DEF Priced, PricedFor
        <5> QED
          BY <4>6, <5>1, <5>2, <5>3 DEF NewGuest
      <4>8. Covers(s, task[t])'
        BY <2>1, <3>1, <4>7 DEF Covers, Result
      <4> QED
        BY <2>1, <2>3, <4>1, <4>4, <4>8 DEF Owner
    <3> QED
      BY <3>2, <3>3 DEF Owned
  <2> QED
    BY <1>4, <2>2, <2>3, AcceptEffect
<1>5. ASSUME NEW t \in TaskIds, TaskLands(t) \/ TaskFails(t)
      PROVE  Owned'
  <2>1. slipped' = slipped /\ task' = [task EXCEPT ![t] = None] /\ Pending(t)
    BY <1>5, EndEffect
  <2> SUFFICES ASSUME NEW r \in TaskIds, Pending(r)', Landing(task[r])' \notin slipped'
               PROVE  \E s \in Slots : Owner(s, r)'
    BY DEF Owned
  <2>2. r # t /\ Pending(r) /\ task'[r] = task[r] /\ task[r] \in Task /\ task[r].g \in Guests
    BY <2>1, TaskFacts DEF Pending, TypeOK, PveTypeOK
  <2>3. ASSUME NEW s \in Slots, Owner(s, r),
               \/ task[r].mode \in {"create", "restore"}
               \/ pool'[task[r].g] = pool[task[r].g] /\ res'[task[r].g] = res[task[r].g]
        PROVE  Owner(s, r)'
    BY <1>5, <2>2, <2>3, EndEffect, OwnerStays DEF Owner
  <2>4. CASE TaskFails(t)
    <3>1. UNCHANGED <<pool, res>> /\ Landing(task[r])' = Landing(task[r])
      BY <2>2, <2>4 DEF TaskFails, Fail, Landing
    <3> QED
      BY <2>1, <2>2, <2>3, <3>1 DEF Owned
  <2>5. CASE TaskLands(t)
    <3> DEFINE k == task[t]
    <3>1. /\ res' = [res EXCEPT ![k.g] = Result(k)]
          /\ pool' = IF k.mode \in {"create", "restore", "pool"}
                     THEN [pool EXCEPT ![k.g] = k.pool] ELSE pool
      BY <2>5 DEF TaskLands, Land
    <3>2. k.g \in Guests /\ k.mode \in {"create", "restore", "set", "add", "pool"}
      BY <2>1, TaskFacts
    <3>3. CASE task[r].mode \in {"create", "restore", "pool"}
      <4>1. Landing(task[r])' = Landing(task[r])
        BY <2>2, <3>3 DEF Landing
      <4>2. task[r].mode # "pool"
        BY <2>1, <2>2, <4>1 DEF TaskOrder, InOrder, Landing
      <4> QED
        BY <2>1, <2>2, <2>3, <3>3, <4>1, <4>2 DEF Owned
    <3>4. CASE task[r].mode \in {"set", "add"} /\ task[r].g # k.g
      <4>1. pool'[task[r].g] = pool[task[r].g] /\ res'[task[r].g] = res[task[r].g]
        BY <2>2, <3>1, <3>4 DEF TypeOK, PveTypeOK
      <4>2. Landing(task[r])' = Landing(task[r])
        BY <2>2, <3>4, <4>1 DEF Landing
      <4> QED
        BY <2>1, <2>2, <2>3, <4>1, <4>2 DEF Owned
    <3>5. CASE task[r].mode \in {"set", "add"} /\ task[r].g = k.g
      <4>1. Landing(k) = pool[k.g] /\ Landing(task[r]) = pool[k.g] /\ pool[k.g] \notin slipped
        <5>1. Exists(k.g) /\ Landing(task[r]) = pool[k.g] /\ pool'[k.g] \notin slipped
          BY <2>1, <2>2, <3>5 DEF TaskOrder, InOrder, Landing
        <5>2. CASE k.mode \in {"set", "add"}
          BY <3>1, <5>1, <5>2 DEF Landing
        <5>3. CASE k.mode = "restore"
          BY <2>1, <3>1, <3>2, <5>1, <5>3 DEF TaskOrder, InOrder, Exists, Landing, TypeOK, PveTypeOK
        <5>4. CASE k.mode \in {"create", "pool"}
          BY <2>1, <3>1, <3>2, <5>1, <5>4 DEF TaskOrder, InOrder, TypeOK, PveTypeOK
        <5> QED
          BY <3>2, <5>2, <5>3, <5>4
      <4>2. PICK q \in Slots : Owner(q, t)
        BY <2>1, <4>1 DEF Owned
      <4>3. Critical(q) /\ h[q].quota # None /\ h[q].quota.pool = pool[k.g] /\ h[q].tid = t
        BY <4>1, <4>2, NoneAssumption DEF Owner, Stage, StageOf, Critical
      <4>4. h[q].tid = r
        BY <2>2, <4>1, <4>3, OnlyOwner
      <4> QED
        BY <2>2, <4>3, <4>4
    <3> QED
      BY <2>2, <3>3, <3>4, <3>5, TaskFacts
  <2> QED
    BY <1>5, <2>4, <2>5
<1>6. ASSUME NEW g \in Guests, GuestDestroyed(g)
      PROVE  Owned'
  <2>1. /\ UNCHANGED <<task, slipped, h>> /\ ~ Reserved(g)
        /\ \A x \in Guests : x # g => pool'[x] = pool[x] /\ res'[x] = res[x]
    BY <1>6 DEF GuestDestroyed, Destroy, admVars, TypeOK, PveTypeOK
  <2> SUFFICES ASSUME NEW r \in TaskIds, Pending(r)', Landing(task[r])' \notin slipped'
               PROVE  \E s \in Slots : Owner(s, r)'
    BY DEF Owned
  <2>2. Pending(r) /\ task[r].g # g /\ task[r].g \in Guests
    BY <2>1, TaskFacts DEF Reserved, Pending
  <2>3. Landing(task[r])' = Landing(task[r])
    BY <2>1, <2>2 DEF Landing
  <2>4. PICK s \in Slots : Owner(s, r)
    BY <2>1, <2>2, <2>3 DEF Owned
  <2> QED
    BY <2>1, <2>2, <2>4, OwnerStays
<1> QED
  BY <1>1, <1>2, <1>3, <1>4, <1>5, <1>6, StepKinds

\* Whichever task ends, nothing comes into a pool that a handler decides on.
LEMMA NothingLands ==
  ASSUME TypeOK, PoolSerial, Stage, Owned, NEW t \in TaskIds, TaskLands(t) \/ TaskFails(t),
         NEW r \in Slots, h[r].quota # None, h[r].quota.pool \notin slipped,
         pc[r] \in {"members", "sum", "forward"}
  PROVE  Shrinks(h[r].quota.pool)
<1>1. Critical(r) /\ h[r].tid = None /\ h[r].quota.pool \in Pools /\ Pending(t)
  BY SlotFacts, EndEffect DEF Critical, Stage, StageOf
<1>2. Landing(task[t]) # h[r].quota.pool
  BY <1>1, OnlyOwner, NoneAssumption
<1>3. CASE TaskLands(t)
  BY <1>1, <1>2, <1>3, LandsElsewhere
<1>4. CASE TaskFails(t)
  BY <1>4 DEF TaskFails, Fail, Shrinks
<1> QED
  BY <1>3, <1>4

-----------------------------------------------------------------------------
(* The price of a write stays right until it is forwarded.                 *)

\* Every step keeps the price of a write that is being decided on right: until
\* it is forwarded no other write changes its guest, or the pool slips.
LEMMA StepPriced ==
  TypeOK /\ PoolSerial /\ Stage /\ Owned /\ Priced /\ [Next]_vars => Priced'
<1> SUFFICES ASSUME TypeOK, PoolSerial, Stage, Owned, Priced, [Next]_vars
             PROVE  Priced'
  OBVIOUS
<1>keep. ASSUME NEW r \in Slots, slipped \subseteq slipped',
                h'[r].op = h[r].op, h'[r].quota = h[r].quota, h'[r].delta = h[r].delta,
                pc[r] \in {"members", "sum", "forward"},
                h[r].op.act \in GuestMod /\ pool'[h[r].op.g] = h[r].quota.pool
                  /\ h[r].quota # None /\ h[r].quota.pool \notin slipped =>
                    pool[h[r].op.g] = h[r].quota.pool /\ res'[h[r].op.g] = res[h[r].op.g]
         PROVE  PricedFor(r)'
  <2> SUFFICES ASSUME h[r].quota # None, h[r].quota.pool \notin slipped',
                      \/ h[r].op.act \in {"create", "restore"}
                      \/ h[r].op.act \in GuestMod /\ pool'[h[r].op.g] = h[r].quota.pool
               PROVE  Covers(r, TaskOf(h[r].op))'
    BY <1>keep DEF PricedFor
  <2>1. h[r].op \in Ops
    BY <1>keep, SlotFacts
  <2>2. Covers(r, TaskOf(h[r].op))
    BY <1>keep DEF Priced, PricedFor
  <2> QED
    BY <1>keep, <2>1, <2>2, PriceStays DEF GuestMod
<1>still. ASSUME NEW r \in Slots, UNCHANGED <<pool, res>>, slipped \subseteq slipped',
                 h'[r].op = h[r].op, h'[r].quota = h[r].quota, h'[r].delta = h[r].delta,
                 pc'[r] \in {"members", "sum", "forward"} =>
                    pc[r] \in {"members", "sum", "forward"} \/ h[r].quota.pool \in slipped'
          PROVE  PricedFor(r)'
  <2>1. CASE pc[r] \in {"members", "sum", "forward"}
    BY <1>still, <1>keep, <2>1
  <2>2. CASE pc'[r] \notin {"members", "sum", "forward"} \/ h[r].quota.pool \in slipped'
    BY <1>still, <2>2 DEF PricedFor
  <2> QED
    BY <1>still, <2>1, <2>2
<1>shrink. ASSUME \A p \in Pools, r \in Slots :
                      /\ h[r].quota # None /\ h[r].quota.pool = p /\ p \notin slipped
                      /\ pc[r] \in {"members", "sum", "forward"}
                      => Shrinks(p),
                  UNCHANGED <<pc, slipped>>,
                  \A r \in Slots : /\ h'[r].op = h[r].op /\ h'[r].quota = h[r].quota
                                   /\ h'[r].delta = h[r].delta
           PROVE  Priced'
  <2> SUFFICES ASSUME NEW r \in Slots PROVE PricedFor(r)'
    BY DEF Priced
  <2>1. CASE pc[r] \in {"members", "sum", "forward"}
    <3>1. h[r].op.act \in GuestMod /\ pool'[h[r].op.g] = h[r].quota.pool
                  /\ h[r].quota # None /\ h[r].quota.pool \notin slipped =>
                    pool[h[r].op.g] = h[r].quota.pool /\ res'[h[r].op.g] = res[h[r].op.g]
      BY <1>shrink, <2>1, SlotFacts, OpFacts DEF Shrinks
    <3> QED
      BY <1>shrink, <1>keep, <2>1, <3>1
  <2>2. CASE pc[r] \notin {"members", "sum", "forward"}
    BY <1>shrink, <2>2 DEF PricedFor
  <2> QED
    BY <2>1, <2>2
<1>1. CASE Routine
  <2> SUFFICES ASSUME NEW r \in Slots PROVE PricedFor(r)'
    BY DEF Priced
  <2>1. CASE h'[r] = h[r] /\ (\/ pc'[r] \in {pc[r], "base", "settle"}
                              \/ pc[r] = "sum" /\ pc'[r] = "forward"
                              \/ h[r].quota.pool \in slipped')
    BY <1>1, <1>still, <2>1 DEF Routine, Quiet
  <2>2. CASE pc'[r] \in {"idle", "lock", "forward"} /\ (pc'[r] = "forward" => h'[r].quota = None)
    BY <2>2 DEF PricedFor
  <2> QED
    BY <1>1, <2>1, <2>2 DEF Routine, Carries
<1>2. ASSUME NEW s \in Slots, ReadMembers(s) \/ PveAccepts(s)
      PROVE  Priced'
  <2>1. /\ Only(s) /\ UNCHANGED <<pool, res>> /\ slipped \subseteq slipped'
        /\ h'[s].op = h[s].op /\ h'[s].quota = h[s].quota /\ h'[s].delta = h[s].delta
        /\ pc'[s] \in {"members", "sum", "forward"} => pc[s] \in {"members", "sum", "forward"}
    BY <1>2, MembersEffect, AcceptEffect DEF Quiet
  <2> QED
    BY <1>still, <2>1 DEF Only, Priced
<1>3. ASSUME NEW s \in Slots, NEW g \in Guests, ReadConfig(s, g)
      PROVE  Priced'
  <2>1. /\ Only(s) /\ UNCHANGED <<pool, res, pc>> /\ slipped \subseteq slipped'
        /\ h'[s].op = h[s].op /\ h'[s].quota = h[s].quota /\ h'[s].delta = h[s].delta
    BY <1>3, ConfigEffect DEF Quiet
  <2> QED
    BY <1>still, <2>1 DEF Only, Priced
<1>4. ASSUME NEW s \in Slots, ReadBase(s)
      PROVE  Priced'
  <2> DEFINE o == h[s].op
  <2>1. /\ Only(s) /\ UNCHANGED <<pool, res>> /\ slipped \subseteq slipped' /\ pc[s] = "base"
        /\ h'[s].op = o /\ h'[s].quota = h[s].quota
    BY <1>4, BaseEffect DEF Quiet
  <2>2. PICK cur \in BaseReadings(o) : h'[s].delta = DeltaOf(o, cur)
    BY <1>4, BaseEffect
  <2>3. o \in Ops
    BY <2>1, SlotFacts
  <2>4. ASSUME o.act \in {"create", "restore"} \cup GuestMod
        PROVE  Covers(s, TaskOf(o))'
    <3>1. CASE o.act \in {"create", "restore"}
      <4>1. cur = Zero
        BY <2>2, <3>1 DEF BaseReadings, GuestMod
      <4>2. Leq(o.to, Pos(h'[s].delta))
        BY <2>2, <2>3, <3>1, <4>1, DeltaPays
      <4>3. TaskOf(o).mode \in {"create", "restore"} /\ TaskOf(o).to = o.to
        BY <2>3, <3>1, ModeFacts DEF NewGuest
      <4>4. TaskOf(o)' = TaskOf(o)
        BY <2>1 DEF TaskOf
      <4> QED
        BY <4>2, <4>3, <4>4 DEF Covers
    <3>2. CASE o.act \in GuestMod
      <4>1. cur = res[o.g]
        BY <2>2, <3>2 DEF BaseReadings, GuestMod
      <4>2. Leq(Result(TaskOf(o)), Plus(res[o.g], Pos(h'[s].delta)))
        BY <2>2, <2>3, <3>2, <4>1, DeltaPays DEF GuestMod
      <4>3. TaskOf(o).mode \in {"set", "add"} /\ TaskOf(o).g = o.g
        BY <2>3, <3>2, ModeFacts DEF GuestMod
      <4>4. TaskOf(o)' = TaskOf(o) /\ Result(TaskOf(o))' = Result(TaskOf(o))
        BY <2>1 DEF TaskOf, Result
      <4> QED
        BY <2>1, <4>2, <4>3, <4>4 DEF Covers
    <3> QED
      BY <2>4, <3>1, <3>2
  <2>5. PricedFor(s)'
    BY <2>1, <2>4 DEF PricedFor
  <2> QED
    BY <1>still, <2>1, <2>5 DEF Only, Priced
<1>5. ASSUME NEW t \in TaskIds, TaskLands(t) \/ TaskFails(t)
      PROVE  Priced'
  <2>1. ASSUME NEW r \in Slots, h[r].quota # None, h[r].quota.pool \notin slipped,
               pc[r] \in {"members", "sum", "forward"}
        PROVE  Shrinks(h[r].quota.pool)
    BY <1>5, <2>1, NothingLands
  <2> QED
    BY <1>5, <1>shrink, <2>1, EndEffect
<1>6. ASSUME NEW g \in Guests, GuestDestroyed(g)
      PROVE  Priced'
  BY <1>6, <1>shrink, DestroyShrinks DEF GuestDestroyed, admVars
<1> QED
  BY <1>1, <1>2, <1>3, <1>4, <1>5, <1>6, StepKinds

-----------------------------------------------------------------------------
(* The sum of the members that were read.                                  *)

\* The guests of a pool, and the types a total of them needs.
LEMMA MemberFacts ==
  ASSUME TypeOK, NEW p, NEW D
  PROVE  /\ Members(p) \ D \in SUBSET Guests /\ IsFiniteSet(Members(p) \ D)
         /\ IsFiniteSet(Members(p)) /\ Members(p) \in SUBSET Guests
         /\ \A g \in Guests : res[g] \in Amounts /\ res[g] \in Vec
         /\ Total(res, Members(p) \ D) \in Vec /\ Used(p) \in Vec
<1>1. Members(p) \in SUBSET Guests /\ Members(p) \ D \in SUBSET Guests
  BY DEF Members
<1>2. IsFiniteSet(Members(p)) /\ IsFiniteSet(Members(p) \ D)
  BY <1>1, FS_Subset, WorldAssumption
<1>3. \A g \in Guests : res[g] \in Amounts /\ res[g] \in Vec
  BY AmountFacts DEF TypeOK, PveTypeOK
<1>4. Total(res, Members(p) \ D) \in Vec
  BY <1>1, <1>2, <1>3, TotalType
<1>5. Used(p) \in Vec
  BY <1>1, <1>2, <1>3, TotalType DEF Used
<1> QED
  BY <1>1, <1>2, <1>3, <1>4, <1>5

\* What shrinks does not count for more.
LEMMA ShrinkTotal ==
  ASSUME TypeOK, NEW p, Shrinks(p), NEW D
  PROVE  Leq(Total(res', Members(p)' \ D), Total(res, Members(p) \ D))
<1> DEFINE S == Members(p) \ D
           T == Members(p)' \ D
<1>1. T \in SUBSET S /\ \A g \in T : res'[g] = res[g]
  BY DEF Shrinks, Members
<1>2. IsFiniteSet(S) /\ \A g \in S : res[g] \in Amounts /\ res[g] \in Vec
  BY MemberFacts
<1>3. \A g \in T : res'[g] \in Vec /\ Leq(res'[g], res[g])
  BY <1>1, <1>2 DEF Leq, Vec
<1>4. \A g \in S : res[g] \in Amounts
  BY <1>2
<1> HIDE DEF S, T
<1>5. Leq(Total(res', T), Total(res, S))
  BY <1>1, <1>2, <1>3, <1>4, TotalMonotone
<1> QED
  BY <1>5 DEF S, T

\* Every step keeps what was read in the sum: no guest of the pool grows and
\* none comes in while its members are read.
LEMMA StepTallied ==
  TypeOK /\ TypeOK' /\ PoolSerial /\ Stage /\ Owned /\ Tallied /\ [Next]_vars => Tallied'
<1> SUFFICES ASSUME TypeOK, TypeOK', PoolSerial, Stage, Owned, Tallied, [Next]_vars
             PROVE  Tallied'
  OBVIOUS
<1>still. ASSUME NEW r \in Slots, UNCHANGED <<pool, res>>, slipped \subseteq slipped',
                 pc'[r] = "sum" => /\ pc[r] = "sum" /\ h'[r].quota = h[r].quota
                                   /\ h'[r].acc = h[r].acc /\ h'[r].todo = h[r].todo
          PROVE  TalliedBy(r)'
  BY <1>still DEF Tallied, TalliedBy, Members
<1>shrink. ASSUME \A r \in Slots : /\ pc[r] = "sum" /\ h[r].quota.pool \notin slipped
                                   => Shrinks(h[r].quota.pool),
                  UNCHANGED <<pc, slipped>>,
                  \A r \in Slots : /\ h'[r].quota = h[r].quota /\ h'[r].acc = h[r].acc
                                   /\ h'[r].todo = h[r].todo
           PROVE  Tallied'
  <2> SUFFICES ASSUME NEW r \in Slots, pc[r] = "sum", h[r].quota.pool \notin slipped,
                      NEW p, p = h[r].quota.pool, NEW D, D = h[r].todo
               PROVE  Leq(Total(res', Members(p)' \ D), h[r].acc)
    BY <1>shrink DEF Tallied, TalliedBy, Members
  <2> DEFINE new == Total(res', Members(p)' \ D)
             old == Total(res, Members(p) \ D)
  <2>1. Leq(old, h[r].acc)
    BY DEF Tallied, TalliedBy
  <2>2. Leq(new, old)
    BY <1>shrink, ShrinkTotal
  <2>3. old \in Vec /\ h[r].acc \in Vec
    BY MemberFacts, SlotFacts
  <2>4. new \in Vec
    <3>1. Members(p)' \in SUBSET Guests /\ \A g \in Guests : res'[g] \in Vec
      BY AmountFacts DEF Members, TypeOK, PveTypeOK
    <3>2. IsFiniteSet(Members(p)' \ D)
      BY <3>1, FS_Subset, WorldAssumption
    <3> QED
      BY <3>1, <3>2, TotalType
  <2> HIDE DEF new, old
  <2>5. Leq(new, h[r].acc)
    BY <2>1, <2>2, <2>3, <2>4 DEF Leq, Vec
  <2> QED
    BY <2>5 DEF new
<1>1. CASE Routine
  <2> SUFFICES ASSUME NEW r \in Slots PROVE TalliedBy(r)'
    BY DEF Tallied
  <2>1. CASE h'[r] = h[r] /\ (pc'[r] = "sum" => pc[r] = "sum")
    BY <1>1, <1>still, <2>1 DEF Routine, Quiet
  <2>2. CASE pc'[r] # "sum" \/ (h'[r] = h[r] /\ h[r].quota.pool \in slipped')
    BY <2>2 DEF TalliedBy
  <2>3. Carries(r)
    BY <1>1 DEF Routine
  <2> QED
    BY <2>1, <2>2, <2>3 DEF Carries
<1>2. ASSUME NEW s \in Slots, ReadBase(s) \/ PveAccepts(s)
      PROVE  Tallied'
  <2>1. Only(s) /\ UNCHANGED <<pool, res>> /\ slipped \subseteq slipped' /\ pc'[s] # "sum"
    BY <1>2, BaseEffect, AcceptEffect DEF Quiet
  <2> QED
    BY <1>still, <2>1 DEF Only, Tallied
<1>3. ASSUME NEW s \in Slots, ReadMembers(s)
      PROVE  Tallied'
  <2> DEFINE p == h[s].quota.pool
  <2>1. /\ Only(s) /\ UNCHANGED <<pool, res>> /\ slipped \subseteq slipped'
        /\ h'[s].quota = h[s].quota /\ h'[s].todo = Members(p) /\ h'[s].acc = Zero
    BY <1>3, MembersEffect DEF Quiet, Stage, StageOf
  <2>2. Total(res, Members(p) \ Members(p)) = Zero
    <3> Members(p) \ Members(p) = {}
      OBVIOUS
    <3> QED
      BY TotalEmpty
  <2>3. Leq(Zero, Zero)
    BY DEF Leq, Zero
  <2>4. TalliedBy(s)'
    BY <2>1, <2>2, <2>3 DEF TalliedBy, Members
  <2> QED
    BY <1>still, <2>1, <2>4 DEF Only, Tallied
<1>4. ASSUME NEW s \in Slots, NEW g \in Guests, ReadConfig(s, g)
      PROVE  Tallied'
  <2> DEFINE p == h[s].quota.pool
             R == Members(p) \ h[s].todo
  <2>1. /\ Only(s) /\ UNCHANGED <<pool, res, pc>> /\ slipped \subseteq slipped' /\ pc[s] = "sum"
        /\ h'[s].quota = h[s].quota /\ h'[s].todo = h[s].todo \ {g} /\ g \in h[s].todo
        /\ p \in slipped' \/ h'[s].acc = Plus(h[s].acc, res[g])
    BY <1>4, ConfigEffect DEF Quiet
  <2>2. ASSUME p \notin slipped'
        PROVE  Leq(Total(res, Members(p) \ (h[s].todo \ {g})), Plus(h[s].acc, res[g]))
    <3>1. Leq(Total(res, R), h[s].acc)
      BY <2>1, <2>2 DEF Tallied, TalliedBy
    <3>2. Total(res, R) \in Vec /\ h[s].acc \in Vec /\ res[g] \in Amounts /\ res[g] \in Vec
      BY MemberFacts, SlotFacts
    <3>3. CASE g \notin Members(p)
      <4>1. Members(p) \ (h[s].todo \ {g}) = R
        BY <3>3
      <4> HIDE DEF R
      <4>2. Leq(Total(res, R), Plus(h[s].acc, res[g]))
        BY <3>1, <3>2 DEF Leq, Plus, Vec, Amounts
      <4> QED
        BY <4>1, <4>2
    <3>4. CASE g \in Members(p)
      <4> DEFINE B == Members(p) \ (h[s].todo \ {g})
      <4>1. g \in B /\ B \ {g} = R
        BY <2>1, <3>4
      <4>2. IsFiniteSet(B) /\ \A x \in B : res[x] \in Vec
        BY MemberFacts
      <4> HIDE DEF B, R
      <4>3. Total(res, B) = Plus(res[g], Total(res, R))
        BY <4>1, <4>2, TotalSplit
      <4>4. Leq(Plus(res[g], Total(res, R)), Plus(h[s].acc, res[g]))
        BY <3>1, <3>2 DEF Leq, Plus, Vec
      <4> QED
        BY <4>3, <4>4 DEF B
    <3> QED
      BY <3>3, <3>4
  <2>3. TalliedBy(s)'
    BY <2>1, <2>2 DEF TalliedBy, Members
  <2> QED
    BY <1>still, <2>1, <2>3 DEF Only, Tallied
<1>5. ASSUME NEW t \in TaskIds, TaskLands(t) \/ TaskFails(t)
      PROVE  Tallied'
  <2>1. ASSUME NEW r \in Slots, pc[r] = "sum", h[r].quota.pool \notin slipped
        PROVE  Shrinks(h[r].quota.pool)
    BY <1>5, <2>1, NothingLands, SlotFacts
  <2> QED
    BY <1>5, <1>shrink, <2>1, EndEffect
<1>6. ASSUME NEW g \in Guests, GuestDestroyed(g)
      PROVE  Tallied'
  <2>1. ASSUME NEW r \in Slots, pc[r] = "sum"
        PROVE  Shrinks(h[r].quota.pool)
    BY <1>6, <2>1, DestroyShrinks, SlotFacts
  <2> QED
    BY <1>6, <1>shrink, <2>1 DEF GuestDestroyed, admVars
<1> QED
  BY <1>1, <1>2, <1>3, <1>4, <1>5, <1>6, StepKinds

-----------------------------------------------------------------------------
(* The usage that a handler reads.                                         *)

\* What the steps keep together: the strengthening of ReadCoversUsage.
Working == Stage /\ TaskOrder /\ Owned /\ Priced /\ Tallied

\* It holds in every reachable state.
THEOREM HandlersWork == Spec => []Working
<1>init. Init => Working
  <2> SUFFICES ASSUME Init PROVE Working
    OBVIOUS
  <2>1. \A s \in Slots : h[s] = NoRequest /\ pc[s] = "idle"
    BY DEF Init
  <2>2. \A t \in TaskIds : ~ Pending(t)
    BY DEF Init, Pending
  <2> QED
    BY <2>1, <2>2, NoRequestType
       DEF Working, Stage, StageOf, TaskOrder, Owned, Priced, PricedFor, Tallied, TalliedBy
<1>step. TypeOK /\ TypeOK' /\ PoolSerial /\ Working /\ [Next]_vars => Working'
  BY StepStage, StepTaskOrder, StepOwned, StepPriced, StepTallied DEF Working
<1> QED
  BY <1>init, <1>step, TypeCorrect, PoolsSerial, PTL DEF Spec

\* The usage a handler adds up member by member never falls behind the pool's
\* usage, however many guests are destroyed and tasks end while it reads.
THEOREM ReadsCoverUsage == Spec => []ReadCoversUsage
<1>1. TypeOK /\ Working => ReadCoversUsage
  <2> SUFFICES ASSUME TypeOK, Tallied, NEW s \in Slots, pc[s] = "sum",
                      h[s].quota.pool \notin slipped
               PROVE  Leq(Used(h[s].quota.pool), Plus(h[s].acc, Total(res, h[s].todo)))
    BY DEF Working, ReadCoversUsage
  <2> DEFINE M == Members(h[s].quota.pool)
             D == h[s].todo
  <2>1. IsFiniteSet(M) /\ D \in SUBSET Guests /\ h[s].acc \in Vec
        /\ \A g \in Guests : res[g] \in Amounts /\ res[g] \in Vec
    BY MemberFacts, SlotFacts
  <2>2. Leq(Total(res, M \ D), h[s].acc)
    BY DEF Tallied, TalliedBy
  <2>3. M \in SUBSET Guests /\ Used(h[s].quota.pool) = Total(res, M)
    BY DEF Members, Used
  <2> HIDE DEF M, D
  <2>4. IsFiniteSet(D) /\ \A x \in D : res[x] \in Amounts
    BY <2>1, FS_Subset, WorldAssumption
  <2>5. \A x \in M \cap D : res[x] \in Vec /\ Leq(res[x], res[x])
    BY <2>1 DEF Leq, Vec
  <2>6. Leq(Total(res, M \cap D), Total(res, D))
    <3> DEFINE T == M \cap D
    <3>1. T \in SUBSET D /\ \A x \in T : res[x] \in Vec /\ Leq(res[x], res[x])
      BY <2>5
    <3> HIDE DEF T
    <3>2. Leq(Total(res, T), Total(res, D))
      BY <2>4, <3>1, TotalMonotone
    <3> QED
      BY <3>2 DEF T
  <2>7. Total(res, M) = Plus(Total(res, M \ D), Total(res, M \cap D))
    BY <2>1, <2>3, TotalParts
  <2>8. Total(res, M \ D) \in Vec /\ Total(res, M \cap D) \in Vec /\ Total(res, D) \in Vec
    <3>1. IsFiniteSet(M \ D) /\ IsFiniteSet(M \cap D)
      BY <2>1, FS_Subset
    <3> QED
      BY <2>1, <2>3, <2>4, <3>1, TotalType
  <2>9. Leq(Plus(Total(res, M \ D), Total(res, M \cap D)), Plus(h[s].acc, Total(res, D)))
    BY <2>1, <2>2, <2>6, <2>8, PlusMonotone
  <2> QED
    BY <2>3, <2>7, <2>9 DEF D
<1> QED
  BY <1>1, HandlersWork, TypeCorrect, PTL

-----------------------------------------------------------------------------
(* Grants.  A pool that has not slipped has at most one request that was   *)
(* admitted and whose write has not ended.                                 *)

\* A request that still has to consume quota is between Lock and Unlock.
LEMMA HolderFacts ==
  ASSUME TypeOK, Stage, NEW p, NEW s \in Holders(p)
  PROVE  /\ s \in Slots /\ Critical(s) /\ h[s].quota # None /\ h[s].quota.pool = p
         /\ pc[s] = "forward" \/ h[s].tid # None
  BY DEF Holders, Critical, Stage, StageOf

\* What a pool holds is what its only holder was granted.
LEMMA HoldOne ==
  ASSUME TypeOK, PoolSerial, Stage, NEW p, p \notin slipped, NEW s \in Holders(p)
  PROVE  Hold(p) = Pos(h[s].delta)
<1> DEFINE c == CHOOSE r \in Holders(p) : TRUE
<1>1. c \in Holders(p)
  OBVIOUS
<1>2. Hold(p) = Pos(h[c].delta)
  BY <1>1 DEF Hold
<1> HIDE DEF c
<1>3. c = s
  BY <1>1, HolderFacts DEF PoolSerial
<1> QED
  BY <1>2, <1>3

\* A pool that a handler decides about holds nothing.
LEMMA NoHold ==
  ASSUME TypeOK, PoolSerial, Stage, NEW s \in Slots, pc[s] \in {"base", "members", "sum"},
         h[s].quota.pool \notin slipped
  PROVE  Holders(h[s].quota.pool) = {} /\ Hold(h[s].quota.pool) = Zero
<1>1. Holders(h[s].quota.pool) = {}
  <2> SUFFICES ASSUME NEW r \in Holders(h[s].quota.pool) PROVE FALSE
    OBVIOUS
  <2>1. r = s /\ (pc[r] = "forward" \/ h[r].tid # None)
    BY HolderFacts DEF PoolSerial, Critical
  <2> QED
    BY <2>1 DEF Stage, StageOf
<1> QED
  BY <1>1 DEF Hold

\* A grant that no handler takes up anew stays or lapses.
LEMMA HoldLapses ==
  ASSUME TypeOK, PoolSerial, Stage, NEW p, p \notin slipped,
         \A r \in Slots : r \in Holders(p)' => r \in Holders(p) /\ h'[r].delta = h[r].delta
  PROVE  Hold(p)' \in {Hold(p), Zero}
<1>1. CASE Holders(p)' = {}
  BY <1>1 DEF Hold, Zero
<1>2. CASE Holders(p)' # {}
  <2> DEFINE c == CHOOSE r \in Holders(p)' : TRUE
  <2>1. c \in Holders(p)'
    BY <1>2
  <2>2. Hold(p)' = Pos(h'[c].delta)
    BY <1>2 DEF Hold, Pos
  <2> HIDE DEF c
  <2>3. c \in Slots /\ c \in Holders(p) /\ h'[c].delta = h[c].delta
    BY <2>1 DEF Holders
  <2>4. Hold(p) = Pos(h[c].delta)
    BY <2>3, HoldOne
  <2> QED
    BY <2>2, <2>3, <2>4
<1> QED
  BY <1>1, <1>2

\* What is held is a vector without a negative component.
LEMMA HoldType ==
  ASSUME TypeOK, NEW p
  PROVE  Hold(p) \in Vec /\ Leq(Zero, Hold(p))
<1>1. \A d \in Vec : Pos(d) \in Vec /\ Leq(Zero, Pos(d))
  BY DEF Pos, Vec, Leq, Zero
<1>2. CASE Holders(p) = {}
  BY <1>2, VecFacts DEF Hold, Leq, Zero
<1>3. CASE Holders(p) # {}
  <2> DEFINE c == CHOOSE r \in Holders(p) : TRUE
  <2>1. c \in Slots
    BY <1>3 DEF Holders
  <2>2. Hold(p) = Pos(h[c].delta)
    BY <1>3 DEF Hold
  <2> HIDE DEF c
  <2> QED
    BY <1>1, <2>1, <2>2, SlotFacts
<1> QED
  BY <1>2, <1>3

\* The quota of the pool a handler works on is the limit in its record.
LEMMA LimitFacts ==
  /\ \A c \in Configs, p \in Pools : LimitOf(c, p) \in Vec \cup {None}
  /\ \A c \in Configs, u \in Users : c[u] # None => LimitOf(c, c[u].pool) = c[u].limit
<1>1. ASSUME NEW c \in Configs, NEW u \in Users, c[u] # None
      PROVE  LimitOf(c, c[u].pool) = c[u].limit
  <2> DEFINE v == CHOOSE v \in Users : c[v] # None /\ c[v].pool = c[u].pool
  <2>1. v \in Users /\ c[v] # None /\ c[v].pool = c[u].pool
    BY <1>1
  <2>2. LimitOf(c, c[u].pool) = c[v].limit
    BY <1>1 DEF LimitOf
  <2> HIDE DEF v
  <2>3. v = u
    BY <1>1, <2>1, ConfigAssumption DEF Validate
  <2> QED
    BY <2>2, <2>3
<1>2. ASSUME NEW c \in Configs, NEW p \in Pools
      PROVE  LimitOf(c, p) \in Vec \cup {None}
  <2>1. CASE \E u \in Users : c[u] # None /\ c[u].pool = p
    <3>1. PICK u \in Users : c[u] # None /\ c[u].pool = p
      BY <2>1
    <3>2. c[u].limit \in Vec
      BY <3>1, RecordFacts, ConfigAssumption
    <3> QED
      BY <1>1, <3>1, <3>2
  <2>2. CASE ~ \E u \in Users : c[u] # None /\ c[u].pool = p
    BY <2>2 DEF LimitOf
  <2> QED
    BY <2>1, <2>2
<1> QED
  BY <1>1, <1>2

\* A narrowing override never allows more than the quota.
LEMMA EffectiveNarrows ==
  ASSUME NarrowOverrides, NEW q \in Records, NEW n
  PROVE  effectiveLimits(q, n) \in Vec /\ Leq(effectiveLimits(q, n), q.limit)
<1>1. q.limit \in Vec
  BY ConfigAssumption
<1>2. CASE n \in DOMAIN q.nodes
  <2>1. effectiveLimits(q, n) =
          [k \in Dims |-> IF k \in DOMAIN q.nodes[n] THEN q.nodes[n][k] ELSE q.limit[k]]
    BY <1>2 DEF effectiveLimits
  <2>2. \A k \in Dims : k \in DOMAIN q.nodes[n] => q.nodes[n][k] \in Int /\ q.nodes[n][k] <= q.limit[k]
    BY <1>2 DEF NarrowOverrides
  <2> QED
    BY <1>1, <2>1, <2>2 DEF Vec, Leq
<1>3. CASE n \notin DOMAIN q.nodes
  BY <1>1, <1>3 DEF effectiveLimits, Vec, Leq
<1> QED
  BY <1>2, <1>3

-----------------------------------------------------------------------------
(* The refinement, pool by pool.                                           *)

\* The steps of QuotaGate in terms of what they are mapped to.
LEMMA GateActions ==
  ASSUME NEW p \in Pools
  PROVE  /\ Gate!Frees(p) <=> /\ Leq(Used(p)', Used(p)) /\ Hold(p)' \in {Hold(p), Zero}
                              /\ LimitOf(cfg, p)' = LimitOf(cfg, p)
         /\ Gate!Applies(p) <=> /\ Leq(Used(p)', Plus(Used(p), Hold(p))) /\ Hold(p)' = Zero
                                /\ LimitOf(cfg, p)' = LimitOf(cfg, p)
         /\ Gate!Grants(p) <=>
              /\ Hold(p) = Zero /\ Leq(Zero, Hold(p)')
              /\ \A k \in Dims : Hold(p)'[k] > 0 => Used(p)[k] + Hold(p)'[k] <= LimitOf(cfg, p)[k]
              /\ Used(p)' = Used(p) /\ LimitOf(cfg, p)' = LimitOf(cfg, p)
         /\ Gate!Relimits(p) <=>
              /\ Used(p)' = Used(p) /\ Hold(p)' = Hold(p)
              /\ LimitOf(cfg, p)' # None => Leq(Plus(Used(p), Hold(p)), LimitOf(cfg, p)')
<1>1. Gate!Zero = Zero /\ \A a, b : Gate!Plus(a, b) = Plus(a, b) /\ (Gate!Leq(a, b) <=> Leq(a, b))
  BY DEF Gate!Zero, Gate!Plus, Gate!Leq, Zero, Plus, Leq
<1>2. Zero' = Zero
  BY DEF Zero
<1>3. Gate!Frees(p) <=> /\ Leq(Used(p)', Used(p)) /\ Hold(p)' \in {Hold(p), Zero}
                        /\ LimitOf(cfg, p)' = LimitOf(cfg, p)
  BY <1>1 DEF Gate!Frees
<1>4. Gate!Applies(p) <=> /\ Leq(Used(p)', Plus(Used(p), Hold(p))) /\ Hold(p)' = Zero
                          /\ LimitOf(cfg, p)' = LimitOf(cfg, p)
  BY <1>1 DEF Gate!Applies
<1>5. Gate!Grants(p) <=>
        /\ Hold(p) = Zero /\ Leq(Zero, Hold(p)')
        /\ \A k \in Dims : Hold(p)'[k] > 0 => Used(p)[k] + Hold(p)'[k] <= LimitOf(cfg, p)[k]
        /\ Used(p)' = Used(p) /\ LimitOf(cfg, p)' = LimitOf(cfg, p)
  BY <1>1 DEF Gate!Grants
<1>6. Gate!Relimits(p) <=>
        /\ Used(p)' = Used(p) /\ Hold(p)' = Hold(p)
        /\ LimitOf(cfg, p)' # None => Leq(Plus(Used(p), Hold(p)), LimitOf(cfg, p)')
  BY <1>1 DEF Gate!Relimits
<1> QED
  BY <1>3, <1>4, <1>5, <1>6

\* Only a reload changes the quotas.
LEMMA StepLimits ==
  ASSUME TypeOK, [Next]_vars
  PROVE  UNCHANGED cfg \/ \E c \in Configs : Reload(c)
<1>1. ASSUME NEW s \in Slots, NEW o \in Ops, ArriveBypass(s, o) \/ ArriveRefused(s, o) \/ ArriveEnforced(s, o)
      PROVE  UNCHANGED cfg
  BY <1>1 DEF ArriveBypass, ArriveRefused, ArriveEnforced, vars
<1>2. ASSUME NEW s \in Slots, Handler(s)
      PROVE  UNCHANGED cfg
  BY <1>2 DEF Handler, Acquire, Decide, ReadBase, ReadMembers, ReadConfig, ErrDenies, ErrAllows,
              CheckAllows, CheckDenies, Forward, PveAccepts, PveRefuses, Reply, ReplyOk,
              ReplyLost, Settle, Settled, SettleTimeout
<1>3. CASE Cluster
  BY <1>3 DEF Cluster, TaskLands, TaskFails, GuestDestroyed, GuestTouched, admVars
<1>4. CASE Crash
  BY <1>4 DEF Crash
<1> QED
  BY <1>1, <1>2, <1>3, <1>4 DEF Next, Arrive, vars

\* A reload that lets a pool be gives it a quota that is not exceeded.
LEMMA ReloadRelimits ==
  ASSUME TypeOK, NEW c \in Configs, Reload(c), NEW p \in Pools, p \notin slipped'
  PROVE  Gate!Relimits(p)
<1>1. Used(p)' = Used(p) /\ Hold(p)' = Hold(p)
  BY DEF Reload, pveVars, Used, Members, Hold, Holders
<1>2. LimitOf(c, p) # None => Leq(Plus(Used(p), Hold(p)), LimitOf(c, p))
  BY DEF Reload, Slips
<1>3. LimitOf(cfg, p)' = LimitOf(c, p)
  BY DEF Reload, LimitOf
<1> QED
  BY <1>1, <1>2, <1>3, GateActions

\* A check that passes grants what fits beside the usage.
LEMMA CheckGrants ==
  ASSUME NarrowOverrides, TypeOK, PoolSerial, Stage, Tallied, RecordCurrent,
         NEW s \in Slots, CheckAllows(s), NEW p, p = h[s].quota.pool, p \notin slipped
  PROVE  Gate!Grants(p)
<1>1. /\ Only(s) /\ Quiet /\ UNCHANGED cfg /\ h' = h /\ pc[s] = "sum" /\ pc'[s] = "forward"
      /\ h[s].todo = {} /\ Fits(s)
  BY MoveEffect DEF CheckAllows
<1>2. h[s].quota \in Records /\ p \in Pools /\ h[s].acc \in Vec /\ h[s].delta \in Vec
      /\ h[s].op.user \in Users /\ h[s].quota # None
  BY <1>1, SlotFacts, OpFacts
<1>3. Holders(p) = {} /\ Hold(p) = Zero
  BY <1>1, NoHold
<1>4. Holders(p)' = {s}
  <2>1. \A r \in Slots : r # s => r \notin Holders(p)'
    BY <1>1, <1>3 DEF Only, Holders
  <2>2. s \in Holders(p)'
    BY <1>1, <1>2 DEF Holders
  <2> QED
    BY <2>1, <2>2 DEF Holders
<1>5. Hold(p)' = Pos(h[s].delta)
  BY <1>1, <1>4 DEF Hold, Pos
<1>6. Used(p)' = Used(p) /\ LimitOf(cfg, p)' = LimitOf(cfg, p)
  BY <1>1 DEF Quiet, Used, Members, LimitOf
<1>7. Leq(Used(p), h[s].acc)
  <2>1. Leq(Total(res, Members(p) \ {}), h[s].acc)
    BY <1>1 DEF Tallied, TalliedBy
  <2>2. Members(p) \ {} = Members(p)
    OBVIOUS
  <2> QED
    BY <2>1, <2>2 DEF Used
<1>8. LimitOf(cfg, p) = h[s].quota.limit
  BY <1>2, LimitFacts DEF RecordCurrent, TypeOK
<1> DEFINE e == effectiveLimits(h[s].quota, h[s].op.node)
           q == h[s].quota.limit
           d == h[s].delta
           a == h[s].acc
           u == Used(p)
<1>9. e \in Vec /\ Leq(e, q) /\ q \in Vec
  BY <1>2, EffectiveNarrows, ConfigAssumption
<1>10. \A k \in Dims : d[k] > 0 => a[k] + d[k] <= e[k]
  BY <1>1 DEF Fits, checkQuota
<1>11. u \in Vec
  BY MemberFacts
<1>12. Leq(u, a)
  BY <1>7
<1>13. a \in Vec /\ d \in Vec
  BY <1>2
<1> HIDE DEF e, q, d, a, u
<1>14. Leq(Zero, Pos(d)) /\ \A k \in Dims : Pos(d)[k] > 0 => u[k] + Pos(d)[k] <= q[k]
  BY <1>9, <1>10, <1>11, <1>12, <1>13 DEF Leq, Zero, Pos, Vec
<1> QED
  BY <1>2, <1>3, <1>5, <1>6, <1>8, <1>14, GateActions DEF d, q, u

\* A step that adds nothing to a pool and grants nothing anew in it.
LEMMA StepFrees ==
  ASSUME TypeOK, TypeOK', PoolSerial, Stage, NEW p \in Pools, p \notin slipped,
         UNCHANGED cfg, Shrinks(p),
         \A r \in Slots : r \in Holders(p)' => r \in Holders(p) /\ h'[r].delta = h[r].delta
  PROVE  Gate!Frees(p)
<1>1. Leq(Used(p)', Used(p))
  <2>1. Leq(Total(res', Members(p)' \ {}), Total(res, Members(p) \ {}))
    BY ShrinkTotal
  <2>2. Members(p) \ {} = Members(p) /\ Members(p)' \ {} = Members(p)'
    OBVIOUS
  <2> QED
    BY <2>1, <2>2 DEF Used
<1>2. Hold(p)' \in {Hold(p), Zero}
  BY HoldLapses
<1>3. LimitOf(cfg, p)' = LimitOf(cfg, p)
  BY DEF LimitOf
<1> QED
  BY <1>1, <1>2, <1>3, GateActions

\* A task that lands raises the usage of its pool by at most what its owner was
\* granted, and the grant is used up.
LEMMA LandApplies ==
  ASSUME TypeOK, TypeOK', PoolSerial, Stage, TaskOrder, Owned, NEW t \in TaskIds, TaskLands(t),
         NEW p \in Pools, p \notin slipped, Landing(task[t]) = p
  PROVE  Gate!Applies(p)
<1> DEFINE k == task[t]
<1>1. /\ UNCHANGED <<cfg, pc, slipped>> /\ Pending(t) /\ k.g \in Guests
      /\ k.mode \in {"create", "restore", "set", "add", "pool"}
  BY EndEffect, TaskFacts
<1>2. PICK s \in Slots : Owner(s, t)
  BY <1>1 DEF Owned
<1>3. s \in Holders(p) /\ pc[s] # "forward" /\ h[s].tid = t /\ Covers(s, k)
  BY <1>2, NoneAssumption DEF Owner, Holders, Stage, StageOf
<1>4. Hold(p) = Pos(h[s].delta)
  BY <1>3, HoldOne
<1>5. Hold(p)' = Zero
  <2>1. Holders(p)' = {}
    <3> SUFFICES ASSUME NEW r \in Holders(p)' PROVE FALSE
      OBVIOUS
    <3>1. /\ r \in Slots /\ h'[r].quota # None /\ h'[r].quota.pool = p
          /\ pc'[r] = "forward" \/ h'[r].tid # None
      BY DEF Holders
    <3>2. r \in Holders(p)
      BY <1>1, <3>1, EndEffect DEF Holders
    <3>3. r = s
      BY <1>3, <3>2, HolderFacts DEF PoolSerial
    <3> QED
      BY <1>1, <1>3, <3>1, <3>3, EndEffect
  <2> QED
    BY <2>1 DEF Hold, Zero
<1>6. /\ res' = [res EXCEPT ![k.g] = Result(k)]
      /\ pool' = IF k.mode \in {"create", "restore", "pool"}
                 THEN [pool EXCEPT ![k.g] = k.pool] ELSE pool
  BY DEF TaskLands, Land
<1>7. k.mode # "pool"
  BY <1>1 DEF TaskOrder, InOrder, Landing
<1> DEFINE g == k.g
           M == Members(p)
           N == Members(p)'
           d == Pos(h[s].delta)
<1>8. /\ \A x \in Guests : x # g => pool'[x] = pool[x] /\ res'[x] = res[x]
      /\ res'[g] = Result(k) /\ pool'[g] = p
  BY <1>1, <1>6, <1>7 DEF TypeOK, PveTypeOK, Landing
<1>9. /\ N \in SUBSET Guests /\ g \in N /\ N \ {g} = M \ {g} /\ M \in SUBSET Guests
      /\ \A x \in N \ {g} : res'[x] = res[x]
  BY <1>1, <1>8 DEF Members
<1>10. /\ \A x \in Guests : res'[x] \in Vec /\ res[x] \in Vec /\ res[x] \in Amounts
       /\ d \in Vec
  BY AmountFacts, SlotFacts DEF TypeOK, PveTypeOK, Pos, Vec
<1>11. Used(p) = Total(res, M) /\ Used(p)' = Total(res', N)
  BY DEF Used
<1>12. IF k.mode \in {"create", "restore"} THEN Leq(res'[g], d) ELSE Leq(res'[g], Plus(res[g], d))
  BY <1>3, <1>8 DEF Covers, Result
<1>13. k.mode \notin {"create", "restore"} => g \in M
  BY <1>1, <1>7 DEF Landing, Members
<1> HIDE DEF k, g, M, N, d
<1>14. IsFiniteSet(M) /\ IsFiniteSet(N) /\ IsFiniteSet(M \ {g})
  BY <1>9, FS_Subset, WorldAssumption
<1> DEFINE R == Total(res, M \ {g})
<1>15. Total(res', N) = Plus(res'[g], R)
  <2>1. Total(res', N) = Plus(res'[g], Total(res', N \ {g}))
    BY <1>9, <1>10, <1>14, TotalSplit
  <2>2. Total(res', M \ {g}) = R
    BY <1>9, <1>14, TotalAgrees
  <2> QED
    BY <1>9, <2>1, <2>2
<1>16. R \in Vec /\ Total(res, M) \in Vec
  BY <1>9, <1>10, <1>14, TotalType
<1>17. g \in M => Total(res, M) = Plus(res[g], R)
  BY <1>9, <1>10, <1>14, TotalSplit
<1>18. Leq(R, Total(res, M))
  <2> DEFINE T == M \ {g}
  <2>1. T \in SUBSET M /\ \A x \in T : res[x] \in Vec /\ Leq(res[x], res[x])
    BY <1>9, <1>10 DEF Leq, Vec
  <2>2. \A x \in M : res[x] \in Amounts
    BY <1>9, <1>10
  <2> HIDE DEF T
  <2>3. Leq(Total(res, T), Total(res, M))
    BY <1>14, <2>1, <2>2, TotalMonotone
  <2> QED
    BY <2>3 DEF T
<1> HIDE DEF R
<1>19. res'[g] \in Vec /\ res[g] \in Vec
  BY <1>9, <1>10
<1>20. Leq(Plus(res'[g], R), Plus(Total(res, M), d))
  <2>1. CASE k.mode \in {"create", "restore"}
    <3>1. Leq(res'[g], d)
      BY <1>12, <2>1
    <3> QED
      BY <1>10, <1>16, <1>18, <1>19, <3>1 DEF Leq, Plus, Vec
  <2>2. CASE k.mode \notin {"create", "restore"}
    <3>1. Leq(res'[g], Plus(res[g], d)) /\ Total(res, M) = Plus(res[g], R)
      BY <1>12, <1>13, <1>17, <2>2
    <3> QED
      BY <1>10, <1>16, <1>19, <3>1 DEF Leq, Plus, Vec
  <2> QED
    BY <2>1, <2>2
<1>21. LimitOf(cfg, p)' = LimitOf(cfg, p)
  BY <1>1 DEF LimitOf
<1> QED
  BY <1>4, <1>5, <1>11, <1>15, <1>20, <1>21, GateActions DEF d

\* Every step, seen from a pool that has not slipped.
LEMMA PoolStep ==
  ASSUME NarrowOverrides, TypeOK, TypeOK', PoolSerial, RecordCurrent, Working, [Next]_vars,
         NEW p \in Pools, p \notin slipped'
  PROVE  Gate!Grants(p) \/ Gate!Applies(p) \/ Gate!Frees(p) \/ Gate!Relimits(p)
<1> USE DEF Working
<1>1. ASSUME NEW c \in Configs, Reload(c)
      PROVE  Gate!Relimits(p)
  BY <1>1, ReloadRelimits
<1> SUFFICES ASSUME UNCHANGED cfg
             PROVE  Gate!Grants(p) \/ Gate!Applies(p) \/ Gate!Frees(p)
  BY <1>1, StepLimits
<1>still. ASSUME UNCHANGED <<pool, res>>, p \notin slipped,
                 \A r \in Slots : r \in Holders(p)' => r \in Holders(p) /\ h'[r].delta = h[r].delta
          PROVE  Gate!Frees(p)
  <2>1. Shrinks(p)
    BY <1>still DEF Shrinks
  <2> QED
    BY <1>still, <2>1, StepFrees
<1>2. CASE Routine
  <2>1. UNCHANGED <<pool, res>> /\ p \notin slipped /\ \A r \in Slots : Carries(r)
    BY <1>2 DEF Routine, Quiet
  <2>2. ASSUME NEW s \in Slots, CheckAllows(s), h[s].quota.pool = p
        PROVE  Gate!Grants(p)
    BY <2>1, <2>2, CheckGrants
  <2>3. ASSUME \A s \in Slots : ~ (CheckAllows(s) /\ h[s].quota.pool = p)
        PROVE  \A r \in Slots : r \in Holders(p)' => r \in Holders(p) /\ h'[r].delta = h[r].delta
    <3> SUFFICES ASSUME NEW r \in Slots, r \in Holders(p)'
                 PROVE  r \in Holders(p) /\ h'[r].delta = h[r].delta
      OBVIOUS
    <3>1. /\ h'[r].quota # None /\ h'[r].quota.pool = p
          /\ pc'[r] = "forward" \/ h'[r].tid # None
      BY DEF Holders
    <3>2. h'[r] = h[r] /\ pc'[r] \in {pc[r], "base", "settle"}
      BY <2>1, <2>3, <3>1 DEF Carries
    <3> QED
      BY <3>1, <3>2 DEF Holders
  <2> QED
    BY <1>still, <2>1, <2>2, <2>3
<1>3. ASSUME NEW s \in Slots, ReadBase(s)
      PROVE  Gate!Frees(p)
  <2>1. /\ Only(s) /\ Quiet /\ pc[s] = "base" /\ h'[s].quota = h[s].quota /\ h'[s].tid = h[s].tid
        /\ p \notin slipped
    BY <1>3, BaseEffect DEF Quiet
  <2>2. h[s].tid = None
    BY <2>1 DEF Stage, StageOf
  <2>3. CASE h[s].quota.pool = p /\ pc'[s] = "forward"
    <3>1. PICK cur : /\ h'[s].delta = DeltaOf(h[s].op, cur)
                     /\ ~ positive(DeltaOf(h[s].op, cur))
      BY <1>3, <2>3, BaseEffect
    <3>2. Hold(p) = Zero /\ Holders(p) = {}
      BY <2>1, <2>3, NoHold
    <3>3. \A r \in Holders(p)' : r = s
      BY <2>1, <3>2 DEF Only, Holders
    <3>4. h'[s].delta \in Vec
      BY DEF TypeOK, HandlerState
    <3>5. Pos(h'[s].delta) = Zero
      BY <3>1, <3>4 DEF positive, Pos, Zero, Vec
    <3>6. Hold(p)' = Zero
      <4>1. CASE Holders(p)' = {}
        BY <4>1 DEF Hold, Zero
      <4>2. CASE Holders(p)' # {}
        <5>1. (CHOOSE r \in Holders(p)' : TRUE) = s
          BY <3>3, <4>2
        <5> QED
          BY <3>5, <4>2, <5>1 DEF Hold, Pos, Zero
      <4> QED
        BY <4>1, <4>2
    <3>7. Used(p)' = Used(p) /\ LimitOf(cfg, p)' = LimitOf(cfg, p)
      BY <2>1 DEF Quiet, Used, Members, LimitOf
    <3>8. Used(p) \in Vec
      BY MemberFacts
    <3>9. Leq(Used(p), Used(p))
      BY <3>8 DEF Leq, Vec
    <3> QED
      BY <3>2, <3>6, <3>7, <3>9, GateActions
  <2>4. CASE ~ (h[s].quota.pool = p /\ pc'[s] = "forward")
    <3>1. \A r \in Slots : r \in Holders(p)' => r # s
      BY <2>1, <2>2, <2>4 DEF Holders
    <3> QED
      BY <1>still, <2>1, <3>1 DEF Only, Holders, Quiet
  <2> QED
    BY <2>3, <2>4
<1>4. ASSUME NEW s \in Slots, ReadMembers(s)
      PROVE  Gate!Frees(p)
  <2>1. Only(s) /\ Quiet /\ pc'[s] = "sum" /\ h'[s].tid = None
    BY <1>4, MembersEffect DEF Stage, StageOf
  <2> QED
    BY <1>still, <2>1 DEF Only, Holders, Quiet
<1>5. ASSUME NEW s \in Slots, NEW g \in Guests, ReadConfig(s, g)
      PROVE  Gate!Frees(p)
  <2>1. Only(s) /\ Quiet /\ pc'[s] = "sum" /\ h'[s].tid = None
    BY <1>5, ConfigEffect DEF Stage, StageOf
  <2> QED
    BY <1>still, <2>1 DEF Only, Holders, Quiet
<1>6. ASSUME NEW s \in Slots, PveAccepts(s)
      PROVE  Gate!Frees(p)
  <2>1. /\ Only(s) /\ UNCHANGED <<pool, res>> /\ p \notin slipped /\ pc[s] = "forward"
        /\ h'[s].quota = h[s].quota /\ h'[s].delta = h[s].delta
    BY <1>6, AcceptEffect
  <2> QED
    BY <1>still, <2>1 DEF Only, Holders
<1>7. ASSUME NEW t \in TaskIds, TaskLands(t) \/ TaskFails(t)
      PROVE  Gate!Applies(p) \/ Gate!Frees(p)
  <2>1. UNCHANGED <<cfg, pc, slipped>> /\ Pending(t)
    BY <1>7, EndEffect
  <2>2. \A r \in Slots : r \in Holders(p)' => r \in Holders(p) /\ h'[r].delta = h[r].delta
    BY <1>7, <2>1, EndEffect DEF Holders
  <2>3. CASE TaskLands(t) /\ Landing(task[t]) = p
    BY <2>1, <2>3, LandApplies
  <2>4. CASE TaskLands(t) /\ Landing(task[t]) # p
    BY <2>1, <2>2, <2>4, LandsElsewhere, StepFrees
  <2>5. CASE TaskFails(t)
    BY <1>still, <2>1, <2>2, <2>5 DEF TaskFails, Fail
  <2> QED
    BY <1>7, <2>3, <2>4, <2>5
<1>8. ASSUME NEW g \in Guests, GuestDestroyed(g)
      PROVE  Gate!Frees(p)
  <2>1. UNCHANGED <<cfg, pc, h, slipped>> /\ Shrinks(p)
    BY <1>8, DestroyShrinks DEF GuestDestroyed, admVars
  <2> QED
    BY <2>1, StepFrees DEF Holders
<1> QED
  BY <1>2, <1>3, <1>4, <1>5, <1>6, <1>7, <1>8, StepKinds

\* The vectors that the mapped variables take.
LEMMA GateTypes ==
  ASSUME TypeOK
  PROVE  Gate!TypeOK
<1>1. \A p \in Pools : Used(p) \in Vec /\ Hold(p) \in Vec /\ LimitOf(cfg, p) \in Vec \cup {None}
  BY MemberFacts, HoldType, LimitFacts DEF TypeOK
<1>2. slipped \subseteq Pools
  BY DEF TypeOK
<1>3. Gate!Vec = Vec
  BY DEF Gate!Vec, Vec
<1> QED
  BY <1>1, <1>2, <1>3 DEF Gate!TypeOK

\* The pool-level promise is kept: admission control implements QuotaGate, for
\* any number of requests, guests, tasks and failures, if no node override in
\* a quota file allows more than the quota it belongs to.
THEOREM Refinement == ASSUME NarrowOverrides PROVE Spec => ImplementsQuotaGate
<1>types. TypeOK => Gate!TypeOK
  BY GateTypes
<1>init. Init /\ TypeOK => Gate!Init
  <2> SUFFICES ASSUME Init, TypeOK PROVE Gate!Init
    OBVIOUS
  <2>1. \A p \in Pools : Hold(p) = Zero
    BY NoRequestType DEF Init, Hold, Holders
  <2>2. \A p \in Pools : LimitOf(cfg, p) # None /\ p \notin slipped => Leq(Used(p), LimitOf(cfg, p))
    BY DEF Init
  <2>3. Gate!Zero = Zero /\ \A a, b : Gate!Leq(a, b) <=> Leq(a, b)
    BY DEF Gate!Zero, Gate!Leq, Zero, Leq
  <2> QED
    BY <2>1, <2>2, <2>3, GateTypes DEF Gate!Init, Gate!Budgeted
<1>step. /\ TypeOK /\ TypeOK' /\ Gate!TypeOK' /\ PoolSerial /\ RecordCurrent /\ Working
         /\ [Next]_vars
         => [Gate!Next]_(Gate!vars)
  <2> SUFFICES ASSUME TypeOK, TypeOK', Gate!TypeOK', PoolSerial, RecordCurrent, Working,
                      [Next]_vars
               PROVE  Gate!Next
    OBVIOUS
  <2>1. slipped \subseteq slipped'
    BY StepKinds, BaseEffect, MembersEffect, ConfigEffect, AcceptEffect, EndEffect
       DEF Routine, Quiet, GuestDestroyed, admVars
  <2>2. \A p \in Pools : \/ p \in slipped'
                         \/ Gate!Grants(p) \/ Gate!Applies(p) \/ Gate!Frees(p) \/ Gate!Relimits(p)
    BY PoolStep
  <2> QED
    BY <2>1, <2>2 DEF Gate!Next
<1> QED
  BY <1>types, <1>init, <1>step, TypeCorrect, PoolsSerial, RecordsCurrent, HandlersWork, PTL
     DEF Spec, ImplementsQuotaGate, Gate!Spec

-----------------------------------------------------------------------------
(* What QuotaGate promises therefore holds of the middleware.              *)

\* QuotaGate again, with its theorems.
Proved == INSTANCE QuotaGateProofs WITH
              used  <- [p \in Pools |-> Used(p)],
              hold  <- [p \in Pools |-> Hold(p)],
              limit <- [p \in Pools |-> LimitOf(cfg, p)]

\* Usage and outstanding grants of a pool fit its quota together.
THEOREM PromiseKept == ASSUME NarrowOverrides PROVE Spec => []Proved!Promise
<1>init. Gate!Init => Proved!Init
  BY DEF Gate!Init, Proved!Init, Gate!TypeOK, Proved!TypeOK, Gate!Budgeted, Proved!Budgeted,
         Gate!Leq, Proved!Leq, Gate!Zero, Proved!Zero, Gate!Vec, Proved!Vec
<1>next. [Gate!Next]_(Gate!vars) => [Proved!Next]_(Proved!vars)
  BY DEF Gate!Next, Proved!Next, Gate!TypeOK, Proved!TypeOK, Gate!Leq, Proved!Leq,
         Gate!Zero, Proved!Zero, Gate!Vec, Proved!Vec, Gate!Plus, Proved!Plus,
         Gate!Grants, Proved!Grants, Gate!Applies, Proved!Applies, Gate!Frees, Proved!Frees,
         Gate!Relimits, Proved!Relimits, Gate!vars, Proved!vars
<1>promise. Proved!Spec => []Proved!Promise
  BY Proved!GatePromise
<1> QED
  BY <1>init, <1>next, <1>promise, Refinement, PTL
     DEF ImplementsQuotaGate, Gate!Spec, Proved!Spec

\* No pool holds more than its quota unless one of the events that slipped
\* records came first, for any number of requests, guests, tasks and failures,
\* if no node override allows more than the quota it belongs to.
THEOREM QuotaKept == ASSUME NarrowOverrides PROVE Spec => []WithinQuotaUnlessSlipped
<1>1. TypeOK /\ Proved!Promise => WithinQuotaUnlessSlipped
  <2> SUFFICES ASSUME TypeOK, Proved!Promise, NEW u \in Users, cfg[u] # None,
                      cfg[u].pool \notin slipped
               PROVE  Leq(Used(cfg[u].pool), cfg[u].limit)
    BY DEF WithinQuotaUnlessSlipped
  <2> DEFINE p == cfg[u].pool
             l == cfg[u].limit
             a == Used(p)
             b == Hold(p)
  <2>1. p \in Pools /\ l \in Vec /\ LimitOf(cfg, p) = l /\ l # None
    BY RecordFacts, LimitFacts, ConfigAssumption, NoneAssumption DEF TypeOK
  <2>2. a \in Vec /\ b \in Vec
    BY MemberFacts, HoldType
  <2>3. Leq(Zero, b)
    BY HoldType
  <2>4. Leq(Plus(a, b), l)
    BY <2>1 DEF Proved!Promise, Proved!Leq, Proved!Plus, Leq, Plus
  <2> HIDE DEF a, b, l, p
  <2>5. Leq(a, l)
    BY <2>1, <2>2, <2>3, <2>4 DEF Leq, Plus, Zero, Vec
  <2> QED
    BY <2>5 DEF a, l, p
<1> QED
  BY <1>1, PromiseKept, TypeCorrect, PTL

-----------------------------------------------------------------------------
(* In a calm deployment no pool ever slips, and the promise is absolute.   *)

\* Every guest there is, and every guest on its way, counts for something.
Counted ==
    /\ \A g \in Guests : Exists(g) => positive(res[g])
    /\ \A t \in TaskIds : Pending(t) => task[t].mode = "create" /\ positive(task[t].to)

\* A request that bypassed the check leads to no guest; one that was checked was
\* for something, a clone still for what its source has; and the task of a
\* handler is about the guest the handler waits for.
OnCourse(s) ==
    LET o == h[s].op IN
    /\ pc[s] # "idle" /\ h[s].quota = None => o.act \in Unattached
    /\ pc[s] \in {"members", "sum", "forward"} /\ o.act \in NewGuest =>
         /\ positive(h[s].delta)
         /\ o.act = "clone" /\ pool[o.src] = h[s].quota.pool => Leq(res[o.src], h[s].delta)
    /\ h[s].tid # None =>
         o.act \in NewGuest /\ positive(h[s].delta) /\ task[h[s].tid].g = o.g

Undisturbed == slipped = {} /\ Counted /\ \A s \in Slots : OnCourse(s)

\* What a write may be in a calm deployment.
LEMMA CalmOps ==
  ASSUME Calm, NEW o \in Ops
  PROVE  /\ o.act \in NewGuest \cup Unattached
         /\ o.act = "create" => positive(o.to)
         /\ Bypasses(o) => o.act \in Unattached
  BY DEF Calm, Bypasses, enforceable, NewGuest, Unattached

\* Where no pool has slipped, a handler that returns has no task left.
LEMMA CalmReturn ==
  ASSUME Calm, TypeOK, Stage, TaskOrder, Undisturbed, NEW s \in Slots,
         \/ ErrDenies(s) \/ CheckDenies(s) \/ PveRefuses(s) \/ ReplyOk(s)
         \/ ReplyLost(s) \/ Settled(s) \/ SettleTimeout(s),
         Return(s)
  PROVE  h[s].tid = None
<1> SUFFICES ASSUME h[s].tid # None PROVE FALSE
  OBVIOUS
<1>1. /\ pc[s] \in {"answer", "settle"} /\ Pending(h[s].tid) /\ h[s].tid \in TaskIds
      /\ h[s].op.act \in NewGuest /\ positive(h[s].delta) /\ task[h[s].tid].g = h[s].op.g
  BY SlotFacts DEF Stage, StageOf, Undisturbed, OnCourse
<1>2. h[s].quota # None
  BY <1>1 DEF Undisturbed, OnCourse, NewGuest, Unattached
<1>3. settle(h[s]) = "member"
  BY <1>1, <1>2 DEF settle, NewGuest, GuestMod
<1>4. ~ Exists(h[s].op.g)
  BY <1>1 DEF Undisturbed, Counted, TaskOrder, InOrder
<1>5. ~ Observed(s)
  BY <1>2, <1>3, <1>4, SlotFacts, NoneAssumption DEF Observed, Exists
<1>6. Faults = {}
  BY DEF Calm
<1>7. pc'[s] = "idle"
  BY DEF Return, TypeOK
<1> QED
  BY <1>1, <1>3, <1>5, <1>6, <1>7
     DEF ErrDenies, ReadFails, CheckDenies, PveRefuses, ReplyOk, StatusOk, ReplyLost, Settled,
         SettleTimeout, TypeOK

\* No step of a calm deployment makes a pool slip.
LEMMA NothingSlips ==
  ASSUME Calm, TypeOK, Stage, TaskOrder, RecordCurrent, Undisturbed, [Next]_vars
  PROVE  slipped' = {}
<1>0. slipped = {} /\ Faults = {} /\ FailClosed
  BY DEF Undisturbed, Calm
<1>1. ASSUME NEW s \in Slots, NEW o \in Ops, ArriveBypass(s, o) \/ ArriveEnforced(s, o)
      PROVE  slipped' = {}
  BY <1>0, <1>1 DEF ArriveBypass, ArriveEnforced
<1>2. ASSUME NEW s \in Slots, Acquire(s) \/ ReadMembers(s) \/ ErrAllows(s) \/ CheckAllows(s)
      PROVE  slipped' = {}
  BY <1>0, <1>2 DEF Acquire, ReadMembers, ErrAllows, CheckAllows
<1>3. ASSUME NEW s \in Slots, ReadBase(s)
      PROVE  slipped' = {}
  <2>1. PICK cur \in BaseReadings(h[s].op) : UseBase(s, cur)
    BY <1>3 DEF ReadBase
  <2>2. h[s].op.act = "clone" => cur = res[h[s].op.src]
    BY <1>0, <2>1 DEF BaseReadings, Readings, GuestMod
  <2> QED
    BY <1>0, <2>1, <2>2 DEF UseBase, Slips
<1>4. ASSUME NEW s \in Slots, NEW g \in Guests, ReadConfig(s, g)
      PROVE  slipped' = {}
  BY <1>0, <1>4 DEF ReadConfig, Readings, Slips
<1>5. ASSUME NEW s \in Slots, PveAccepts(s)
      PROVE  slipped' = {}
  <2> DEFINE o == h[s].op
  <2>1. /\ o \in Ops /\ CanAccept(o) /\ pc[s] = "forward"
        /\ slipped' = slipped \cup (Unchecked(h[s]) \cap Pools)
    BY <1>5, AcceptEffect
  <2>2. o.user \in Users /\ o.act \in NewGuest \cup Unattached
    BY <2>1, OpFacts, CalmOps
  <2>3. CASE o.act \in Unattached
    <3>1. Targets(o) = {}
      BY <2>3 DEF Targets, NewGuest, Unattached
    <3> QED
      BY <1>0, <2>1, <3>1 DEF Unchecked
  <2>4. CASE o.act \in NewGuest
    <3>1. h[s].quota # None
      BY <2>1, <2>4 DEF Undisturbed, OnCourse, NewGuest, Unattached
    <3>2. h[s].quota = cfg[o.user]
      BY <1>0, <3>1 DEF RecordCurrent
    <3>3. Acl[o.user] \subseteq {h[s].quota.pool}
      BY <2>1, <3>1, <3>2 DEF Calm, TypeOK
    <3>4. o.pool = h[s].quota.pool /\ (o.act = "clone" => pool[o.src] = h[s].quota.pool)
      BY <2>1, <2>4, <3>3 DEF CanAccept, NewGuest, GuestMod
    <3>5. Targets(o) = {o.pool}
      BY <2>4 DEF Targets, NewGuest, Unattached
    <3>6. o.act = "clone" => Leq(res[o.src], h[s].delta)
      BY <2>1, <2>4, <3>4 DEF Undisturbed, OnCourse
    <3>7. Unchecked(h[s]) = {}
      BY <3>1, <3>4, <3>5, <3>6 DEF Unchecked
    <3> QED
      BY <1>0, <2>1, <3>7
  <2> QED
    BY <2>2, <2>3, <2>4
<1>6. ASSUME NEW s \in Slots,
             \/ ErrDenies(s) \/ CheckDenies(s) \/ PveRefuses(s) \/ ReplyOk(s)
             \/ ReplyLost(s) \/ Settled(s) \/ SettleTimeout(s)
      PROVE  slipped' = {}
  <2>1. CASE Return(s)
    <3>1. h[s].tid = None
      BY <1>6, <2>1, CalmReturn
    <3> QED
      BY <1>0, <2>1, <3>1 DEF Return, Slips
  <2>2. CASE UNCHANGED slipped
    BY <1>0, <2>2
  <2> QED
    BY <1>6, <2>1, <2>2 DEF ErrDenies, CheckDenies, PveRefuses, ReplyOk, StatusOk, ReplyLost,
                            Settled, SettleTimeout
<1>7. ASSUME NEW c \in Configs, Reload(c)
      PROVE  FALSE
  BY <1>7 DEF Reload, Calm, TypeOK
<1>8. ASSUME Crash
      PROVE  FALSE
  BY <1>0, <1>8 DEF Crash
<1>9. CASE Cluster
  BY <1>0, <1>9 DEF Cluster, TaskLands, TaskFails, GuestDestroyed, GuestTouched, admVars
<1> QED
  BY <1>0, <1>1, <1>2, <1>3, <1>4, <1>5, <1>6, <1>7, <1>8, <1>9
     DEF Next, Arrive, ArriveRefused, Handler, Decide, Forward, Reply, Settle, vars

\* Guests and tasks count for something, whatever step is taken.
LEMMA StepCounted ==
  ASSUME Calm, TypeOK, Stage, Undisturbed, [Next]_vars
  PROVE  Counted'
<1>0. Counted
  BY DEF Undisturbed
<1>still. ASSUME UNCHANGED <<pool, res, task>> PROVE Counted'
  BY <1>0, <1>still DEF Counted, Exists, Pending
<1>1. ASSUME NEW s \in Slots, PveAccepts(s)
      PROVE  Counted'
  <2> DEFINE o == h[s].op
  <2>1. o \in Ops /\ CanAccept(o) /\ UNCHANGED <<pool, res>>
    BY <1>1, AcceptEffect
  <2>2. ASSUME o.act \notin Unattached,
               NEW t \in TaskIds, task' = [task EXCEPT ![t] = TaskOf(o)]
        PROVE  Counted'
    <3>1. o.act \in NewGuest /\ (o.act = "create" => positive(o.to))
      BY <2>1, <2>2, CalmOps
    <3>2. o.act = "clone" => Exists(o.src) /\ o.src \in Guests
      BY <2>1, <3>1, OpFacts DEF CanAccept, NewGuest, GuestMod
    <3>3. TaskOf(o).mode = "create" /\ positive(TaskOf(o).to)
      BY <1>0, <2>1, <3>1, <3>2, ModeFacts DEF Counted, NewGuest
    <3> QED
      BY <1>0, <2>1, <2>2, <3>3 DEF Counted, Pending, Exists, TypeOK, PveTypeOK
  <2>3. CASE UNCHANGED task
    BY <1>still, <2>1, <2>3
  <2> QED
    BY <1>1, <2>2, <2>3, AcceptEffect
<1>2. ASSUME NEW t \in TaskIds, TaskLands(t) \/ TaskFails(t)
      PROVE  Counted'
  <2>1. /\ Pending(t) /\ task[t].g \in Guests /\ task' = [task EXCEPT ![t] = None]
        /\ task[t].mode = "create" /\ positive(task[t].to)
    BY <1>0, <1>2, EndEffect, TaskFacts DEF Counted
  <2>2. \A r \in TaskIds : Pending(r)' => task'[r].mode = "create" /\ positive(task'[r].to)
    BY <1>0, <2>1 DEF Counted, Pending, TypeOK, PveTypeOK
  <2>3. CASE TaskLands(t)
    <3>1. /\ res' = [res EXCEPT ![task[t].g] = task[t].to]
          /\ \A g \in Guests : g # task[t].g => pool'[g] = pool[g]
      BY <2>1, <2>3 DEF TaskLands, Land, Result, TypeOK, PveTypeOK
    <3>2. \A g \in Guests : Exists(g)' => positive(res'[g])
      BY <1>0, <2>1, <3>1 DEF Counted, Exists, TypeOK, PveTypeOK
    <3> QED
      BY <2>2, <3>2 DEF Counted, positive
  <2>4. CASE TaskFails(t)
    <3>1. UNCHANGED <<pool, res>>
      BY <2>4 DEF TaskFails, Fail
    <3> QED
      BY <1>0, <2>2, <3>1 DEF Counted, Exists, positive
  <2> QED
    BY <1>2, <2>3, <2>4
<1>3. ASSUME NEW g \in Guests, GuestDestroyed(g)
      PROVE  Counted'
  <2>1. /\ UNCHANGED task /\ pool'[g] = None
        /\ \A x \in Guests : x # g => pool'[x] = pool[x] /\ res'[x] = res[x]
    BY <1>3 DEF GuestDestroyed, Destroy, TypeOK, PveTypeOK
  <2> QED
    BY <1>0, <2>1 DEF Counted, Exists, Pending, positive
<1> QED
  BY <1>still, <1>1, <1>2, <1>3, StepKinds, BaseEffect, MembersEffect, ConfigEffect
     DEF Routine, Quiet

\* Every step keeps every handler on course.
LEMMA StepOnCourse ==
  ASSUME Calm, TypeOK, TypeOK', PoolSerial, Stage, Stage', Owned, Undisturbed, slipped' = {},
         [Next]_vars
  PROVE  \A s \in Slots : OnCourse(s)'
<1>0. slipped = {} /\ Counted /\ \A s \in Slots : OnCourse(s)
  BY DEF Undisturbed
<1>still. ASSUME NEW r \in Slots, h'[r].op = h[r].op, h'[r].quota = h[r].quota,
                 h'[r].delta = h[r].delta, h'[r].tid \in {h[r].tid, None},
                 pc'[r] # "idle" => pc[r] # "idle",
                 pc'[r] \in {"members", "sum", "forward"} => pc[r] \in {"members", "sum", "forward"},
                 h'[r].tid # None => task'[h[r].tid] = task[h[r].tid],
                 pc[r] \in {"members", "sum", "forward"} /\ h[r].quota # None =>
                     Shrinks(h[r].quota.pool)
          PROVE  OnCourse(r)'
  <2> DEFINE o == h[r].op
  <2>1. pc'[r] # "idle" /\ h'[r].quota = None => h'[r].op.act \in Unattached
    BY <1>0, <1>still DEF OnCourse
  <2>2. ASSUME pc'[r] \in {"members", "sum", "forward"}, o.act \in NewGuest
        PROVE  positive(h'[r].delta)
    BY <1>0, <1>still, <2>2 DEF OnCourse
  <2>3. ASSUME pc'[r] \in {"members", "sum", "forward"}, o.act = "clone",
               pool'[o.src] = h[r].quota.pool
        PROVE  Leq(res'[o.src], h'[r].delta)
    <3>1. pc[r] # "idle" /\ o \in Ops /\ o.src \in Guests
      BY <1>still, <2>3, SlotFacts, OpFacts
    <3>2. h[r].quota # None
      BY <1>0, <2>3, <3>1 DEF OnCourse, Unattached
    <3>3. pool[o.src] = h[r].quota.pool /\ res'[o.src] = res[o.src]
      BY <1>still, <2>3, <3>1, <3>2 DEF Shrinks
    <3> QED
      BY <1>0, <1>still, <2>3, <3>3 DEF OnCourse, NewGuest
  <2>4. h'[r].tid # None =>
          o.act \in NewGuest /\ positive(h'[r].delta) /\ task'[h'[r].tid].g = o.g
    BY <1>0, <1>still DEF OnCourse
  <2> QED
    BY <1>still, <2>1, <2>2, <2>3, <2>4 DEF OnCourse, positive, Leq
<1>same. ASSUME NEW r \in Slots, h'[r] = h[r], pc'[r] = pc[r], UNCHANGED <<pool, res>>,
                h[r].tid # None => task'[h[r].tid] = task[h[r].tid]
         PROVE  OnCourse(r)'
  BY <1>still, <1>same DEF Shrinks
<1>idle. ASSUME NEW r \in Slots, pc'[r] = "idle"
         PROVE  OnCourse(r)'
  <2>1. h'[r].tid = None
    BY <1>idle DEF Stage, StageOf
  <2> QED
    BY <1>idle, <2>1 DEF OnCourse
<1>1. ASSUME NEW s \in Slots, NEW o \in Ops, ArriveBypass(s, o) \/ ArriveEnforced(s, o)
      PROVE  \A r \in Slots : OnCourse(r)'
  <2>1. Only(s) /\ Quiet /\ h'[s].tid = None /\ pc'[s] \in {"lock", "forward"}
    BY <1>1, ArriveEffect
  <2>2. h'[s].op = o /\ (h'[s].quota = None => o.act \in Unattached)
    <3>1. CASE ArriveBypass(s, o)
      BY <3>1, CalmOps DEF ArriveBypass, NoRequest, TypeOK
    <3>2. CASE ArriveEnforced(s, o)
      BY <3>2 DEF ArriveEnforced, Refused, NoRequest, TypeOK
    <3> QED
      BY <1>1, <3>1, <3>2
  <2>3. pc'[s] = "forward" => h'[s].quota = None
    BY <1>1, ArriveEffect
  <2>4. OnCourse(s)'
    BY <2>1, <2>2, <2>3 DEF OnCourse, NewGuest, Unattached
  <2> QED
    BY <1>same, <2>1, <2>4 DEF Only, Quiet
<1>2. ASSUME NEW s \in Slots, ReadBase(s)
      PROVE  \A r \in Slots : OnCourse(r)'
  <2> DEFINE o == h[s].op
  <2>1. /\ Only(s) /\ Quiet /\ pc[s] = "base" /\ h'[s].op = o /\ h'[s].quota = h[s].quota
        /\ h'[s].tid = None
    BY <1>2, BaseEffect DEF Stage, StageOf
  <2>2. PICK cur \in BaseReadings(o) : h'[s].delta = DeltaOf(o, cur)
    BY <1>2, BaseEffect
  <2>3. o \in Ops /\ h[s].quota # None
    BY <2>1, SlotFacts
  <2>4. ASSUME o.act = "create"
        PROVE  positive(h'[s].delta)
    BY <2>2, <2>3, <2>4, CalmOps DEF DeltaOf
  <2>5. ASSUME o.act = "clone"
        PROVE  h'[s].delta = res[o.src] /\ positive(h'[s].delta) /\ Leq(res[o.src], h'[s].delta)
    <3>1. Readings(o.src) = {res[o.src]}
      BY DEF Readings, Calm
    <3>2. cur = res[o.src] /\ h'[s].delta = res[o.src]
      BY <2>2, <2>5, <3>1 DEF BaseReadings, DeltaOf, GuestMod
    <3>3. o.src \in Guests /\ Exists(o.src)
      BY <1>2, <2>3, <2>5, OpFacts, NoneAssumption DEF ReadBase, BaseGuest, GuestMod
    <3>4. res[o.src] \in Vec
      BY <3>3, AmountFacts DEF TypeOK, PveTypeOK
    <3>5. Leq(res[o.src], res[o.src])
      BY <3>4 DEF Leq, Vec
    <3> QED
      BY <1>0, <3>2, <3>3, <3>5 DEF Counted
  <2>6. OnCourse(s)'
    BY <2>1, <2>3, <2>4, <2>5 DEF OnCourse, NewGuest, Quiet, positive, Leq
  <2> QED
    BY <1>same, <2>1, <2>6 DEF Only, Quiet
<1>3. ASSUME NEW s \in Slots, ReadMembers(s)
      PROVE  \A r \in Slots : OnCourse(r)'
  <2>1. /\ Only(s) /\ Quiet /\ pc[s] = "members" /\ pc'[s] = "sum" /\ h'[s].op = h[s].op
        /\ h'[s].quota = h[s].quota /\ h'[s].tid = h[s].tid /\ h'[s].delta = h[s].delta
    BY <1>3, MembersEffect
  <2>2. OnCourse(s)'
    BY <1>still, <2>1 DEF Quiet, Shrinks
  <2> QED
    BY <1>same, <2>1, <2>2 DEF Only, Quiet
<1>4. ASSUME NEW s \in Slots, NEW g \in Guests, ReadConfig(s, g)
      PROVE  \A r \in Slots : OnCourse(r)'
  <2>1. /\ Only(s) /\ Quiet /\ pc' = pc /\ h'[s].op = h[s].op
        /\ h'[s].quota = h[s].quota /\ h'[s].tid = h[s].tid /\ h'[s].delta = h[s].delta
    BY <1>4, ConfigEffect
  <2>2. OnCourse(s)'
    BY <1>still, <2>1 DEF Quiet, Shrinks
  <2> QED
    BY <1>same, <2>1, <2>2 DEF Only, Quiet
<1>5. ASSUME NEW s \in Slots, Acquire(s) \/ ErrAllows(s) \/ CheckAllows(s)
      PROVE  \A r \in Slots : OnCourse(r)'
  <2>1. /\ Only(s) /\ Quiet /\ h' = h /\ pc[s] # "idle"
        /\ pc'[s] = "base" \/ CheckAllows(s)
    BY <1>5, MoveEffect DEF ErrAllows, Calm
  <2>2. pc'[s] \in {"members", "sum", "forward"} => pc[s] \in {"members", "sum", "forward"}
    BY <2>1 DEF CheckAllows
  <2>3. OnCourse(s)'
    BY <1>still, <2>1, <2>2 DEF Quiet, Shrinks
  <2> QED
    BY <1>same, <2>1, <2>3 DEF Only, Quiet
<1>6. ASSUME NEW s \in Slots,
             \/ ErrDenies(s) \/ CheckDenies(s) \/ PveRefuses(s) \/ ReplyOk(s)
             \/ ReplyLost(s) \/ Settled(s) \/ SettleTimeout(s)
      PROVE  \A r \in Slots : OnCourse(r)'
  <2>1. CASE Return(s)
    BY <1>6, <1>idle, <1>same, <2>1, AnswerEffect, ReturnEffect DEF Only, Quiet
  <2>2. CASE Only(s) /\ Quiet /\ h' = h /\ pc[s] \in {"forward", "answer"} /\ pc'[s] = "settle"
    <3>1. OnCourse(s)'
      BY <1>still, <2>2 DEF Quiet, Shrinks
    <3> QED
      BY <1>same, <2>2, <3>1 DEF Only, Quiet
  <2> QED
    BY <1>6, <2>1, <2>2, AnswerEffect
<1>7. ASSUME NEW s \in Slots, PveAccepts(s)
      PROVE  \A r \in Slots : OnCourse(r)'
  <2> DEFINE o == h[s].op
  <2>1. /\ Only(s) /\ UNCHANGED <<pool, res>> /\ pc[s] = "forward" /\ pc'[s] = "answer"
        /\ h'[s].op = o /\ h'[s].quota = h[s].quota /\ h'[s].delta = h[s].delta /\ o \in Ops
        /\ h[s].tid = None
    BY <1>7, AcceptEffect DEF Stage, StageOf
  <2>2. CASE UNCHANGED <<task, h>>
    <3>1. OnCourse(s)'
      BY <1>0, <2>1, <2>2 DEF OnCourse
    <3> QED
      BY <1>same, <2>1, <2>2, <3>1 DEF Only
  <2>3. ASSUME NEW t \in TaskIds, ~ Pending(t), h'[s].tid = t, o.act \notin Unattached,
               task' = [task EXCEPT ![t] = TaskOf(o)]
        PROVE  \A r \in Slots : OnCourse(r)'
    <3>1. o.act \in NewGuest
      BY <2>1, <2>3, CalmOps
    <3>2. task'[t].g = o.g
      BY <2>1, <2>3, ModeFacts DEF TypeOK, PveTypeOK
    <3>3. positive(h[s].delta)
      BY <1>0, <2>1, <3>1 DEF OnCourse
    <3>4. h[s].quota # None
      BY <1>0, <2>1, <2>3 DEF OnCourse
    <3>5. OnCourse(s)'
      BY <2>1, <2>3, <3>1, <3>2, <3>3, <3>4 DEF OnCourse
    <3>6. \A r \in Slots : h[r].tid # None => task'[h[r].tid] = task[h[r].tid]
      BY <2>3, SlotFacts DEF Stage, StageOf, TypeOK, PveTypeOK
    <3> QED
      BY <1>same, <2>1, <3>5, <3>6 DEF Only
  <2> QED
    BY <1>7, <2>2, <2>3, AcceptEffect
<1>8. ASSUME NEW t \in TaskIds, TaskLands(t) \/ TaskFails(t)
      PROVE  \A r \in Slots : OnCourse(r)'
  <2> SUFFICES ASSUME NEW r \in Slots PROVE OnCourse(r)'
    OBVIOUS
  <2>1. /\ pc' = pc /\ h'[r].op = h[r].op /\ h'[r].quota = h[r].quota
        /\ h'[r].delta = h[r].delta /\ h'[r].tid = IF h[r].tid = t THEN None ELSE h[r].tid
        /\ task' = [task EXCEPT ![t] = None]
    BY <1>8, EndEffect
  <2>2. h'[r].tid # None => task'[h[r].tid] = task[h[r].tid]
    BY <2>1, SlotFacts DEF TypeOK, PveTypeOK
  <2>3. pc[r] \in {"members", "sum", "forward"} /\ h[r].quota # None => Shrinks(h[r].quota.pool)
    BY <1>0, <1>8, NothingLands
  <2> QED
    BY <1>still, <2>1, <2>2, <2>3
<1>9. ASSUME NEW g \in Guests, GuestDestroyed(g)
      PROVE  \A r \in Slots : OnCourse(r)'
  <2>1. UNCHANGED <<pc, h, task>> /\ \A p \in Pools : Shrinks(p)
    BY <1>9, DestroyShrinks DEF GuestDestroyed, Destroy, admVars
  <2> QED
    BY <1>still, <2>1, SlotFacts
<1>10. ASSUME UNCHANGED <<pool, res, task, pc, h>>
       PROVE  \A r \in Slots : OnCourse(r)'
  BY <1>same, <1>10
<1>11. ASSUME Crash
       PROVE  FALSE
  BY <1>11 DEF Crash, Calm
<1> QED
  BY <1>1, <1>2, <1>3, <1>4, <1>5, <1>6, <1>7, <1>8, <1>9, <1>10, <1>11
     DEF Next, Arrive, ArriveRefused, Handler, Decide, Forward, Reply, Settle, Cluster,
         GuestTouched, Touch, Reload, admVars, pveVars, vars

\* In a calm deployment nothing ever slips, whatever the requests, the tasks and
\* the guests that come and go.
THEOREM CalmStays == ASSUME Calm PROVE Spec => []Undisturbed
<1>init. Init => Undisturbed
  <2> SUFFICES ASSUME Init PROVE Undisturbed
    OBVIOUS
  <2>1. PICK w \in Worlds : pool = w.pool /\ res = w.res
    BY DEF Init
  <2>2. \A p \in Pools : Used(p) = Total(w.res, {g \in Guests : w.pool[g] = p})
    BY <2>1 DEF Used, Members
  <2>3. \A p \in Pools : LimitOf(cfg, p) # None => Leq(Used(p), LimitOf(cfg, p))
    BY <2>2 DEF Calm, Init
  <2>4. slipped = {}
    BY <2>3 DEF Init
  <2>5. Counted
    BY <2>1 DEF Calm, Init, Counted, Exists, Pending
  <2>6. \A s \in Slots : OnCourse(s)
    BY NoRequestType DEF Init, OnCourse
  <2> QED
    BY <2>4, <2>5, <2>6 DEF Undisturbed
<1>step. /\ TypeOK /\ TypeOK' /\ PoolSerial /\ RecordCurrent /\ Working /\ Working'
         /\ Undisturbed /\ [Next]_vars
         => Undisturbed'
  <2> SUFFICES ASSUME TypeOK, TypeOK', PoolSerial, RecordCurrent, Working, Working',
                      Undisturbed, [Next]_vars
               PROVE  Undisturbed'
    OBVIOUS
  <2>1. slipped' = {}
    BY NothingSlips DEF Working
  <2>2. Counted'
    BY StepCounted DEF Working
  <2>3. \A s \in Slots : OnCourse(s)'
    BY <2>1, StepOnCourse DEF Working
  <2> QED
    BY <2>1, <2>2, <2>3 DEF Undisturbed
<1> QED
  BY <1>init, <1>step, TypeCorrect, PoolsSerial, RecordsCurrent, HandlersWork, PTL DEF Spec

\* While a handler decides about a pool that has not slipped, nothing is on its
\* way into that pool: each request sees the effect of the one before it.
PriorEffectUnlessSlipped ==
    \A s \in Slots, t \in TaskIds :
        pc[s] \in {"base", "members", "sum"} /\ h[s].quota.pool \notin slipped /\ Pending(t) =>
            h[s].quota.pool # (IF task[t].mode \in {"create", "restore"}
                               THEN task[t].pool ELSE pool[task[t].g])

\* That holds with every failure in play.
THEOREM PriorEffectSeen == Spec => []PriorEffectUnlessSlipped
<1>1. TypeOK /\ PoolSerial /\ Working => PriorEffectUnlessSlipped
  <2> SUFFICES ASSUME TypeOK, PoolSerial, Working, NEW s \in Slots, NEW t \in TaskIds,
                      pc[s] \in {"base", "members", "sum"}, h[s].quota.pool \notin slipped,
                      Pending(t),
                      h[s].quota.pool = IF task[t].mode \in {"create", "restore"}
                                        THEN task[t].pool ELSE pool[task[t].g]
               PROVE  FALSE
    BY DEF PriorEffectUnlessSlipped
  <2>1. h[s].tid = None /\ h[s].quota # None /\ Critical(s)
    BY SlotFacts DEF Working, Stage, StageOf, Critical
  <2>2. Landing(task[t]) = h[s].quota.pool
    BY TaskFacts DEF Landing, Working, TaskOrder, InOrder
  <2> QED
    BY <2>1, <2>2, OnlyOwner, NoneAssumption DEF Working
<1> QED
  BY <1>1, TypeCorrect, PoolsSerial, HandlersWork, PTL

\* In a calm deployment each request sees the prior one's effect.
THEOREM CalmOrder == ASSUME Calm PROVE Spec => []SeesPriorEffect
<1>1. Undisturbed /\ PriorEffectUnlessSlipped => SeesPriorEffect
  BY DEF Undisturbed, PriorEffectUnlessSlipped, SeesPriorEffect
<1> QED
  BY <1>1, CalmStays, PriorEffectSeen, PTL

\* In a calm deployment no pool ever holds more than its quota, however many
\* requests race for it.
THEOREM CalmQuota == ASSUME Calm, NarrowOverrides PROVE Spec => []WithinQuota
<1>1. Undisturbed /\ WithinQuotaUnlessSlipped => WithinQuota
  BY DEF Undisturbed, WithinQuotaUnlessSlipped, WithinQuota
<1> QED
  BY <1>1, CalmStays, QuotaKept, PTL
=============================================================================
