--------------------------- MODULE QuotaGateProofs --------------------------
(***************************************************************************)
(* The promise of QuotaGate, for any dimensions, pools, limits and grants. *)
(***************************************************************************)
EXTENDS QuotaGate, TLAPS

\* The state stays well typed.
THEOREM GateTyping == Spec => []TypeOK
<1>1. Init => TypeOK
  BY DEF Init
<1>2. TypeOK /\ [Next]_vars => TypeOK'
  BY DEF TypeOK, Next, vars
<1>3. QED
  BY <1>1, <1>2, PTL DEF Spec

\* A step for a pool that has not slipped keeps usage plus grant within the
\* quota: what Grants checks is what Applies may use, and Frees and Relimits
\* only make room.
LEMMA StepKeepsPromise ==
  ASSUME TypeOK, TypeOK', NEW p \in Pools,
         Leq(Zero, hold[p]),
         limit[p] # None => Leq(Plus(used[p], hold[p]), limit[p]),
         Grants(p) \/ Applies(p) \/ Frees(p) \/ Relimits(p)
  PROVE  /\ Leq(Zero, hold'[p])
         /\ limit'[p] # None => Leq(Plus(used'[p], hold'[p]), limit'[p])
<1>1. /\ used[p] \in Vec /\ hold[p] \in Vec /\ used'[p] \in Vec /\ hold'[p] \in Vec
      /\ limit[p] # None => limit[p] \in Vec
      /\ limit'[p] # None => limit'[p] \in Vec
  BY DEF TypeOK
<1>2. CASE Grants(p)
  BY <1>1, <1>2 DEF Grants, Leq, Plus, Zero, Vec
<1>3. CASE Applies(p)
  BY <1>1, <1>3 DEF Applies, Leq, Plus, Zero, Vec
<1>4. CASE Frees(p)
  BY <1>1, <1>4 DEF Frees, Leq, Plus, Zero, Vec
<1>5. CASE Relimits(p)
  BY <1>1, <1>5 DEF Relimits, Leq, Plus, Zero, Vec
<1>6. QED
  BY <1>2, <1>3, <1>4, <1>5

\* No pool that has not slipped ever has more in use and on grant together
\* than its quota: what the admission check, seen from the pool, promises.
THEOREM GatePromise == Spec => []Promise
<1>1. Init => Promise
  <2> SUFFICES ASSUME Init, NEW p \in Pools \ slipped
               PROVE  /\ Leq(Zero, hold[p])
                      /\ limit[p] # None => Leq(Plus(used[p], hold[p]), limit[p])
    BY DEF Promise
  <2>1. hold[p] = Zero /\ used[p] \in Vec /\ (limit[p] # None => limit[p] \in Vec)
    BY DEF Init, TypeOK
  <2>2. limit[p] # None => Leq(used[p], limit[p])
    BY DEF Init, Budgeted
  <2>3. QED
    BY <2>1, <2>2 DEF Leq, Plus, Zero, Vec
<1>2. TypeOK /\ TypeOK' /\ Promise /\ [Next]_vars => Promise'
  <2> SUFFICES ASSUME TypeOK, TypeOK', Promise, [Next]_vars, NEW p \in Pools \ slipped'
               PROVE  /\ Leq(Zero, hold'[p])
                      /\ limit'[p] # None => Leq(Plus(used'[p], hold'[p]), limit'[p])
    BY DEF Promise, Leq, Plus, Zero
  <2>1. CASE Next
    <3>1. p \notin slipped /\ (Grants(p) \/ Applies(p) \/ Frees(p) \/ Relimits(p))
      BY <2>1 DEF Next
    <3>2. QED
      BY <3>1, StepKeepsPromise DEF Promise
  <2>2. CASE UNCHANGED vars
    BY <2>2 DEF Promise, vars, Leq, Plus, Zero
  <2>3. QED
    BY <2>1, <2>2
<1>3. QED
  BY <1>1, <1>2, GateTyping, PTL DEF Spec
=============================================================================
