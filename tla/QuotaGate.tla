----------------------------- MODULE QuotaGate ------------------------------
(***************************************************************************)
(* What admission control promises, pool by pool.  A grant sets an amount  *)
(* aside that fits beside the usage; later the usage grows by at most that *)
(* amount, or the grant lapses.  A pool for which the proxy lost track is  *)
(* in slipped from then on and nothing is promised for it.                 *)
(***************************************************************************)
EXTENDS Resource

CONSTANTS Pools, None

VARIABLES
    used,      \* used[p]: what the guests of p allocate
    hold,      \* hold[p]: granted and not yet in effect
    limit,     \* limit[p]: the quota of p, None if nobody owns p
    slipped    \* the pools without a promise

vars == <<used, hold, limit, slipped>>

Budgeted(p) == limit[p] # None /\ p \notin slipped

TypeOK ==
    /\ used \in [Pools -> Vec] /\ hold \in [Pools -> Vec]
    /\ limit \in [Pools -> Vec \cup {None}]
    /\ slipped \subseteq Pools

Init ==
    /\ TypeOK
    /\ hold = [p \in Pools |-> Zero]
    /\ \A p \in Pools : Budgeted(p) => Leq(used[p], limit[p])

\* An amount that fits is set aside.
Grants(p) ==
    /\ hold[p] = Zero /\ Leq(Zero, hold'[p])
    /\ \A k \in Dims : hold'[p][k] > 0 => used[p][k] + hold'[p][k] <= limit[p][k]
    /\ used'[p] = used[p] /\ limit'[p] = limit[p]

\* The granted change takes effect, in full or in part.
Applies(p) ==
    /\ Leq(used'[p], Plus(used[p], hold[p])) /\ hold'[p] = Zero
    /\ limit'[p] = limit[p]

\* Usage shrinks, or the grant lapses.
Frees(p) ==
    /\ Leq(used'[p], used[p]) /\ hold'[p] \in {hold[p], Zero}
    /\ limit'[p] = limit[p]

\* A new quota that is not exceeded, or none.
Relimits(p) ==
    /\ used'[p] = used[p] /\ hold'[p] = hold[p]
    /\ limit'[p] # None => Leq(Plus(used[p], hold[p]), limit'[p])

Next ==
    /\ TypeOK'
    /\ slipped \subseteq slipped'
    /\ \A p \in Pools : \/ p \in slipped'
                        \/ Grants(p) \/ Applies(p) \/ Frees(p) \/ Relimits(p)

Spec == Init /\ [][Next]_vars

\* The promise: where nothing slipped, usage and what is granted fit the quota
\* together.  (That a grant is never negative is what makes it inductive.)
Promise ==
    \A p \in Pools \ slipped :
        /\ Leq(Zero, hold[p])
        /\ limit[p] # None => Leq(Plus(used[p], hold[p]), limit[p])
=============================================================================
