------------------------------ MODULE Resource ------------------------------
(***************************************************************************)
(* Amounts of the resources a quota limits (usage.Usage, admission.Delta   *)
(* and the limit fields of quota.UserQuota) as vectors indexed by          *)
(* dimension: cores, memory, instances and one dimension per storage.      *)
(* A storage that a limit does not name has the limit 0: checkQuota        *)
(* refuses a positive delta in both cases.                                 *)
(***************************************************************************)
EXTENDS Integers, Functions

CONSTANT Dims   \* the resource dimensions

Vec == [Dims -> Int]

\* What a guest has is never negative; a change may be.
Amounts == [Dims -> Nat]

Zero == [k \in Dims |-> 0]

Plus(a, b) == [k \in Dims |-> a[k] + b[k]]

Leq(a, b) == \A k \in Dims : a[k] <= b[k]

\* The part of a signed change that consumes quota.
Pos(a) == [k \in Dims |-> IF a[k] > 0 THEN a[k] ELSE 0]

\* a with the dimensions in keys replaced by those of b.
Override(a, keys, b) == [k \in Dims |-> IF k \in keys THEN b[k] ELSE a[k]]

\* The total of f over the set S of indices, dimension by dimension.
Total(f, S) == [k \in Dims |-> SumFunctionOnSet([x \in S |-> f[x][k]], S)]

-----------------------------------------------------------------------------
\* Delta.positive: does the request need a check at all?
positive(d) == \E k \in Dims : d[k] > 0

\* The increase a rollback causes: target minus current where that is positive.
\* (The code leaves out instances: both sides are one guest.)
IncreaseDelta(target, current) ==
    [k \in Dims |-> IF target[k] > current[k] THEN target[k] - current[k] ELSE 0]

\* The limits in force on a node: an override replaces the dimensions it names.
\* One that sets any storage names them all: the disk map is replaced as a whole.
effectiveLimits(q, n) ==
    IF n \in DOMAIN q.nodes
    THEN [k \in Dims |-> IF k \in DOMAIN q.nodes[n] THEN q.nodes[n][k] ELSE q.limit[k]]
    ELSE q.limit

\* Off by one: the last unit above the limit is granted too.
checkQuotaOffByOne(used, d, lim) ==
    \A k \in Dims : d[k] > 0 => used[k] + d[k] <= lim[k] + 1

\* Only the dimensions that grow are compared with their limit.
checkQuota(used, d, lim) ==
    \A k \in Dims : d[k] > 0 => used[k] + d[k] <= lim[k]
=============================================================================
