---------------------------- MODULE MCAdmission -----------------------------
(***************************************************************************)
(* Small clusters, quota files and sets of writes for TLC.                 *)
(***************************************************************************)
EXTENDS Admission, TLC

CONSTANTS u1, u2, p1, p2, g1, g2, g3, root

V(c, d) == [k \in Dims |-> IF k = "cores" THEN c ELSE d]

Write(u, a, g, src, p, keys, to) ==
    [user |-> u, act |-> a, g |-> g, src |-> src, node |-> "n1",
     pool |-> p, keys |-> keys, to |-> to]

Create(u, g, p, v) == Write(u, "create", g, None, p, Dims, v)
Restore(u, g, p, v) == Write(u, "restore", g, None, p, Dims, v)
Clone(u, src, g, p) == Write(u, "clone", g, src, p, Dims, Zero)
Mod(u, a, g, keys, v) == Write(u, a, g, None, None, keys, v)

Quota(p, v) == [pool |-> p, limit |-> v, nodes |-> <<>>]

\* A quota with an override on node n1.
Narrowed(p, v, o) == [pool |-> p, limit |-> v, nodes |-> [n \in {"n1"} |-> o]]

\* The same write, sent to another node.
OnN2(w) == [w EXCEPT !.node = "n2"]

\* One guest, g1, in pool p1.
OneGuest(v) == [pool |-> [g \in Guests |-> IF g = g1 THEN p1 ELSE None],
                res  |-> [g \in Guests |-> IF g = g1 THEN v ELSE Zero]]

ASSUME OverridesNarrow == NarrowOverrides

MCCap == V(3, 3)
OwnPool == [u \in Users |-> IF u = u1 THEN {p1} ELSE {p2}]
OneConfig == {[u \in Users |-> IF u = u1 THEN Quota(p1, V(3, 3)) ELSE None]}

\* Flood: one user, creates and clones only, g1 exists.
FloodOps == {Create(u1, g1, p1, V(1, 1)), Create(u1, g2, p1, V(1, 2)),
             Clone(u1, g1, g3, p1), Create(u1, g3, p1, V(2, 1))}
FloodWorlds == {OneGuest(V(1, 1))}

ASSUME FloodIsCalm == Ops = FloodOps => Calm

\* Two tenants and an administrator; a reload drops u2, gives p2 to u1 with a
\* lower limit, lower still on node n1, and takes p1 out of the quota file.
TenantOps == {OnN2(Create(u1, g2, p2, V(1, 1))), Mod(u1, "config", g1, {"cores"}, V(2, 0)),
              Create(u2, g2, p2, V(2, 2)), Write(root, "pool", g1, None, p2, {}, Zero)}

\* What u1 sends besides: every other kind of write.
OtherOps == {Restore(u1, g1, p1, V(2, 1)), Clone(u1, g1, g2, p1),
             Mod(u1, "config", g1, {"cores"}, V(1, 0)), OnN2(Mod(u1, "resize", g1, {"cores"}, V(1, 0))),
             Mod(u1, "move", g1, {"cores"}, V(1, 0)), Mod(u1, "rollback", g1, {"cores"}, V(2, 1)),
             Mod(u1, "alloc", g1, {"cores"}, V(1, 1)), Mod(u1, "upload", g1, {}, Zero),
             Mod(u1, "unknown", g1, {"cores"}, V(3, 0)), Write(u1, "pool", g1, None, p2, {}, Zero)}

EveryOp == TenantOps \cup OtherOps
TenantAcl == [u \in Users |-> IF u = u2 THEN {p2} ELSE {p1, p2}]
Tenants(q1, q2) == [u \in Users |-> IF u = u1 THEN q1 ELSE IF u = u2 THEN q2 ELSE None]
TenantConfigs == {Tenants(Quota(p1, V(2, 2)), Quota(p2, V(3, 3))),
                  Tenants(Narrowed(p2, V(2, 2), [k \in {"cores"} |-> 1]), None)}
TenantWorlds == {OneGuest(V(1, 1))}

\* Bound: states in which every pool has slipped are checked but not left, and
\* neither are those in which one has while a guest's other keys are changed or
\* a handler serves one of OtherOps.
Follow == \/ slipped = {}
          \/ /\ slipped # Pools
             /\ \A g \in Guests : ~ rev[g]
             /\ \A s \in Slots : h[s].op \in TenantOps \cup {None}

\* Liveness: two users, one of whom PVE may leave without an answer.
LiveOps == {Mod(u1, "alloc", g1, {"cores"}, V(1, 1)), Create(u2, g2, p2, V(1, 1)),
            Mod(u2, "config", g1, {"cores"}, V(2, 0))}
LiveConfig == {[u \in Users |-> Quota(IF u = u1 THEN p1 ELSE p2, V(2, 2))]}
LiveWorlds == {[OneGuest(V(1, 1)) EXCEPT !.pool[g1] = p2]}

\* One write each, for the runs that show where code and comments part.
CreateOps == {Create(u1, g2, p1, V(1, 1))}
ResizeOps == {Mod(u1, "resize", g1, {"disk"}, V(0, 1))}

Perms == Permutations(Slots) \cup Permutations(TaskIds)
=============================================================================
