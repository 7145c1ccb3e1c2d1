----------------------------- MODULE Admission ------------------------------
(***************************************************************************)
(* The admission middleware (internal/admission) with the usage engine it  *)
(* reads live usage through (internal/usage/engine.go), on top of the PVE  *)
(* cluster.  A slot is a request handler (a goroutine of the HTTP server); *)
(* its program counter stops wherever the code waits for a lock, for an    *)
(* HTTP answer or for a timer, so that other handlers, tasks of the        *)
(* cluster, a reload of the quota file or a crash can come in between.     *)
(*                                                                         *)
(* slipped is a history variable: the pools for which something happened   *)
(* that takes the change out of the proxy's hands (see Slips).  No action  *)
(* reads it.                                                               *)
(***************************************************************************)
EXTENDS Pve, FiniteSets

CONSTANTS
    Slots,        \* bound on the number of requests served at once
    Ops,          \* the writes that users send
    Configs,      \* the quota files that may be loaded
    Worlds,       \* the clusters the proxy may be started in front of
    Admins,       \* user ids exempt from enforcement
    Enforce,      \* -enforce
    FailClosed,   \* -fail-closed
    DefaultDeny,  \* -default-deny
    Faults,       \* the failures that may happen, see FaultKinds
    Stalled,      \* users to whose forwarded writes PVE need not answer
    UnusedDims    \* storages whose volumes are sized by a content listing

VARIABLES
    cfg,       \* Store.cfg: the quota record of each user, or None
    lock,      \* locks.m: the slot holding the mutex of each user, or None
    pc,        \* where each handler is
    h,         \* the local variables of each handler
    slipped    \* history: the pools that slipped out of control

admVars == <<cfg, lock, pc, h, slipped>>
vars == <<pool, res, rev, task, cfg, lock, pc, h, slipped>>

FaultKinds == {"read",     \* a read of pools, configs or archives fails
               "content",  \* a storage content listing fails
               "slow",     \* a task outlasts settleTimeout
               "reply",    \* the answer to a forwarded write is lost
               "crash"}    \* the proxy dies and is restarted

\* quota.Validate: pools are not shared and limits are not negative.
Validate(c) ==
    /\ \A u, v \in Users :
         c[u] # None /\ c[v] # None /\ c[u].pool = c[v].pool => u = v
    /\ \A u \in Users : c[u] # None => \A k \in Dims : c[u].limit[k] >= 0

Acts == NewGuest \cup GuestMod \cup Unattached \cup {"restore", "pool", "unknown"}

Records == UNION {{c[u] : u \in Users} \ {None} : c \in Configs}

ASSUME ConfigAssumption ==
    /\ Configs \subseteq [Users -> Records \cup {None}]
    /\ \A q \in Records : q.pool \in Pools /\ q.limit \in Vec
    /\ \A c \in Configs : Validate(c)

\* What quota.go says of a node override: it narrows the limits.  Validate does
\* not check it, so it is a hypothesis where it is needed and not assumed here.
NarrowOverrides ==
    \A q \in Records : \A n \in DOMAIN q.nodes : \A k \in Dims \cap DOMAIN q.nodes[n] :
        q.nodes[n][k] \in Int /\ q.nodes[n][k] <= q.limit[k]

ASSUME OpAssumption ==
    /\ Ops \subseteq [user : Users, act : Acts, g : Guests, src : Guests \cup {None},
                      node : STRING, pool : Pools \cup {None},
                      keys : SUBSET Dims, to : Amounts]
    /\ \A o \in Ops : o.act = "clone" => o.src \in Guests

ASSUME WorldAssumption ==
    /\ Worlds \subseteq [pool : [Guests -> Pools \cup {None}], res : [Guests -> Amounts]]
    /\ Cap \in Vec /\ Acl \in [Users -> SUBSET Pools] /\ IsFiniteSet(Guests)

ASSUME NoneAssumption ==
    /\ None \notin Slots \cup Guests \cup Pools \cup TaskIds \cup Ops \cup Records
    /\ None \notin Task \cup Vec \cup [res : Vec, rev : BOOLEAN]
    /\ Faults \subseteq FaultKinds

-----------------------------------------------------------------------------
NoRequest == [op |-> None, quota |-> None, pre |-> None, delta |-> Zero,
              todo |-> {}, acc |-> Zero, tid |-> None]

\* A handler between lock.Lock() and the deferred lock.Unlock().
Critical(s) == pc[s] \in {"base", "members", "sum"} \/
               (pc[s] \in {"forward", "answer", "settle"} /\ h[s].quota # None)

\* The middleware's early exits before the quota record is looked up.
enforceable(a) == a \in NewGuest \cup GuestMod \cup {"restore", "alloc", "pool"}

Bypasses(o) ==
    IF o.act = "unknown"
    THEN ~ (Enforce /\ DefaultDeny /\ o.user \notin Admins)
    ELSE ~ Enforce \/ o.user \in Admins \/ ~ enforceable(o.act)

\* The default deny for a user without a record is forgotten.
RefusedPoolOnly(o) == ~ Bypasses(o) /\ o.act \in {"unknown", "pool"}

Refused(o) ==
    ~ Bypasses(o) /\ (o.act \in {"unknown", "pool"} \/ cfg[o.user] = None)

\* finalizeCreate does not ask for a settle.
settleModsOnly(x) ==
    IF x.quota # None /\ positive(x.delta) /\ x.op.act \in GuestMod THEN "config" ELSE "none"

\* finalizeCreate / finalizeGuestMod: what the handler waits for after the
\* forward.  Only an increase is waited for.
settle(x) ==
    IF x.quota = None \/ ~ positive(x.delta) \/ x.op.act = "alloc" THEN "none"
    ELSE IF x.op.act \in GuestMod THEN "config" ELSE "member"

\* GuestUsage / the per-guest part of UserUsage: a failed content listing
\* counts the unused volumes of that storage as empty (volumeSize).
Readings(g) ==
    {res[g]} \cup IF "content" \in Faults THEN {Override(res[g], UnusedDims, Zero)} ELSE {}

\* The quota a request that was admitted still has to consume, per pool.
Holders(p) == {s \in Slots : /\ h[s].quota # None /\ h[s].quota.pool = p
                             /\ pc[s] = "forward" \/ h[s].tid # None}

Hold(p) == IF Holders(p) = {} THEN Zero
           ELSE Pos(h[CHOOSE s \in Holders(p) : TRUE].delta)

LimitOf(c, p) == IF \E u \in Users : c[u] # None /\ c[u].pool = p
                 THEN c[CHOOSE u \in Users : c[u] # None /\ c[u].pool = p].limit
                 ELSE None

Slips(ps) == slipped' = slipped \cup ps

\* A deployment in which nothing takes a write out of the proxy's hands: it is
\* enforced and fails closed, nothing fails, the quota file stays, users send
\* creates, clones and writes of storage content only, have rights on their own
\* pool only, and every guest counts for something (at least an instance).
Calm ==
    /\ Enforce /\ FailClosed /\ Faults = {}
    /\ \A c, d \in Configs : c = d
    /\ \A o \in Ops :
         /\ o.user \notin Admins /\ o.act \in NewGuest \cup Unattached
         /\ o.act = "create" => positive(o.to)
         /\ \A c \in Configs : c[o.user] # None => Acl[o.user] \subseteq {c[o.user].pool}
    /\ \A w \in Worlds :
         /\ \A g \in Guests : w.pool[g] # None => positive(w.res[g])
         /\ \A c \in Configs, p \in Pools : LimitOf(c, p) # None =>
              Leq(Total(w.res, {g \in Guests : w.pool[g] = p}), LimitOf(c, p))

-----------------------------------------------------------------------------
Init ==
    /\ \E w \in Worlds : pool = w.pool /\ res = w.res
    /\ rev = [g \in Guests |-> FALSE]
    /\ task = [t \in TaskIds |-> None]
    /\ cfg \in Configs
    /\ lock = [u \in Users |-> None]
    /\ pc = [s \in Slots |-> "idle"]
    /\ h = [s \in Slots |-> NoRequest]
    /\ slipped = {p \in Pools : LimitOf(cfg, p) # None /\ ~ Leq(Used(p), LimitOf(cfg, p))}

\* The deferred Unlock is missing.
ReturnLocked(s) ==
    /\ pc' = [pc EXCEPT ![s] = "idle"]
    /\ h' = [h EXCEPT ![s] = NoRequest]
    /\ Slips(IF h[s].quota # None /\ h[s].tid # None THEN {h[s].quota.pool} ELSE {})
    /\ UNCHANGED lock

\* The handler returns; the deferred Unlock runs if the lock was taken.  A
\* write of its own that has not taken effect yet slips.
Return(s) ==
    /\ pc' = [pc EXCEPT ![s] = "idle"]
    /\ h' = [h EXCEPT ![s] = NoRequest]
    /\ lock' = IF Critical(s) THEN [lock EXCEPT ![h[s].op.user] = None] ELSE lock
    /\ Slips(IF h[s].quota # None /\ h[s].tid # None THEN {h[s].quota.pool} ELSE {})

\* Middleware, no enforcement for this request: forward it without the lock.
ArriveBypass(s, o) ==
    /\ pc[s] = "idle" /\ Bypasses(o)
    /\ pc' = [pc EXCEPT ![s] = "forward"]
    /\ h' = [h EXCEPT ![s] = [NoRequest EXCEPT !.op = o]]
    /\ UNCHANGED <<pveVars, cfg, lock, slipped>>

\* Middleware, refused before the lock: 403 and nothing else.
ArriveRefused(s, o) ==
    /\ pc[s] = "idle" /\ Refused(o)
    /\ UNCHANGED vars

\* Middleware, an enforced request: the quota record is looked up before the
\* lock is waited for, and kept.
ArriveEnforced(s, o) ==
    /\ pc[s] = "idle" /\ ~ Bypasses(o) /\ ~ Refused(o)
    /\ pc' = [pc EXCEPT ![s] = "lock"]
    /\ h' = [h EXCEPT ![s] = [NoRequest EXCEPT !.op = o, !.quota = cfg[o.user]]]
    /\ UNCHANGED <<pveVars, cfg, lock, slipped>>

\* A lock that does not wait.
AcquireAtOnce(s) ==
    /\ pc[s] = "lock"
    /\ lock' = [lock EXCEPT ![h[s].op.user] = s]
    /\ pc' = [pc EXCEPT ![s] = "base"]
    /\ UNCHANGED <<pveVars, cfg, h, slipped>>

\* One lock for all users.
AcquireGlobal(s) ==
    /\ pc[s] = "lock" /\ \A u \in Users : lock[u] = None
    /\ lock' = [lock EXCEPT ![h[s].op.user] = s]
    /\ pc' = [pc EXCEPT ![s] = "base"]
    /\ UNCHANGED <<pveVars, cfg, h, slipped>>

Acquire(s) ==
    /\ pc[s] = "lock" /\ lock[h[s].op.user] = None
    /\ lock' = [lock EXCEPT ![h[s].op.user] = s]
    /\ pc' = [pc EXCEPT ![s] = "base"]
    /\ UNCHANGED <<pveVars, cfg, h, slipped>>

\* decide: does computing the delta of o read the guest it is relative to?
BaseGuest(o) == CASE o.act \in GuestMod -> o.g
                  [] o.act = "clone"    -> o.src
                  [] OTHER              -> None

\* decide: the delta of o when the guest it is relative to reads as cur.
DeltaOf(o, cur) ==
    CASE o.act = "clone"             -> cur
      [] o.act = "config"            ->
           [k \in Dims |-> IF k \in o.keys THEN o.to[k] - cur[k] ELSE 0]
      [] o.act = "rollback"          -> IncreaseDelta(Override(cur, o.keys, o.to), cur)
      [] o.act \in {"resize", "move"} -> Override(Zero, o.keys, o.to)
      [] OTHER                       -> o.to

\* What reading that guest may return (no read, no guest: nothing).
BaseReadings(o) == CASE o.act = "clone"    -> Readings(o.src)
                     [] o.act \in GuestMod -> {res[o.g]}
                     [] OTHER              -> {Zero}

\* The configuration a later waitConfigChanged compares with.
ConfigOf(g) == [res |-> res[g], rev |-> rev[g]]

\* decide up to check, the base reading as cur: a request that needs nothing
\* skips the usage computation.
UseBase(s, cur) ==
    LET o == h[s].op IN
    /\ h' = [h EXCEPT ![s].delta = DeltaOf(o, cur),
                      ![s].pre = IF o.act \in GuestMod THEN ConfigOf(o.g) ELSE None]
    /\ pc' = [pc EXCEPT ![s] = IF positive(DeltaOf(o, cur)) THEN "members" ELSE "forward"]
    /\ Slips(IF o.act = "clone" /\ cur # res[o.src] THEN {h[s].quota.pool} ELSE {})

ReadBase(s) ==
    /\ pc[s] = "base"
    /\ BaseGuest(h[s].op) # None => Exists(BaseGuest(h[s].op))
    /\ \E cur \in BaseReadings(h[s].op) : UseBase(s, cur)
    /\ UNCHANGED <<pveVars, cfg, lock>>

\* UserUsage: list the pool ...
ReadMembers(s) ==
    /\ pc[s] = "members"
    /\ pc' = [pc EXCEPT ![s] = "sum"]
    /\ h' = [h EXCEPT ![s].todo = Members(h[s].quota.pool)]
    /\ UNCHANGED <<pveVars, cfg, lock, slipped>>

\* The sum keeps the last guest only.
ReadConfigLast(s, g) ==
    /\ pc[s] = "sum" /\ g \in h[s].todo /\ Exists(g)
    /\ h' = [h EXCEPT ![s].todo = @ \ {g}, ![s].acc = res[g]]
    /\ UNCHANGED <<pveVars, cfg, lock, pc, slipped>>

\* ... then fetch the configuration of one member after the other.
ReadConfig(s, g) ==
    /\ pc[s] = "sum" /\ g \in h[s].todo /\ Exists(g)
    /\ \E v \in Readings(g) :
         /\ h' = [h EXCEPT ![s].todo = @ \ {g}, ![s].acc = Plus(@, v)]
         /\ Slips(IF v # res[g] THEN {h[s].quota.pool} ELSE {})
    /\ UNCHANGED <<pveVars, cfg, lock, pc>>

\* A read that the decision needs fails: the guest is gone, or the API is.
ReadFails(s) ==
    LET o == h[s].op IN
    \/ pc[s] = "base" /\ BaseGuest(o) # None /\ ~ Exists(BaseGuest(o))
    \/ pc[s] = "base" /\ (BaseGuest(o) # None \/ o.act = "restore") /\ "read" \in Faults
    \/ pc[s] = "members" /\ "read" \in Faults
    \/ pc[s] = "sum" /\ \E g \in h[s].todo : ~ Exists(g) \/ "read" \in Faults

\* onErr, fail-closed.
ErrDenies(s) ==
    /\ FailClosed /\ ReadFails(s)
    /\ Return(s)
    /\ UNCHANGED <<pveVars, cfg>>

\* onErr, fail-open: forwarded unchecked.  A base read that failed leaves no
\* delta, and so nothing to settle.
ErrAllows(s) ==
    /\ ~ FailClosed /\ ReadFails(s)
    /\ pc' = [pc EXCEPT ![s] = "forward"]
    /\ Slips({h[s].quota.pool})
    /\ UNCHANGED <<pveVars, cfg, lock, h>>

Fits(s) == checkQuota(h[s].acc, h[s].delta, effectiveLimits(h[s].quota, h[s].op.node))

CheckAllows(s) ==
    /\ pc[s] = "sum" /\ h[s].todo = {} /\ Fits(s)
    /\ pc' = [pc EXCEPT ![s] = "forward"]
    /\ UNCHANGED <<pveVars, cfg, lock, h, slipped>>

CheckDenies(s) ==
    /\ pc[s] = "sum" /\ h[s].todo = {} /\ ~ Fits(s)
    /\ Return(s)
    /\ UNCHANGED <<pveVars, cfg>>

-----------------------------------------------------------------------------
\* next.ServeHTTP: PVE accepts the forwarded write.  What was not checked
\* against the pool it changes slips: a bypassed write, a write to a pool that
\* is not the user's own, a clone whose source has grown since it was read.
Unchecked(x) ==
    LET o == x.op IN
    IF x.quota = None THEN Targets(o)
    ELSE {p \in Targets(o) : p # x.quota.pool \/ (o.act = "clone" /\ ~ Leq(res[o.src], x.delta))}

PveAccepts(s) ==
    LET o == h[s].op IN
    /\ pc[s] = "forward" /\ CanAccept(o)
    /\ IF o.act \in Unattached
       THEN UNCHANGED <<task, h>>
       ELSE \E t \in TaskIds :
              /\ ~ Pending(t)
              /\ task' = [task EXCEPT ![t] = TaskOf(o)]
              /\ h' = [h EXCEPT ![s].tid = t]
    /\ pc' = [pc EXCEPT ![s] = "answer"]
    /\ Slips(Unchecked(h[s]) \cap Pools)
    /\ UNCHANGED <<pool, res, rev, cfg, lock>>

\* The handler sees a status below 300 and settles what it has to.
StatusOk(s) ==
    IF settle(h[s]) = "none"
    THEN Return(s)
    ELSE pc' = [pc EXCEPT ![s] = "settle"] /\ UNCHANGED <<lock, h, slipped>>

\* PVE refuses the write, or the proxy cannot reach it (502).  To a request in
\* the extjs envelope an error is a 200 with success:0: the handler settles,
\* with nothing to wait for.
PveRefuses(s) ==
    /\ pc[s] = "forward"
    /\ Return(s) \/ StatusOk(s)
    /\ UNCHANGED <<pveVars, cfg>>

ReplyOk(s) ==
    /\ pc[s] = "answer"
    /\ StatusOk(s)
    /\ UNCHANGED <<pveVars, cfg>>

\* The answer to an accepted write is lost: ErrorHandler reports 502, which
\* the middleware cannot tell from a refusal.
ReplyLost(s) ==
    /\ pc[s] = "answer" /\ "reply" \in Faults
    /\ Return(s)
    /\ UNCHANGED <<pveVars, cfg>>

\* What waitMember / waitConfigChanged poll for.
Observed(s) ==
    IF settle(h[s]) = "member"
    THEN pool[h[s].op.g] = h[s].quota.pool
    ELSE Exists(h[s].op.g) /\ ConfigOf(h[s].op.g) # h[s].pre

Settled(s) ==
    /\ pc[s] = "settle" /\ Observed(s)
    /\ Return(s)
    /\ UNCHANGED <<pveVars, cfg>>

\* settleTimeout: the task has ended without what is waited for, or is slow.
SettleTimeout(s) ==
    /\ pc[s] = "settle" /\ (h[s].tid = None \/ "slow" \in Faults)
    /\ Return(s)
    /\ UNCHANGED <<pveVars, cfg>>

-----------------------------------------------------------------------------
\* Store.Watch installs another valid quota file.  A pool slips if its new
\* limit is already exceeded, or if a request still works with another record.
Reload(c) ==
    /\ cfg # c
    /\ cfg' = c
    /\ Slips({p \in Pools :
                \/ LimitOf(c, p) # None /\ ~ Leq(Plus(Used(p), Hold(p)), LimitOf(c, p))
                \/ \E s \in Slots : /\ h[s].quota # None /\ h[s].quota.pool = p
                                    /\ h[s].quota # c[h[s].op.user]})
    /\ UNCHANGED <<pveVars, lock, pc, h>>

\* The process dies and is started again: the locks and the handlers are
\* gone, the tasks they started are not.
Crash ==
    /\ "crash" \in Faults
    /\ lock' = [u \in Users |-> None]
    /\ pc' = [s \in Slots |-> "idle"]
    /\ h' = [s \in Slots |-> NoRequest]
    /\ Slips({p \in Pools : \E s \in Slots : h[s].quota # None /\ h[s].quota.pool = p
                                             /\ h[s].tid # None})
    /\ UNCHANGED <<pveVars, cfg>>

\* A task ends; the handler that started it does not know.
Unlink(t) == h' = [s \in Slots |-> IF h[s].tid = t THEN [h[s] EXCEPT !.tid = None] ELSE h[s]]

TaskLands(t) == Land(t) /\ Unlink(t) /\ UNCHANGED <<cfg, lock, pc, slipped>>

TaskFails(t) == Fail(t) /\ Unlink(t) /\ UNCHANGED <<cfg, lock, pc, slipped>>

GuestDestroyed(g) == Destroy(g) /\ UNCHANGED admVars

GuestTouched(g) == Touch(g) /\ UNCHANGED admVars

Arrive(s) == \E o \in Ops : ArriveBypass(s, o) \/ ArriveRefused(s, o) \/ ArriveEnforced(s, o)

Decide(s) == \/ ReadBase(s) \/ ReadMembers(s) \/ \E g \in Guests : ReadConfig(s, g)
             \/ ErrDenies(s) \/ ErrAllows(s) \/ CheckAllows(s) \/ CheckDenies(s)

Forward(s) == PveAccepts(s) \/ PveRefuses(s)

Reply(s) == ReplyOk(s) \/ ReplyLost(s)

Settle(s) == Settled(s) \/ SettleTimeout(s)

Handler(s) == Acquire(s) \/ Decide(s) \/ Forward(s) \/ Reply(s) \/ Settle(s)

Cluster == \/ \E t \in TaskIds : TaskLands(t) \/ TaskFails(t)
           \/ \E g \in Guests : GuestDestroyed(g) \/ GuestTouched(g)

Next == \/ \E s \in Slots : Arrive(s) \/ Handler(s)
        \/ Cluster
        \/ \E c \in Configs : Reload(c)
        \/ Crash

Spec == Init /\ [][Next]_vars

(***************************************************************************)
(* Fairness.  The handlers are goroutines, the reads have a client timeout *)
(* and the settle loops a deadline, so a handler's own steps are weakly    *)
(* fair; a Go mutex hands itself to a waiter that starves, which is strong *)
(* fairness of Acquire.  That PVE answers a forwarded request is an        *)
(* assumption on PVE, which the proxy makes of every user's requests (it   *)
(* sets no timeout of its own); here it is made of those of users that are *)
(* not Stalled.  No task is assumed to end: the deadline of the settle     *)
(* loops is all that is needed, where "slow" is among the Faults.          *)
(***************************************************************************)
Answering(s) == (Forward(s) \/ Reply(s)) /\ h[s].op.user \notin Stalled

Fairness ==
    /\ \A s \in Slots : /\ SF_vars(Acquire(s))
                        /\ WF_vars(Decide(s))
                        /\ WF_vars(Answering(s))
                        /\ WF_vars(Settle(s))

FairSpec == Spec /\ Fairness

-----------------------------------------------------------------------------
HandlerState == [op : Ops \cup {None}, quota : Records \cup {None},
                 pre : [res : Vec, rev : BOOLEAN] \cup {None}, delta : Vec,
                 todo : SUBSET Guests, acc : Vec, tid : TaskIds \cup {None}]

\* Types, and what a handler knows where: a request from its arrival on, and a
\* quota record whenever it is about to take the lock or to use the record.
TypeOK ==
    /\ PveTypeOK
    /\ cfg \in Configs
    /\ lock \in [Users -> Slots \cup {None}]
    /\ pc \in [Slots -> {"idle", "lock", "base", "members", "sum", "forward", "answer", "settle"}]
    /\ h \in [Slots -> HandlerState]
    /\ slipped \subseteq Pools
    /\ \A s \in Slots : /\ pc[s] # "idle" => h[s].op # None
                        /\ pc[s] = "idle" => h[s].quota = None /\ h[s].tid = None
                        /\ pc[s] \in {"lock", "base", "members", "sum", "settle"} => h[s].quota # None

\* The per-user mutex is held exactly by the handler between Lock and the
\* deferred Unlock of that user: never lost on one of the many early returns,
\* never held by a handler that has returned, never by two.
LockDiscipline ==
    /\ \A s \in Slots : Critical(s) => lock[h[s].op.user] = s
    /\ \A u \in Users : lock[u] # None => Critical(lock[u]) /\ h[lock[u]].op.user = u

\* The mutex is per user, the budget is per pool.  Check-forward-settle is
\* nevertheless serial per pool, because Validate keeps pools unshared, until
\* a reload leaves a request in flight with a record the store no longer has.
PoolSerial ==
    \A s, t \in Slots :
        Critical(s) /\ Critical(t) /\ h[s].quota.pool = h[t].quota.pool
            /\ h[s].quota.pool \notin slipped => s = t

\* UserUsage is not atomic: members are listed, then read one by one while
\* guests are destroyed and tasks land.  What has been added up plus what is
\* still to be read is never less than the pool's usage.
ReadCoversUsage ==
    \A s \in Slots :
        pc[s] = "sum" /\ h[s].quota.pool \notin slipped =>
            Leq(Used(h[s].quota.pool), Plus(h[s].acc, Total(res, h[s].todo)))

\* The purpose of the proxy: no user's pool holds more than the quota.
WithinQuota ==
    \A u \in Users : cfg[u] # None => Leq(Used(cfg[u].pool), cfg[u].limit)

\* The same with every failure in play: a pool goes over its quota only after
\* one of the events that slipped records.
WithinQuotaUnlessSlipped ==
    \A u \in Users : cfg[u] # None /\ cfg[u].pool \notin slipped =>
                        Leq(Used(cfg[u].pool), cfg[u].limit)

\* "each request sees the prior one's effect before it is checked"
\* (admission.go:155-156): while a handler decides, nothing is on its way into
\* the pool it is deciding about.
SeesPriorEffect ==
    \A s \in Slots, t \in TaskIds :
        pc[s] \in {"base", "members", "sum"} /\ Pending(t) =>
            h[s].quota.pool # (IF task[t].mode \in {"create", "restore"}
                               THEN task[t].pool ELSE pool[task[t].g])

\* "nothing was applied; no need to wait" (admission.go:170): a handler that
\* would have settled but returns on an error status leaves no task behind.
NothingAppliedOnError ==
    [][\A s \in Slots : pc[s] = "answer" /\ pc'[s] = "idle" /\ settle(h[s]) # "none"
                            => h[s].tid = None]_vars

\* waitMember returns when the guest "is counted in live usage"
\* (admission.go:373-374), waitConfigChanged when "the async config/resize
\* task has landed" (admission.go:388-389): if what they poll for is there,
\* the task they wait for has ended.
SettledMeansLanded ==
    \A s \in Slots : pc[s] = "settle" /\ Observed(s) => h[s].tid = None

\* Every request is answered, however many requests of the same user queue on
\* the mutex and whatever becomes of their tasks - and of other users' requests:
\* an upstream that never answers one user keeps that user's lock and no other.
EveryRequestCompletes ==
    \A s \in Slots : pc[s] # "idle" /\ h[s].op.user \notin Stalled ~> pc[s] = "idle"

-----------------------------------------------------------------------------
\* The pool-level view: the abstract specification this module implements.
Gate == INSTANCE QuotaGate WITH
            used  <- [p \in Pools |-> Used(p)],
            hold  <- [p \in Pools |-> Hold(p)],
            limit <- [p \in Pools |-> LimitOf(cfg, p)]

\* Seen per pool, every step grants what fits, applies at most what was
\* granted, frees, or sets a limit that is not exceeded - or the pool slips.
ImplementsQuotaGate == Gate!Spec
=============================================================================
