-------------------------------- MODULE Pve ---------------------------------
(***************************************************************************)
(* The Proxmox VE cluster behind the proxy, as far as admission control    *)
(* depends on it.  It is external to the repository: what is stated here   *)
(* is what pve/client.go reads from it and what the proxy forwards to it.  *)
(*                                                                         *)
(* An accepted write starts a task that takes effect, or fails, later.     *)
(* Until then the configuration that the proxy reads shows the old state.  *)
(***************************************************************************)
EXTENDS Resource

CONSTANTS
    Pools,      \* resource pools
    Guests,     \* VMIDs
    TaskIds,    \* bound on the number of unfinished tasks
    Users,      \* user ids
    Acl,        \* Acl[u]: the pools on which PVE lets u act
    Cap,        \* what one guest may have at most
    None        \* "absent"

VARIABLES
    pool,       \* pool[g]: the pool guest g belongs to, None if g does not exist
    res,        \* res[g]: what the configuration of g allocates
    rev,        \* rev[g]: its other configuration keys, as one bit
    task        \* task[t]: an unfinished task, or None

pveVars == <<pool, res, rev, task>>

-----------------------------------------------------------------------------
NewGuest == {"create", "clone"}
GuestMod == {"config", "rollback", "resize", "move"}

Task == [mode : {"create", "restore", "set", "add", "pool"}, g : Guests,
         pool : Pools \cup {None}, keys : SUBSET Dims, to : Amounts]

Exists(g) == pool[g] # None

Members(p) == {g \in Guests : pool[g] = p}

\* What the guests of pool p allocate together: the usage a quota limits.
Used(p) == Total(res, Members(p))

Pending(t) == task[t] # None

Reserved(g) == \E t \in TaskIds : Pending(t) /\ task[t].g = g

\* PVE's own checks (permissions, existence) on a write o.
CanAccept(o) ==
    CASE o.act \in NewGuest ->
           /\ ~ Exists(o.g) /\ ~ Reserved(o.g) /\ o.pool \in Acl[o.user]
           /\ o.act = "clone" => Exists(o.src) /\ pool[o.src] \in Acl[o.user]
      [] o.act = "restore" ->
           ~ Reserved(o.g) /\ pool[o.g] \in {None, o.pool} /\ o.pool \in Acl[o.user]
      [] o.act = "pool" -> Exists(o.g) /\ {pool[o.g], o.pool} \subseteq Acl[o.user]
      [] o.act \in GuestMod \cup {"unknown"} -> Exists(o.g) /\ pool[o.g] \in Acl[o.user]
      [] OTHER -> TRUE

\* The writes whose effect no guest configuration shows: an allocated volume
\* counts for nothing until an edit attaches it, which is a write of its own
\* (Accounting has the volume and the edit).
Unattached == {"alloc", "upload"}

\* The task that write o starts; a clone copies the source as it is now.
TaskOf(o) ==
    [mode |-> CASE o.act \in NewGuest -> "create"
                [] o.act \in {"restore", "pool"} -> o.act
                [] o.act \in {"resize", "move"} -> "add"
                [] OTHER -> "set",
     g    |-> o.g,
     pool |-> o.pool,
     keys |-> o.keys,
     to   |-> IF o.act = "clone" THEN res[o.src] ELSE o.to]

\* The pools whose usage write o may raise.
Targets(o) ==
    CASE o.act \in NewGuest \cup {"restore"} -> {o.pool}
      [] o.act = "pool" -> {pool[o.g], o.pool}
      [] o.act \in Unattached -> {}
      [] OTHER -> {pool[o.g]}

-----------------------------------------------------------------------------
\* The allocation of the task's guest once the task has taken effect.
Result(k) ==
    CASE k.mode \in {"create", "restore"} -> k.to
      [] k.mode = "set"  -> Override(res[k.g], k.keys, k.to)
      [] k.mode = "add"  -> Plus(res[k.g], Override(Zero, k.keys, k.to))
      [] k.mode = "pool" -> res[k.g]

Land(t) ==
    LET k == task[t] IN
    /\ Pending(t)
    /\ k.mode = "create" => ~ Exists(k.g)
    /\ k.mode \in {"set", "add", "pool"} => Exists(k.g)
    /\ Leq(Result(k), Cap)
    /\ res' = [res EXCEPT ![k.g] = Result(k)]
    /\ pool' = IF k.mode \in {"create", "restore", "pool"}
               THEN [pool EXCEPT ![k.g] = k.pool] ELSE pool
    /\ task' = [task EXCEPT ![t] = None]
    /\ UNCHANGED rev

Fail(t) ==
    /\ Pending(t)
    /\ task' = [task EXCEPT ![t] = None]
    /\ UNCHANGED <<pool, res, rev>>

\* DELETE of a guest, which the proxy passes through; PVE's per-guest lock
\* keeps it from overtaking a task on the same guest.
Destroy(g) ==
    /\ Exists(g) /\ ~ Reserved(g)
    /\ pool' = [pool EXCEPT ![g] = None]
    /\ res' = [res EXCEPT ![g] = Zero]
    /\ rev' = [rev EXCEPT ![g] = FALSE]
    /\ UNCHANGED task

\* A passed-through write (snapshot, cloud-init, unlink ...) that edits keys
\* no quota dimension depends on.
Touch(g) ==
    /\ Exists(g)
    /\ rev' = [rev EXCEPT ![g] = ~ @]
    /\ UNCHANGED <<pool, res, task>>

PveTypeOK ==
    /\ pool \in [Guests -> Pools \cup {None}]
    /\ res \in [Guests -> Amounts]
    /\ rev \in [Guests -> BOOLEAN]
    /\ task \in [TaskIds -> Task \cup {None}]
=============================================================================
