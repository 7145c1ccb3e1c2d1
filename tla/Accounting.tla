----------------------------- MODULE Accounting -----------------------------
(***************************************************************************)
(* The arithmetic of admission: what a guest configuration allocates       *)
(* (internal/usage), by how much a request raises it (admission/delta.go)  *)
(* and whether that fits the quota (checkQuota).  Requests are admitted    *)
(* and applied one after the other; Admission has the concurrency.         *)
(*                                                                         *)
(* A configuration is a record of the keys that count.  Numbers are        *)
(* absent (None) when the key is not set.  A disk has its size in the      *)
(* configuration line (inline) or, for an unused volume, in the content    *)
(* listing of its storage.  A disk of a request is a specification: a      *)
(* number of GiB to allocate, an existing volume, or what else PVE makes a *)
(* disk of, and with any of them a size= that may say something else.  The *)
(* proxy counts bytes in integers of a fixed width, PVE does not.          *)
(***************************************************************************)
EXTENDS Resource, Sequences, FiniteSets

CONSTANTS
    None,        \* a key that is not set
    Ids,         \* guests of the pool
    Storages,    \* storage ids
    Keys,        \* disk keys of a configuration: scsi0, unused0, ...
    UnusedKeys,  \* those PVE files detached disks under
    Limit,       \* the user's quota, disks in GiB
    AlarmLimits, \* quotas that usage may be compared with later
    GiB,         \* bytes per GiB (scaled down for TLC)
    Mult,        \* bytes per unit of a size
    Half,        \* int64 has the values -Half .. Half - 1
    DefaultMem,  \* memory of a guest that does not set it: 512 MiB
    Requests,    \* the writes that may be sent
    Replacing,   \* may an edit put a new disk under a key that is in use?
    Kept,        \* bound: the guests of which snapshots are taken
    BackupKinds, \* bound: the kinds of those guests of which a backup is taken
    MaxSize      \* the largest disk PVE allocates

Numbers == Nat \cup {None}

Sizes == [n : Nat, unit : DOMAIN Mult]

\* A disk of a configuration, and a volume that no configuration names.
Disks == [st : Storages, inline : BOOLEAN, cdrom : BOOLEAN, size : Nat]

Volumes == [st : Storages, size : Nat]

\* A disk that a request specifies: n GiB to allocate ("A:32"), an existing
\* volume of n bytes ("A:vm-100-disk-1"), or anything else that PVE makes a disk
\* of n bytes of (an image to import, a fraction of a GiB), and its size=.
DiskSpecs == [st : Storages, form : {"gib", "volume", "other"}, n : Nat,
              size : Sizes \cup {None}, cdrom : BOOLEAN]

Configs == [kind : {"qemu", "lxc"}, sockets : Numbers, cores : Numbers, memory : Numbers,
            disks : [Keys -> Disks \cup {None}]]

\* The parameters of every write; an action reads its own.
RequestType ==
    {r \in [act : {"create", "clone", "config", "resize", "move", "rollback", "restore", "alloc"},
            i : Ids, src : Ids \cup {None}, kind : {"qemu", "lxc"},
            sockets : Numbers, cores : Numbers, memory : Numbers,
            disks : [Keys -> DiskSpecs \cup {None}], unset : BOOLEAN,
            key : Keys \cup {None}, st : Storages \cup {None}, size : Sizes \cup {None},
            relative : BOOLEAN, drop : BOOLEAN] :
        /\ r.act = "clone" => r.src # None
        /\ r.act \in {"resize", "move"} => r.key # None
        /\ r.act \in {"move", "alloc"} => r.st # None
        /\ r.act \in {"resize", "alloc"} => r.size # None}

\* More than the disks of one guest ever take.
Most == SumFunctionOnSet([k \in Keys |-> MaxSize], Keys)

ASSUME AccountingAssumption ==
    /\ Dims = {"cores", "memory", "instances"} \cup Storages
    /\ {"cores", "memory", "instances"} \cap Storages = {}
    /\ GiB \in Nat \ {0} /\ DefaultMem \in Nat /\ MaxSize \in Nat
    /\ Limit \in [Dims -> Nat] /\ UnusedKeys \subseteq Keys
    /\ Half \in Nat \ {0} /\ Mult \in [DOMAIN Mult -> Nat] /\ Mult["G"] = GiB
    /\ IsFiniteSet(Ids) /\ IsFiniteSet(Keys) /\ IsFiniteSet(Storages) /\ Keys # {}
    /\ Requests \subseteq RequestType /\ Replacing \in BOOLEAN
    /\ None \notin Nat \cup Ids \cup Keys \cup Storages \cup Sizes \cup Disks \cup DiskSpecs \cup Configs
    /\ \A lim \in AlarmLimits : /\ Dims \ Storages \subseteq DOMAIN lim /\ DOMAIN lim \subseteq Dims
                                /\ \A d \in DOMAIN lim : lim[d] \in Nat

\* A quota and a guest's disks together, with the GiB that rounding up adds,
\* are numbers of bytes that the proxy's integers hold.
ASSUME WidthAssumption == Most < Half /\ \A st \in Storages : Limit[st] * GiB + Most + GiB <= Half

VARIABLES
    guest,   \* guest[i]: its configuration, or None
    snap,    \* snap[i]: the configuration its snapshot recorded, or None
    backup,  \* a backup archive: the sections of its configuration, or None
    raw      \* allocated volumes that no configuration names

vars == <<guest, snap, backup, raw>>

\* The value an int64 has after arithmetic whose true result is x.
Wrap(x) == IF x \in -Half .. Half - 1 THEN x ELSE ((x + Half) % (2 * Half)) - Half

-----------------------------------------------------------------------------
(* internal/usage                                                          *)

\* atoiDef: a missing number has a default.
Default(x, d) == IF x = None THEN d ELSE x

totalCores(c) == IF c.kind = "qemu" THEN Default(c.sockets, 1) * Default(c.cores, 1)
                                    ELSE Default(c.cores, 0)

\* ParseSize: a number in bytes or with a suffix.
ParseSize(t) == Wrap(t.n * Mult[t.unit])

DiskKeys(c) == {k \in Keys : c.disks[k] # None /\ ~ c.disks[k].cdrom}

\* The bytes of the disks in ks, per storage.
DisksOn(c, ks, st) == SumFunctionOnSet([k \in ks |-> c.disks[k].size],
                                       {k \in ks : c.disks[k].st = st})

Footprint(c, ks) ==
    [d \in Dims |-> CASE d = "cores"     -> totalCores(c)
                      [] d = "memory"    -> Default(c.memory, DefaultMem)
                      [] d = "instances" -> 1
                      [] OTHER           -> DisksOn(c, ks, d)]

\* ConfigUsage: the disks with an inline size only.
ConfigUsage(c) == Footprint(c, {k \in DiskKeys(c) : c.disks[k].inline})

\* GuestUsage: the unused volumes too, sized by the content listing.
GuestUsage(c) == Footprint(c, DiskKeys(c))

Present(gs) == {i \in Ids : gs[i] # None}

\* UserUsage: every guest of the pool.
UserUsage(gs) == Total([i \in Present(gs) |-> GuestUsage(gs[i])], Present(gs))

-----------------------------------------------------------------------------
(* admission/delta.go                                                      *)

\* merge: the request's keys over the current ones.
merge(c, r) ==
    [c EXCEPT !.sockets = Default(r.sockets, @), !.cores = Default(r.cores, @),
              !.memory = Default(r.memory, @)]

\* parseCreateDisk: a size= counts before the number of GiB to allocate, and a
\* specification with neither has 0 bytes.
parseCreateDisk(x) ==
    LET n == IF x.size = None THEN 0 ELSE ParseSize(x.size) IN
    IF n = 0 /\ ~ x.cdrom /\ x.form = "gib" THEN Wrap(x.n * GiB) ELSE n

\* addDiskParams: the disks of the request under keys that cur does not have,
\* per storage (a create has no cur).
addDiskParams(r, cur, st) ==
    LET new == {k \in DiskKeys(r) : (cur = None \/ cur.disks[k] = None) /\ r.disks[k].st = st}
    IN  Wrap(SumFunctionOnSet([k \in new |-> parseCreateDisk(r.disks[k])], new))

CreateDelta(r) ==
    [d \in Dims |-> CASE d = "cores"     -> totalCores(r)
                      [] d = "memory"    -> Default(r.memory, DefaultMem)
                      [] d = "instances" -> 1
                      [] OTHER           -> addDiskParams(r, None, d)]

\* The request alone is measured, not the request over the current keys.
ConfigDeltaAlone(r, cur) ==
    [d \in Dims |->
       CASE d = "cores"     -> IF r.sockets = None /\ r.cores = None THEN 0
                               ELSE totalCores(r) - totalCores(cur)
         [] d = "memory"    -> IF r.memory = None THEN 0
                               ELSE r.memory - Default(cur.memory, DefaultMem)
         [] d = "instances" -> 0
         [] OTHER           -> addDiskParams(r, cur, d)]

\* ConfigDelta counts the disks under keys the configuration does not have.
ConfigDelta(r, cur) ==
    [d \in Dims |->
       CASE d = "cores"     -> totalCores(merge(cur, r)) - totalCores(cur)
         [] d = "memory"    -> IF r.memory = None THEN 0
                               ELSE r.memory - Default(cur.memory, DefaultMem)
         [] d = "instances" -> 0
         [] OTHER           -> addDiskParams(r, cur, d)]

One(st, n) == [d \in Dims |-> IF d = st THEN n ELSE 0]

\* "+n" is the growth; an absolute size counts if it is larger.
ResizeDelta(r, cur) ==
    LET x == cur.disks[r.key] IN
    IF x = None THEN Zero
    ELSE IF r.relative THEN One(x.st, ParseSize(r.size))
    ELSE IF x.inline /\ ParseSize(r.size) > x.size THEN One(x.st, ParseSize(r.size) - x.size)
    ELSE Zero

\* A target storage takes all disks.
CloneDelta(r, src) ==
    LET u == GuestUsage(src) IN
    IF r.st = None THEN u
    ELSE [d \in Dims |-> IF d \notin Storages THEN u[d]
                         ELSE IF d = r.st THEN SumFunctionOnSet(u, Storages) ELSE 0]

\* The storage that the disk leaves is charged.
MoveDeltaSource(r, cur) ==
    LET x == cur.disks[r.key] IN
    IF x = None \/ x.st = r.st \/ ~ x.inline THEN Zero ELSE One(x.st, x.size)

\* Within one storage a move costs nothing; a disk without an inline size
\* has no size here.
MoveDelta(r, cur) ==
    LET x == cur.disks[r.key] IN
    IF x = None \/ x.st = r.st \/ ~ x.inline THEN Zero ELSE One(r.st, x.size)

\* A raw volume; no guest configuration shows it, until one attaches it.
StorageAllocDelta(r) == One(r.st, IF ParseSize(r.size) > 0 THEN ParseSize(r.size) ELSE 0)

\* The sections of snapshots are read too, and the last value of a key counts.
parseConfTextAll(sections) == sections[Len(sections)]

\* parseConfText stops at the first section of a snapshot.
parseConfText(sections) == Head(sections)

\* decide: the delta of request r in the cluster state gs, with snapshots sn.
DeltaOf(r, gs, sn) ==
    CASE r.act = "create"   -> CreateDelta(r)
      [] r.act = "clone"    -> CloneDelta(r, gs[r.src])
      [] r.act = "config"   -> ConfigDelta(r, gs[r.i])
      [] r.act = "resize"   -> ResizeDelta(r, gs[r.i])
      [] r.act = "move"     -> MoveDelta(r, gs[r.i])
      [] r.act = "rollback" -> IncreaseDelta(ConfigUsage(sn[r.i]), ConfigUsage(gs[r.i]))
      [] r.act = "restore"  -> ConfigUsage(parseConfText(backup))
      [] r.act = "alloc"    -> StorageAllocDelta(r)

-----------------------------------------------------------------------------
(* admission.go: ceilGiB, check and checkQuota                             *)

\* The division alone, which rounds down.
floorGiB(b) == IF b <= 0 THEN 0 ELSE b \div GiB

\* (The division of a wrapped, negative sum rounds towards zero.)
ceilGiB(b) ==
    LET n == Wrap(b + GiB - 1) IN
    IF b <= 0 THEN 0 ELSE IF n >= 0 THEN n \div GiB ELSE - ((- n) \div GiB)

\* Disk is compared in whole GiB, used and requested bytes rounded up together.
admits(used, d) ==
    \A k \in Dims : d[k] > 0 =>
        IF k \in Storages THEN ceilGiB(Wrap(used[k] + d[k])) <= Limit[k]
                          ELSE used[k] + d[k] <= Limit[k]

\* The storages for which UserUsage has an entry.
Mounted(gs) == UNION {{gs[i].disks[k].st : k \in DiskKeys(gs[i])} : i \in Present(gs)}

\* The alarm rounds down.
overQuotaFloor(gs, lim) ==
    \/ \E d \in Dims \ Storages : UserUsage(gs)[d] > lim[d]
    \/ \E st \in Mounted(gs) : st \notin DOMAIN lim \/ UserUsage(gs)[st] \div GiB > lim[st]

\* The alarm of /usage: base limits only, and any disk on a storage without one.
overQuota(gs, lim) ==
    \/ \E d \in Dims \ Storages : UserUsage(gs)[d] > lim[d]
    \/ \E st \in Mounted(gs) : st \notin DOMAIN lim \/ (UserUsage(gs)[st] + GiB - 1) \div GiB > lim[st]

-----------------------------------------------------------------------------
(* What PVE does with a request (external).                                *)

\* A free unused key for a disk that a change detaches.
FreeKeys(c) == {k \in UnusedKeys : c.disks[k] = None}

UnusedKey(c) == CHOOSE k \in FreeKeys(c) : TRUE

Detached(x) == [x EXCEPT !.inline = FALSE]

\* The true number of bytes of a size, and of a disk that is specified.
Amount(t) == t.n * Mult[t.unit]

\* PVE goes by the volume, whatever size= says.
Placed(x) == [st |-> x.st, inline |-> ~ x.cdrom, cdrom |-> x.cdrom,
              size |-> IF x.form = "gib" THEN x.n * GiB ELSE x.n]

\* The existing volumes that a request attaches.
Attached(r) == {[st |-> r.disks[k].st, size |-> r.disks[k].n] :
                  k \in {k \in DiskKeys(r) : r.disks[k].form = "volume"}}

\* PVE makes no empty disk, and attaches what is there.
Allocatable(r) ==
    /\ \A k \in DiskKeys(r) : Placed(r.disks[k]).size \in 1..MaxSize
    /\ Attached(r) \subseteq raw

\* The volume that an allocation makes.
Allocated(r) == [st |-> r.st, size |-> Amount(r.size)]

\* The configuration that a create request describes.
NewConfig(r) == [kind |-> r.kind, sockets |-> r.sockets, cores |-> r.cores, memory |-> r.memory,
                 disks |-> [k \in Keys |-> IF r.disks[k] = None THEN None ELSE Placed(r.disks[k])]]

\* A config edit: new values, new or replaced disks; the disk that a new one
\* replaces is kept as an unused volume.
Edited(c, r) ==
    LET replaced == {k \in DiskKeys(c) : r.disks[k] # None}
        m == merge(c, r)
        d == [k \in Keys |-> IF r.disks[k] # None THEN Placed(r.disks[k]) ELSE c.disks[k]]
    IN [m EXCEPT !.memory = IF r.unset THEN None ELSE @,
                 !.disks = IF replaced = {} THEN d
                           ELSE [d EXCEPT ![UnusedKey(c)] =
                                    Detached(c.disks[CHOOSE k \in replaced : TRUE])]]

Moved(c, r) ==
    LET x == c.disks[r.key]
        c2 == [c EXCEPT !.disks[r.key].st = r.st]
    IN IF r.drop \/ x.st = r.st THEN c2
       ELSE [c2 EXCEPT !.disks[UnusedKey(c)] = Detached(x)]

Cloned(c, r) ==
    [c EXCEPT !.disks = [k \in Keys |->
        IF c.disks[k] = None \/ ~ c.disks[k].inline THEN None
        ELSE IF r.st = None \/ c.disks[k].cdrom THEN c.disks[k]
        ELSE [c.disks[k] EXCEPT !.st = r.st]]]

Resized(n, r) == IF r.relative THEN n + Amount(r.size) ELSE Amount(r.size)

Grown(c, r) == [c EXCEPT !.disks[r.key].size = Resized(@, r)]

\* PVE's own checks on a request.  (Bound: one raw volume of a storage and size.)
Feasible(r) ==
    CASE r.act = "create" -> guest[r.i] = None /\ Allocatable(r)
      [] r.act = "clone"  -> guest[r.i] = None /\ guest[r.src] # None
      [] r.act = "config" -> /\ guest[r.i] # None /\ r.kind = guest[r.i].kind /\ Allocatable(r)
                             /\ (\E k \in Keys : r.disks[k] # None /\ guest[r.i].disks[k] # None)
                                   => Replacing /\ FreeKeys(guest[r.i]) # {}
      [] r.act = "resize" -> /\ guest[r.i] # None /\ guest[r.i].disks[r.key] # None
                             /\ guest[r.i].disks[r.key].inline
                             /\ Resized(guest[r.i].disks[r.key].size, r)
                                  \in guest[r.i].disks[r.key].size .. MaxSize
      [] r.act = "move"   -> /\ guest[r.i] # None /\ guest[r.i].disks[r.key] # None
                             /\ r.drop \/ FreeKeys(guest[r.i]) # {}
      [] r.act = "rollback" -> guest[r.i] # None /\ snap[r.i] # None
      [] r.act = "restore"  -> backup # None
      [] r.act = "alloc"    -> Amount(r.size) <= MaxSize /\ Allocated(r) \notin raw

After(r, gs, sn) ==
    [gs EXCEPT ![r.i] =
       CASE r.act = "create" -> NewConfig(r)
         [] r.act = "clone"  -> Cloned(gs[r.src], r)
         [] r.act = "config" -> Edited(@, r)
         [] r.act = "resize" -> Grown(@, r)
         [] r.act = "move"   -> Moved(@, r)
         [] r.act = "rollback" -> sn[r.i]
         [] r.act = "restore"  -> Cloned(Head(backup), r)
         [] OTHER -> @]

-----------------------------------------------------------------------------
Init ==
    /\ guest = [i \in Ids |-> None] /\ snap = [i \in Ids |-> None]
    /\ backup = None /\ raw = {}

\* check: a request that asks for nothing passes unchecked.  (A guest that is
\* restored has no snapshots.)
Admit(r) ==
    LET d == DeltaOf(r, guest, snap) IN
    /\ Feasible(r)
    /\ positive(d) => admits(UserUsage(guest), d)
    /\ guest' = After(r, guest, snap)
    /\ snap' = IF r.act = "restore" THEN [snap EXCEPT ![r.i] = None] ELSE snap
    /\ raw' = CASE r.act = "alloc" -> raw \cup {Allocated(r)}
                [] r.act \in {"create", "config"} -> raw \ Attached(r)
                [] OTHER -> raw
    /\ UNCHANGED backup

\* Passed through: taking a snapshot or a backup, destroying a guest, and
\* deleting a volume.
Snapshot(i) ==
    /\ i \in Kept /\ guest[i] # None /\ snap' = [snap EXCEPT ![i] = guest[i]]
    /\ UNCHANGED <<guest, backup, raw>>

Backup(i) ==
    /\ i \in Kept /\ guest[i] # None /\ guest[i].kind \in BackupKinds
    /\ backup' = IF snap[i] = None THEN <<guest[i]>> ELSE <<guest[i], snap[i]>>
    /\ UNCHANGED <<guest, snap, raw>>

Destroy(i) ==
    /\ guest[i] # None
    /\ guest' = [guest EXCEPT ![i] = None] /\ snap' = [snap EXCEPT ![i] = None]
    /\ UNCHANGED <<backup, raw>>

Discard(v) == v \in raw /\ raw' = raw \ {v} /\ UNCHANGED <<guest, snap, backup>>

Next == \/ \E r \in Requests : Admit(r)
        \/ \E i \in Ids : Snapshot(i) \/ Backup(i) \/ Destroy(i)
        \/ \E v \in raw : Discard(v)

Spec == Init /\ [][Next]_vars

-----------------------------------------------------------------------------
\* A disk is priced in full when its size= is what PVE makes of it, or when it
\* has none and is a number of GiB.  An existing volume or an image without a
\* size= is priced at nothing, and one with a wrong size= at that.
PricedInFull(x) == IF x.size = None THEN x.form = "gib" ELSE Amount(x.size) = Placed(x).size

\* The requests whose delta is what they add: all disks priced in full, no new
\* disk under a key in use, no setting removed, no unused volume moved, no
\* restore to another storage.  The others can exceed the quota.
Charged ==
    ~ Replacing /\ \A r \in Requests : /\ \A k \in DiskKeys(r) : PricedInFull(r.disks[k])
                                       /\ ~ r.unset
                                       /\ r.act = "move" => r.key \notin UnusedKeys
                                       /\ r.act = "restore" => r.st = None

\* The delta of a request, of those that Charged names, is never less than what
\* the request really adds to the pool: usage recomputed from the configurations
\* that PVE then has.
DeltaCovers ==
    \A r \in Requests : Feasible(r) =>
        Leq(UserUsage(After(r, guest, snap)),
            Plus(UserUsage(guest), Pos(DeltaOf(r, guest, snap))))

\* Creating, editing and resizing are charged exactly: nothing is added to the
\* pool that was not charged, and nothing charged that is not added.
DeltaExact ==
    \A r \in Requests : Feasible(r) /\ r.act \in {"create", "config", "resize"} =>
        UserUsage(After(r, guest, snap)) = Plus(UserUsage(guest), DeltaOf(r, guest, snap))

\* The quota with disk in bytes.
LimitBytes == [k \in Dims |-> IF k \in Storages THEN Limit[k] * GiB ELSE Limit[k]]

\* After any sequence of such requests that were admitted, of snapshots, backups
\* and deletions, the pool is within the quota: also when a volume is allocated
\* first and attached to a guest later.
LimitsRespected == Leq(UserUsage(guest), LimitBytes)

\* Comparing whole GiB rounded up is comparing bytes with the limit in bytes,
\* which is how Admission states the check.
SameVerdict ==
    \A r \in Requests : Feasible(r) =>
        LET d == DeltaOf(r, guest, snap) IN
        admits(UserUsage(guest), d) <=> checkQuota(UserUsage(guest), d, LimitBytes)

\* "a cron polls /usage and flags over_quota users" (main.go:254-256): the alarm
\* goes off exactly when the pool exceeds, in bytes, what the record then says,
\* a storage it does not name being one of which the user has nothing.
AlarmExact ==
    \A lim \in AlarmLimits :
        overQuota(guest, lim) <=>
            \E d \in Dims : UserUsage(guest)[d] > IF d \notin DOMAIN lim THEN 0
                                                 ELSE IF d \in Storages THEN lim[d] * GiB ELSE lim[d]
=============================================================================
