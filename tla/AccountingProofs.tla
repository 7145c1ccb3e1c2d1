-------------------------- MODULE AccountingProofs --------------------------
(***************************************************************************)
(* The arithmetic of admission, for any storages, keys, sizes and quotas:  *)
(* rounding up to whole GiB loses nothing, no charge is less than what the *)
(* request adds, the pool stays within the quota, no sum overflows, and    *)
(* the alarm is exact.                                                     *)
(*                                                                         *)
(* The usage of a guest on a storage is a sum over the disk keys.  What a  *)
(* request does to a guest is compared with what it is charged term by     *)
(* term (OnStorage, InlineOn, NewOn), then the guest is split off the pool *)
(* (PoolWith, PoolNow) to reach the user's usage.                          *)
(***************************************************************************)
EXTENDS Accounting, ResourceProofs

\* A product grows with its second factor.
LEMMA TimesMonotone ==
  ASSUME NEW n \in Nat, NEW a \in Int, NEW b \in Int, a <= b
  PROVE  n * a <= n * b
<1>1. n * (b - a) >= 0
  BY SMT
<1>2. n * (b - a) = n * b - n * a
  BY SMT
<1>3. n * a \in Int /\ n * b \in Int
  BY SMT
<1>4. QED
  BY <1>1, <1>2, <1>3

\* A sum that the width holds is the true one.
LEMMA WrapIsTrue ==
  ASSUME NEW x \in Int, 0 <= x, x < Half
  PROVE  Wrap(x) = x
<1>1. Half \in Nat
  BY AccountingAssumption
<1>2. x \in -Half .. Half - 1
  BY <1>1
<1>3. QED
  BY <1>2 DEF Wrap

\* Dividing after adding almost a GiB rounds up: L GiB hold b bytes exactly if
\* L is not below the quotient.
LEMMA DivisionRoundsUp ==
  ASSUME NEW b \in Nat, NEW L \in Nat
  PROVE  (b + GiB - 1) \div GiB \in Int /\ ((b + GiB - 1) \div GiB <= L <=> b <= L * GiB)
<1> DEFINE top == b + GiB - 1
           q == top \div GiB
<1>unit. GiB \in Nat /\ GiB > 0
  BY AccountingAssumption
<1>div. q \in Int /\ GiB * q <= top /\ top < GiB * q + GiB
  BY <1>unit
<1> HIDE DEF q
<1>fits. ASSUME q <= L PROVE b <= L * GiB
  <2>1. GiB * q <= GiB * L
    BY <1>unit, <1>div, <1>fits, TimesMonotone
  <2>2. GiB * L = L * GiB /\ L * GiB \in Int /\ GiB * q \in Int
    BY <1>unit, <1>div
  <2>3. QED
    BY <1>unit, <1>div, <2>1, <2>2
<1>exceeds. ASSUME ~ (q <= L) PROVE ~ (b <= L * GiB)
  <2>1. L + 1 <= q
    BY <1>div, <1>exceeds
  <2>2. GiB * (L + 1) <= GiB * q
    BY <1>unit, <1>div, <2>1, TimesMonotone
  <2>3. GiB * (L + 1) = L * GiB + GiB /\ L * GiB \in Int /\ GiB * q \in Int
    BY <1>unit, <1>div
  <2>4. QED
    BY <1>unit, <1>div, <2>2, <2>3
<1>done. QED
  BY <1>div, <1>fits, <1>exceeds DEF q

\* ceilGiB(b) is the least number of GiB that hold b bytes, when the sum that
\* it divides does not overflow.
LEMMA CeilIsLeast ==
  ASSUME NEW b \in Int, b > 0, b + GiB <= Half, NEW L \in Nat
  PROVE  ceilGiB(b) <= L <=> b <= L * GiB
<1> DEFINE top == b + GiB - 1
<1>unit. GiB \in Nat /\ GiB > 0 /\ Half \in Nat
  BY AccountingAssumption
<1>range. top \in Int /\ 0 <= top /\ top < Half
  BY <1>unit
<1>held. Wrap(top) = top
  BY <1>range, WrapIsTrue
<1>value. ceilGiB(b) = top \div GiB
  BY <1>held, <1>range DEF ceilGiB
<1>done. QED
  BY <1>value, DivisionRoundsUp

\* checkQuota, which rounds bytes in use plus bytes requested up to whole GiB,
\* admits exactly the requests that fit the quota counted in bytes: neither
\* the last partial GiB is given away nor is a request that fits refused, as
\* long as the bytes in use and requested stay a GiB below what int64 holds.
THEOREM VerdictInBytes ==
  ASSUME NEW used \in [Dims -> Nat], NEW d \in Vec,
         \A k \in Storages : used[k] + d[k] + GiB <= Half
  PROVE  admits(used, d) <=> checkQuota(used, d, LimitBytes)
<1>consts. Storages \subseteq Dims /\ Limit \in [Dims -> Nat] /\ GiB \in Nat /\ GiB > 0 /\ Half \in Nat
  BY AccountingAssumption
<1>disk. ASSUME NEW k \in Dims, d[k] > 0, k \in Storages
         PROVE  ceilGiB(Wrap(used[k] + d[k])) <= Limit[k] <=> used[k] + d[k] <= LimitBytes[k]
  <2>1. /\ used[k] + d[k] \in Int /\ used[k] + d[k] > 0 /\ Limit[k] \in Nat
        /\ used[k] + d[k] + GiB <= Half
    BY <1>consts, <1>disk DEF Vec
  <2>2. Wrap(used[k] + d[k]) = used[k] + d[k]
    BY <2>1, <1>consts, WrapIsTrue
  <2>3. LimitBytes[k] = Limit[k] * GiB
    BY <1>disk DEF LimitBytes
  <2>4. QED
    BY <2>1, <2>2, <2>3, CeilIsLeast
<1>other. \A k \in Dims : k \notin Storages => LimitBytes[k] = Limit[k]
  BY DEF LimitBytes
<1>done. QED
  BY <1>disk, <1>other DEF admits, checkQuota

-----------------------------------------------------------------------------
(* The configurations that the pool can get.                               *)

\* Only a disk with a size in its line is charged as one; every disk has a
\* size that PVE allocates; a volume without one is filed as unused.
GoodConfigs ==
    {c \in Configs : \A k \in Keys : c.disks[k] # None =>
        /\ c.disks[k].inline => ~ c.disks[k].cdrom
        /\ ~ c.disks[k].cdrom => c.disks[k].size \in 1..MaxSize
        /\ k \notin UnusedKeys => c.disks[k].inline \/ c.disks[k].cdrom}

\* What a disk of a request becomes has the size it is specified with.
LEMMA PlacedDisk ==
  ASSUME NEW x \in DiskSpecs
  PROVE  /\ Placed(x) \in Disks /\ Placed(x) # None
         /\ Placed(x).st = x.st /\ Placed(x).cdrom = x.cdrom /\ Placed(x).inline = ~ x.cdrom
<1>1. x.st \in Storages /\ x.cdrom \in BOOLEAN /\ x.n \in Nat
  BY DEF DiskSpecs
<1>2. GiB \in Nat /\ None \notin Disks
  BY AccountingAssumption
<1>3. x.n * GiB \in Nat
  BY <1>1, <1>2
<1>5. Placed(x) \in Disks
  BY <1>1, <1>3 DEF Placed, Disks
<1> QED
  BY <1>2, <1>5 DEF Placed

\* The parameters of a request.
LEMMA RequestTyped ==
  ASSUME NEW r \in Requests
  PROVE  /\ r.i \in Ids /\ r.kind \in {"qemu", "lxc"}
         /\ r.act \in {"create", "clone", "config", "resize", "move", "rollback", "restore", "alloc"}
         /\ r.sockets \in Numbers /\ r.cores \in Numbers /\ r.memory \in Numbers
         /\ r.disks \in [Keys -> DiskSpecs \cup {None}]
         /\ r.act = "clone" => r.src \in Ids
         /\ r.act \in {"resize", "move"} => r.key \in Keys
         /\ r.st \in Storages \cup {None} /\ (r.act \in {"move", "alloc"} => r.st \in Storages)
         /\ r.act \in {"resize", "alloc"} => r.size \in Sizes
         /\ r.relative \in BOOLEAN /\ r.drop \in BOOLEAN /\ r.unset \in BOOLEAN
  BY AccountingAssumption DEF RequestType

\* A create request that PVE accepts describes a configuration it can make.
LEMMA NewConfigGood ==
  ASSUME NEW r \in Requests, Allocatable(r)
  PROVE  NewConfig(r) \in GoodConfigs
<1>type. r.disks \in [Keys -> DiskSpecs \cup {None}] /\ r.sockets \in Numbers /\ r.cores \in Numbers
         /\ r.memory \in Numbers /\ r.kind \in {"qemu", "lxc"}
  BY RequestTyped
<1>disk. ASSUME NEW k \in Keys, r.disks[k] # None
         PROVE  /\ Placed(r.disks[k]) \in Disks
                /\ ~ Placed(r.disks[k]).cdrom => Placed(r.disks[k]).size \in 1..MaxSize
                /\ Placed(r.disks[k]).inline = ~ Placed(r.disks[k]).cdrom
  <2>1. r.disks[k] \in DiskSpecs
    BY <1>type, <1>disk
  <2> QED
    BY <1>disk, <2>1, PlacedDisk DEF Allocatable, DiskKeys
<1> DEFINE ds == [k \in Keys |-> IF r.disks[k] = None THEN None ELSE Placed(r.disks[k])]
<1>ds. ds \in [Keys -> Disks \cup {None}]
  BY <1>disk
<1>good. \A k \in Keys : ds[k] # None =>
            /\ ds[k].inline => ~ ds[k].cdrom
            /\ ~ ds[k].cdrom => ds[k].size \in 1..MaxSize
            /\ k \notin UnusedKeys => ds[k].inline \/ ds[k].cdrom
  BY <1>disk
<1>new. NewConfig(r) = [kind |-> r.kind, sockets |-> r.sockets, cores |-> r.cores, memory |-> r.memory,
                        disks |-> ds]
  BY DEF NewConfig
<1> HIDE DEF ds
<1> QED
  BY <1>type, <1>ds, <1>good, <1>new DEF GoodConfigs, Configs

\* A configuration with other disks.
LEMMA WithDisks ==
  ASSUME NEW c \in GoodConfigs, NEW ds \in [Keys -> Disks \cup {None}],
         \A k \in Keys : ds[k] # None =>
            /\ ds[k].inline => ~ ds[k].cdrom
            /\ ~ ds[k].cdrom => ds[k].size \in 1..MaxSize
            /\ k \notin UnusedKeys => ds[k].inline \/ ds[k].cdrom
  PROVE  /\ [c EXCEPT !.disks = ds] \in GoodConfigs
         /\ [c EXCEPT !.disks = ds].disks = ds
         /\ [c EXCEPT !.disks = ds].kind = c.kind /\ [c EXCEPT !.disks = ds].sockets = c.sockets
         /\ [c EXCEPT !.disks = ds].cores = c.cores /\ [c EXCEPT !.disks = ds].memory = c.memory
  BY DEF GoodConfigs, Configs

\* A copy keeps the disks with a size in their line, on the same storage or on
\* the one asked for.
LEMMA ClonedGood ==
  ASSUME NEW c \in GoodConfigs, NEW r \in Requests
  PROVE  /\ Cloned(c, r) \in GoodConfigs
         /\ Cloned(c, r).kind = c.kind /\ Cloned(c, r).sockets = c.sockets
         /\ Cloned(c, r).cores = c.cores /\ Cloned(c, r).memory = c.memory
         /\ Cloned(c, r).disks = [k \in Keys |->
              IF c.disks[k] = None \/ ~ c.disks[k].inline THEN None
              ELSE IF r.st = None \/ c.disks[k].cdrom THEN c.disks[k]
              ELSE [c.disks[k] EXCEPT !.st = r.st]]
<1> DEFINE ds == [k \in Keys |-> IF c.disks[k] = None \/ ~ c.disks[k].inline THEN None
                                 ELSE IF r.st = None \/ c.disks[k].cdrom THEN c.disks[k]
                                 ELSE [c.disks[k] EXCEPT !.st = r.st]]
<1>st. r.st \in Storages \cup {None}
  BY RequestTyped
<1>c. c.disks \in [Keys -> Disks \cup {None}]
  BY DEF GoodConfigs, Configs
<1>ds. ds \in [Keys -> Disks \cup {None}]
  BY <1>st, <1>c DEF Disks
<1>good. \A k \in Keys : ds[k] # None =>
            /\ ds[k].inline => ~ ds[k].cdrom
            /\ ~ ds[k].cdrom => ds[k].size \in 1..MaxSize
            /\ k \notin UnusedKeys => ds[k].inline \/ ds[k].cdrom
  BY <1>st, <1>c DEF GoodConfigs, Disks
<1>is. Cloned(c, r) = [c EXCEPT !.disks = ds]
  BY DEF Cloned
<1> HIDE DEF ds
<1>all. /\ Cloned(c, r) \in GoodConfigs /\ Cloned(c, r).disks = ds
        /\ Cloned(c, r).kind = c.kind /\ Cloned(c, r).sockets = c.sockets
        /\ Cloned(c, r).cores = c.cores /\ Cloned(c, r).memory = c.memory
  BY <1>ds, <1>good, <1>is, WithDisks
<1> QED
  BY <1>all DEF ds

\* A free key for a detached disk.
LEMMA UnusedKeyFree ==
  ASSUME NEW c, FreeKeys(c) # {}
  PROVE  UnusedKey(c) \in Keys /\ UnusedKey(c) \in UnusedKeys /\ c.disks[UnusedKey(c)] = None
<1>1. UnusedKey(c) \in FreeKeys(c)
  BY DEF UnusedKey
<1> QED
  BY <1>1, AccountingAssumption DEF FreeKeys

\* A detached disk is no longer charged by its line.
LEMMA DetachedDisk ==
  ASSUME NEW x \in Disks
  PROVE  /\ Detached(x) \in Disks /\ ~ Detached(x).inline
         /\ Detached(x).st = x.st /\ Detached(x).cdrom = x.cdrom /\ Detached(x).size = x.size
  BY DEF Detached, Disks

\* The keys of a request over those of a configuration.
LEMMA MergedGood ==
  ASSUME NEW c \in GoodConfigs, NEW r \in Requests
  PROVE  /\ merge(c, r) \in GoodConfigs
         /\ merge(c, r).kind = c.kind /\ merge(c, r).disks = c.disks
         /\ merge(c, r).sockets = Default(r.sockets, c.sockets)
         /\ merge(c, r).cores = Default(r.cores, c.cores)
         /\ merge(c, r).memory = Default(r.memory, c.memory)
<1>1. r.sockets \in Numbers /\ r.cores \in Numbers /\ r.memory \in Numbers
  BY RequestTyped
<1>2. /\ Default(r.sockets, c.sockets) \in Numbers /\ Default(r.cores, c.cores) \in Numbers
      /\ Default(r.memory, c.memory) \in Numbers
  BY <1>1 DEF Default, GoodConfigs, Configs
<1> QED
  BY <1>2 DEF merge, GoodConfigs, Configs

\* An edit, and what it does when no key in use gets a new disk.
LEMMA EditedGood ==
  ASSUME NEW c \in GoodConfigs, NEW r \in Requests, Allocatable(r),
         (\E k \in Keys : r.disks[k] # None /\ c.disks[k] # None) => FreeKeys(c) # {}
  PROVE  /\ Edited(c, r) \in GoodConfigs
         /\ (\A k \in Keys : r.disks[k] = None \/ c.disks[k] = None) /\ ~ r.unset =>
              /\ Edited(c, r).kind = merge(c, r).kind /\ Edited(c, r).sockets = merge(c, r).sockets
              /\ Edited(c, r).cores = merge(c, r).cores /\ Edited(c, r).memory = merge(c, r).memory
              /\ Edited(c, r).disks = [k \in Keys |-> IF r.disks[k] # None THEN Placed(r.disks[k])
                                                      ELSE c.disks[k]]
<1> DEFINE replaced == {k \in DiskKeys(c) : r.disks[k] # None}
           m == merge(c, r)
           old == c.disks[CHOOSE k \in replaced : TRUE]
           d == [k \in Keys |-> IF r.disks[k] # None THEN Placed(r.disks[k]) ELSE c.disks[k]]
           e == IF replaced = {} THEN d ELSE [d EXCEPT ![UnusedKey(c)] = Detached(old)]
           n == [m EXCEPT !.memory = IF r.unset THEN None ELSE @]
<1>type. r.disks \in [Keys -> DiskSpecs \cup {None}] /\ c.disks \in [Keys -> Disks \cup {None}]
  BY RequestTyped DEF GoodConfigs, Configs
<1>m. m \in GoodConfigs
  BY MergedGood
<1>d. /\ d \in [Keys -> Disks \cup {None}]
      /\ \A k \in Keys : d[k] # None =>
            /\ d[k].inline => ~ d[k].cdrom
            /\ ~ d[k].cdrom => d[k].size \in 1..MaxSize
            /\ k \notin UnusedKeys => d[k].inline \/ d[k].cdrom
  <2>new. ASSUME NEW k \in Keys, r.disks[k] # None
          PROVE  /\ Placed(r.disks[k]) \in Disks
                 /\ ~ Placed(r.disks[k]).cdrom => Placed(r.disks[k]).size \in 1..MaxSize
                 /\ Placed(r.disks[k]).inline = ~ Placed(r.disks[k]).cdrom
    <3>1. r.disks[k] \in DiskSpecs
      BY <1>type, <2>new
    <3> QED
      BY <2>new, <3>1, PlacedDisk DEF Allocatable, DiskKeys
  <2> QED
    BY <1>type, <2>new DEF GoodConfigs
<1>e. /\ e \in [Keys -> Disks \cup {None}]
      /\ \A k \in Keys : e[k] # None =>
            /\ e[k].inline => ~ e[k].cdrom
            /\ ~ e[k].cdrom => e[k].size \in 1..MaxSize
            /\ k \notin UnusedKeys => e[k].inline \/ e[k].cdrom
  <2>1. CASE replaced = {}
    BY <1>d, <2>1
  <2>2. CASE replaced # {}
    <3>1. PICK j \in Keys : j \in DiskKeys(c) /\ r.disks[j] # None /\ old = c.disks[j]
      <4>1. (CHOOSE k \in replaced : TRUE) \in replaced
        BY <2>2
      <4> QED
        BY <4>1 DEF DiskKeys
    <3>2. old \in Disks /\ ~ old.cdrom /\ old.size \in 1..MaxSize
      BY <1>type, <3>1 DEF DiskKeys, GoodConfigs
    <3>3. UnusedKey(c) \in Keys /\ UnusedKey(c) \in UnusedKeys
      BY <3>1, UnusedKeyFree DEF DiskKeys
    <3>4. /\ Detached(old) \in Disks /\ ~ Detached(old).inline
          /\ Detached(old).size \in 1..MaxSize
      BY <3>2, DetachedDisk
    <3>5. e = [d EXCEPT ![UnusedKey(c)] = Detached(old)]
      BY <2>2
    <3> HIDE DEF d, old, e, replaced
    <3>6. \A k \in Keys : e[k] = IF k = UnusedKey(c) THEN Detached(old) ELSE d[k]
      BY <1>d, <3>5
    <3>7. e \in [Keys -> Disks \cup {None}]
      BY <1>d, <3>4, <3>5
    <3> QED
      BY <1>d, <3>3, <3>4, <3>6, <3>7
  <2> QED
    BY <2>1, <2>2
<1>n. n \in GoodConfigs /\ n.kind = m.kind /\ n.sockets = m.sockets /\ n.cores = m.cores
      /\ (~ r.unset => n.memory = m.memory)
  <2> HIDE DEF m
  <2> QED
    BY <1>m DEF GoodConfigs, Configs, Numbers
<1>is. Edited(c, r) = [n EXCEPT !.disks = e]
  <2>1. Edited(c, r) = [m EXCEPT !.memory = IF r.unset THEN None ELSE @, !.disks = e]
    BY DEF Edited
  <2> HIDE DEF m, e
  <2> QED
    BY <1>m, <2>1 DEF GoodConfigs, Configs
<1>plain. (\A k \in Keys : r.disks[k] = None \/ c.disks[k] = None) => e = d
  <2>1. (\A k \in Keys : r.disks[k] = None \/ c.disks[k] = None) => replaced = {}
    BY DEF DiskKeys
  <2> QED
    BY <2>1
<1> HIDE DEF n, e, m, d
<1>all. /\ Edited(c, r) \in GoodConfigs /\ Edited(c, r).disks = e
        /\ Edited(c, r).kind = n.kind /\ Edited(c, r).sockets = n.sockets
        /\ Edited(c, r).cores = n.cores /\ Edited(c, r).memory = n.memory
  BY <1>n, <1>e, <1>is, WithDisks
<1> QED
  BY <1>all, <1>n, <1>plain DEF d, m

\* A resized disk.
LEMMA ResizedGood ==
  ASSUME NEW c \in GoodConfigs, NEW key \in Keys, c.disks[key] # None, NEW n \in 1..MaxSize
  PROVE  /\ [c EXCEPT !.disks[key].size = n] \in GoodConfigs
         /\ LET e == [c EXCEPT !.disks[key].size = n] IN
            /\ e.kind = c.kind /\ e.sockets = c.sockets /\ e.cores = c.cores /\ e.memory = c.memory
            /\ e.disks = [c.disks EXCEPT ![key] = [c.disks[key] EXCEPT !.size = n]]
<1> DEFINE x == [c.disks[key] EXCEPT !.size = n]
           ds == [c.disks EXCEPT ![key] = x]
<1>c. c.disks \in [Keys -> Disks \cup {None}] /\ c.disks[key] \in Disks /\ MaxSize \in Nat
  BY AccountingAssumption DEF GoodConfigs, Configs
<1>x. x \in Disks /\ x.inline = c.disks[key].inline /\ x.cdrom = c.disks[key].cdrom /\ x.size = n
  BY <1>c DEF Disks
<1>is. [c EXCEPT !.disks[key].size = n] = [c EXCEPT !.disks = ds]
  BY DEF GoodConfigs, Configs
<1> HIDE DEF x
<1>ds. /\ ds \in [Keys -> Disks \cup {None}]
       /\ \A k \in Keys : ds[k] # None =>
            /\ ds[k].inline => ~ ds[k].cdrom
            /\ ~ ds[k].cdrom => ds[k].size \in 1..MaxSize
            /\ k \notin UnusedKeys => ds[k].inline \/ ds[k].cdrom
  <2>1. \A k \in Keys : ds[k] = IF k = key THEN x ELSE c.disks[k]
    BY <1>c
  <2>2. ds \in [Keys -> Disks \cup {None}]
    BY <1>c, <1>x
  <2> HIDE DEF ds
  <2> QED
    BY <1>c, <1>x, <2>1, <2>2 DEF GoodConfigs
<1> HIDE DEF ds
<1>all. /\ [c EXCEPT !.disks = ds] \in GoodConfigs
        /\ [c EXCEPT !.disks = ds].disks = ds
        /\ [c EXCEPT !.disks = ds].kind = c.kind /\ [c EXCEPT !.disks = ds].sockets = c.sockets
        /\ [c EXCEPT !.disks = ds].cores = c.cores /\ [c EXCEPT !.disks = ds].memory = c.memory
  BY <1>ds, WithDisks
<1> QED
  BY <1>is, <1>all DEF ds, x

\* A moved disk, and the copy that is kept as an unused volume.
LEMMA MovedGood ==
  ASSUME NEW c \in GoodConfigs, NEW r \in Requests, r.act = "move", c.disks[r.key] # None,
         r.drop \/ FreeKeys(c) # {}
  PROVE  /\ Moved(c, r) \in GoodConfigs
         /\ Moved(c, r).kind = c.kind /\ Moved(c, r).sockets = c.sockets
         /\ Moved(c, r).cores = c.cores /\ Moved(c, r).memory = c.memory
         /\ Moved(c, r).disks = [k \in Keys |->
              IF k = r.key THEN [c.disks[r.key] EXCEPT !.st = r.st]
              ELSE IF k = UnusedKey(c) /\ ~ r.drop /\ c.disks[r.key].st # r.st THEN Detached(c.disks[r.key])
              ELSE c.disks[k]]
<1> DEFINE x == c.disks[r.key]
           y == [x EXCEPT !.st = r.st]
           keeps == ~ r.drop /\ x.st # r.st
           d == [c.disks EXCEPT ![r.key] = y]
           e == IF keeps THEN [d EXCEPT ![UnusedKey(c)] = Detached(x)] ELSE d
<1>r. r.key \in Keys /\ r.st \in Storages /\ r.drop \in BOOLEAN
  BY RequestTyped
<1>c. c.disks \in [Keys -> Disks \cup {None}] /\ x \in Disks
  BY <1>r DEF GoodConfigs, Configs
<1>y. y \in Disks /\ y.inline = x.inline /\ y.cdrom = x.cdrom /\ y.size = x.size /\ y.st = r.st
  BY <1>r, <1>c DEF Disks
<1>free. keeps => UnusedKey(c) \in Keys /\ UnusedKey(c) \in UnusedKeys /\ UnusedKey(c) # r.key
  BY UnusedKeyFree
<1>det. Detached(x) \in Disks /\ ~ Detached(x).inline /\ Detached(x).cdrom = x.cdrom /\ Detached(x).size = x.size
  BY <1>c, DetachedDisk
<1>is. Moved(c, r) = [c EXCEPT !.disks = e]
  <2>1. [c EXCEPT !.disks[r.key].st = r.st] = [c EXCEPT !.disks = d]
    BY DEF GoodConfigs, Configs
  <2>2. ASSUME keeps
        PROVE  [[c EXCEPT !.disks = d] EXCEPT !.disks[UnusedKey(c)] = Detached(x)] = [c EXCEPT !.disks = e]
    <3> HIDE DEF d, x
    <3> QED
      BY <2>2 DEF GoodConfigs, Configs
  <2>3. Moved(c, r) = IF keeps THEN [[c EXCEPT !.disks = d] EXCEPT !.disks[UnusedKey(c)] = Detached(x)]
                      ELSE [c EXCEPT !.disks = d]
    BY <1>r, <2>1 DEF Moved
  <2> QED
    BY <2>2, <2>3
<1> HIDE DEF x, y, keeps
<1>at. e = [k \in Keys |-> IF k = r.key THEN y ELSE IF k = UnusedKey(c) /\ keeps THEN Detached(x) ELSE c.disks[k]]
  BY <1>r, <1>c, <1>free
<1> HIDE DEF e
<1>e. /\ e \in [Keys -> Disks \cup {None}]
      /\ \A k \in Keys : e[k] # None =>
            /\ e[k].inline => ~ e[k].cdrom
            /\ ~ e[k].cdrom => e[k].size \in 1..MaxSize
            /\ k \notin UnusedKeys => e[k].inline \/ e[k].cdrom
  <2>1. /\ x.inline => ~ x.cdrom
        /\ ~ x.cdrom => x.size \in 1..MaxSize
        /\ r.key \notin UnusedKeys => x.inline \/ x.cdrom
    BY <1>r DEF x, GoodConfigs
  <2>2. e \in [Keys -> Disks \cup {None}]
    BY <1>at, <1>c, <1>y, <1>det
  <2> QED
    BY <1>at, <1>free, <1>y, <1>det, <2>1, <2>2 DEF GoodConfigs
<1>all. /\ Moved(c, r) \in GoodConfigs /\ Moved(c, r).disks = e
        /\ Moved(c, r).kind = c.kind /\ Moved(c, r).sockets = c.sockets
        /\ Moved(c, r).cores = c.cores /\ Moved(c, r).memory = c.memory
  BY <1>is, <1>e, WithDisks
<1> QED
  BY <1>all, <1>at DEF x, y, keeps

-----------------------------------------------------------------------------
(* Usage, dimension by dimension.  What a guest has on a storage is a sum  *)
(* over all disk keys of terms most of which are zero: configurations are  *)
(* then compared term by term.                                             *)

\* The bytes under every key on storage st, and those with a size in the line.
OnStorage(c, st) ==
    [k \in Keys |-> IF k \in DiskKeys(c) /\ c.disks[k].st = st THEN c.disks[k].size ELSE 0]

InlineOn(c, st) ==
    [k \in Keys |-> IF k \in DiskKeys(c) /\ c.disks[k].inline /\ c.disks[k].st = st
                    THEN c.disks[k].size ELSE 0]

\* The dimensions, and that the names of the first three are no storage.
LEMMA DimCases ==
  /\ \A d \in Dims : d = "cores" \/ d = "memory" \/ d = "instances" \/ d \in Storages
  /\ \A st \in Storages : st \in Dims /\ st # "cores" /\ st # "memory" /\ st # "instances"
  /\ "cores" \in Dims /\ "memory" \in Dims /\ "instances" \in Dims
  /\ "cores" \notin Storages /\ "memory" \notin Storages /\ "instances" \notin Storages
  BY AccountingAssumption

\* Numbers with defaults.
LEMMA DefaultType ==
  ASSUME NEW x \in Numbers, NEW n \in Nat
  PROVE  Default(x, n) \in Nat
  BY DEF Default, Numbers

\* Sockets times cores is a number.
LEMMA CoresType ==
  ASSUME NEW c, c.sockets \in Numbers, c.cores \in Numbers
  PROVE  totalCores(c) \in Nat
<1>1. Default(c.sockets, 1) \in Nat /\ Default(c.cores, 1) \in Nat /\ Default(c.cores, 0) \in Nat
  BY DefaultType
<1>2. \A a, b \in Nat : a * b \in Nat
  OBVIOUS
<1> QED
  BY <1>1, <1>2 DEF totalCores

\* The terms of a guest's sums are what PVE allocates under one key.
LEMMA DiskTerms ==
  ASSUME NEW c \in GoodConfigs, NEW st
  PROVE  \A k \in Keys : /\ OnStorage(c, st)[k] \in Nat /\ OnStorage(c, st)[k] <= MaxSize
                         /\ InlineOn(c, st)[k] \in Nat /\ InlineOn(c, st)[k] <= OnStorage(c, st)[k]
<1>1. MaxSize \in Nat
  BY AccountingAssumption
<1>2. \A k \in Keys : k \in DiskKeys(c) => c.disks[k].size \in 1..MaxSize
  BY DEF GoodConfigs, DiskKeys
<1> QED
  BY <1>1, <1>2 DEF OnStorage, InlineOn

\* What GuestUsage and ConfigUsage are in every dimension.
LEMMA UsageAt ==
  ASSUME NEW c \in GoodConfigs
  PROVE  /\ GuestUsage(c)["cores"] = totalCores(c) /\ ConfigUsage(c)["cores"] = totalCores(c)
         /\ GuestUsage(c)["memory"] = Default(c.memory, DefaultMem)
         /\ ConfigUsage(c)["memory"] = Default(c.memory, DefaultMem)
         /\ GuestUsage(c)["instances"] = 1 /\ ConfigUsage(c)["instances"] = 1
         /\ \A st \in Storages : /\ GuestUsage(c)[st] = Sum(OnStorage(c, st), Keys)
                                 /\ ConfigUsage(c)[st] = Sum(InlineOn(c, st), Keys)
         /\ GuestUsage(c) \in Amounts /\ ConfigUsage(c) \in Amounts
         /\ \A st \in Storages : GuestUsage(c)[st] <= Most /\ ConfigUsage(c)[st] <= Most
<1>keys. IsFiniteSet(Keys) /\ MaxSize \in Nat /\ DefaultMem \in Nat
  BY AccountingAssumption
<1>on. ASSUME NEW ks \in SUBSET DiskKeys(c), NEW st \in Storages, NEW g,
              \A k \in Keys : g[k] = IF k \in ks /\ c.disks[k].st = st THEN c.disks[k].size ELSE 0
       PROVE  DisksOn(c, ks, st) = Sum(g, Keys)
  <2> DEFINE f == [k \in ks |-> c.disks[k].size]
             T == {k \in ks : c.disks[k].st = st}
  <2>1. T \in SUBSET Keys
    BY DEF DiskKeys
  <2>2. \A k \in T : f[k] \in Int
    BY <2>1 DEF GoodConfigs, DiskKeys
  <2>3. \A k \in Keys : g[k] = IF k \in T THEN f[k] ELSE 0
    BY <1>on
  <2>4. DisksOn(c, ks, st) = Sum(f, T)
    BY DEF DisksOn, Sum
  <2> HIDE DEF f, T
  <2> QED
    BY <1>keys, <2>1, <2>2, <2>3, <2>4, SumOnPart
<1>disks. ASSUME NEW st \in Storages
          PROVE  /\ DisksOn(c, DiskKeys(c), st) = Sum(OnStorage(c, st), Keys)
                 /\ DisksOn(c, {k \in DiskKeys(c) : c.disks[k].inline}, st) = Sum(InlineOn(c, st), Keys)
  <2>1. \A k \in Keys : OnStorage(c, st)[k] =
          IF k \in DiskKeys(c) /\ c.disks[k].st = st THEN c.disks[k].size ELSE 0
    BY DEF OnStorage
  <2>2. \A k \in Keys : InlineOn(c, st)[k] =
          IF k \in {j \in DiskKeys(c) : c.disks[j].inline} /\ c.disks[k].st = st THEN c.disks[k].size ELSE 0
    BY DEF InlineOn
  <2>3. DisksOn(c, DiskKeys(c), st) = Sum(OnStorage(c, st), Keys)
    BY <1>on, <2>1
  <2>4. DisksOn(c, {k \in DiskKeys(c) : c.disks[k].inline}, st) = Sum(InlineOn(c, st), Keys)
    BY <1>on, <2>2
  <2> QED
    BY <2>3, <2>4
<1>at. /\ GuestUsage(c)["cores"] = totalCores(c) /\ ConfigUsage(c)["cores"] = totalCores(c)
       /\ GuestUsage(c)["memory"] = Default(c.memory, DefaultMem)
       /\ ConfigUsage(c)["memory"] = Default(c.memory, DefaultMem)
       /\ GuestUsage(c)["instances"] = 1 /\ ConfigUsage(c)["instances"] = 1
       /\ \A st \in Storages : /\ GuestUsage(c)[st] = Sum(OnStorage(c, st), Keys)
                               /\ ConfigUsage(c)[st] = Sum(InlineOn(c, st), Keys)
  BY <1>disks, DimCases DEF GuestUsage, ConfigUsage, Footprint
<1>bound. ASSUME NEW st \in Storages
          PROVE  /\ Sum(OnStorage(c, st), Keys) \in Nat /\ Sum(InlineOn(c, st), Keys) \in Nat
                 /\ Sum(OnStorage(c, st), Keys) <= Most /\ Sum(InlineOn(c, st), Keys) <= Most
  <2> DEFINE all == [k \in Keys |-> MaxSize]
             g == OnStorage(c, st)
             h == InlineOn(c, st)
             none == [k \in Keys |-> 0]
  <2>1. \A k \in Keys : /\ all[k] \in Nat /\ g[k] \in Nat /\ h[k] \in Nat /\ none[k] \in Int
                        /\ g[k] <= all[k] /\ h[k] <= all[k] /\ none[k] <= g[k] /\ none[k] <= h[k]
    BY <1>keys, DiskTerms
  <2>2. Most = Sum(all, Keys)
    BY DEF Most, Sum
  <2> HIDE DEF all, g, h, none
  <2>3. Sum(g, Keys) <= Sum(all, Keys) /\ Sum(h, Keys) <= Sum(all, Keys)
    BY <1>keys, <2>1, SumMonotone
  <2>4. Sum(none, {}) <= Sum(g, Keys) /\ Sum(none, {}) <= Sum(h, Keys)
    BY <1>keys, <2>1, SumMonotone
  <2>5. Sum(none, {}) = 0
    BY SumStep, FS_EmptySet
  <2>6. Sum(g, Keys) \in Int /\ Sum(h, Keys) \in Int
    BY <1>keys, <2>1, SumType
  <2> QED
    BY <2>2, <2>3, <2>4, <2>5, <2>6 DEF g, h
<1>nat. totalCores(c) \in Nat /\ Default(c.memory, DefaultMem) \in Nat
  BY <1>keys, CoresType, DefaultType DEF GoodConfigs, Configs
<1>dom. /\ GuestUsage(c) = [d \in Dims |-> GuestUsage(c)[d]]
        /\ ConfigUsage(c) = [d \in Dims |-> ConfigUsage(c)[d]]
  BY DEF GuestUsage, ConfigUsage, Footprint
<1>all. \A d \in Dims : GuestUsage(c)[d] \in Nat /\ ConfigUsage(c)[d] \in Nat
  BY <1>at, <1>bound, <1>nat, DimCases
<1>amounts. GuestUsage(c) \in Amounts /\ ConfigUsage(c) \in Amounts
  BY <1>dom, <1>all DEF Amounts
<1> QED
  BY <1>at, <1>bound, <1>amounts

-----------------------------------------------------------------------------
(* The pool is its guests: one of them may be split off.                   *)

Pools == [Ids -> GoodConfigs \cup {None}]

\* A configuration is not the absence of one.
LEMMA GoodIsSome == None \notin GoodConfigs
  BY AccountingAssumption DEF GoodConfigs

\* What a pool has is never negative.
LEMMA PoolUsage ==
  ASSUME NEW gs \in Pools
  PROVE  UserUsage(gs) \in Amounts
<1> DEFINE P == Present(gs)
           f == [i \in P |-> GuestUsage(gs[i])]
<1>1. IsFiniteSet(P)
  BY AccountingAssumption, FS_Subset DEF Present
<1>2. \A i \in P : f[i] \in Amounts
  BY UsageAt DEF Present, Pools
<1>is. UserUsage(gs) = Total(f, P)
  BY DEF UserUsage
<1> HIDE DEF P, f
<1>3. \A i \in P : f[i] \in Vec
  BY <1>2 DEF Amounts, Vec
<1>4. Total(f, P) \in Vec
  BY <1>1, <1>3, TotalType
<1>5. Leq(Total(f, {}), Total(f, P))
  BY <1>1, <1>2, TotalMonotone
<1>6. Total(f, {}) = Zero
  BY TotalEmpty
<1> QED
  BY <1>is, <1>4, <1>5, <1>6 DEF Leq, Zero, Vec, Amounts

\* The usage of a pool in which guest i has configuration c.
LEMMA PoolWith ==
  ASSUME NEW gs \in Pools, NEW i \in Ids, NEW c \in GoodConfigs
  PROVE  /\ [gs EXCEPT ![i] = c] \in Pools /\ [gs EXCEPT ![i] = None] \in Pools
         /\ UserUsage([gs EXCEPT ![i] = c]) = Plus(GuestUsage(c), UserUsage([gs EXCEPT ![i] = None]))
<1> DEFINE ga == [gs EXCEPT ![i] = c]
           gb == [gs EXCEPT ![i] = None]
           A == Present(ga)
           f == [j \in A |-> GuestUsage(ga[j])]
           g == [j \in Present(gb) |-> GuestUsage(gb[j])]
<1>pools. ga \in Pools /\ gb \in Pools
  BY DEF Pools
<1>val. /\ \A j \in Ids : ga[j] = IF j = i THEN c ELSE gs[j]
        /\ \A j \in Ids : gb[j] = IF j = i THEN None ELSE gs[j]
  BY DEF Pools
<1>rest. Present(gb) = A \ {i} /\ i \in A /\ IsFiniteSet(A) /\ A \subseteq Ids
  <2>1. Present(gb) = A \ {i} /\ i \in A /\ A \subseteq Ids
    BY <1>val, GoodIsSome DEF Present
  <2> QED
    BY <2>1, AccountingAssumption, FS_Subset
<1>fi. f[i] = GuestUsage(c)
  BY <1>val, <1>rest
<1>type. \A j \in A : f[j] \in Vec
  <2>1. \A j \in A : ga[j] \in GoodConfigs
    BY <1>pools, <1>rest DEF Present, Pools
  <2>2. \A j \in A : GuestUsage(ga[j]) \in Amounts
    BY <2>1, UsageAt
  <2> QED
    BY <2>2 DEF Amounts, Vec
<1>same. \A j \in A \ {i} : f[j] = g[j]
  <2> SUFFICES ASSUME NEW j \in A \ {i} PROVE f[j] = g[j]
    OBVIOUS
  <2>1. ga[j] = gb[j] /\ j \in Present(gb)
    BY <1>val, <1>rest
  <2> HIDE DEF ga, gb, A
  <2> QED
    BY <2>1
<1>is. UserUsage(ga) = Total(f, A) /\ UserUsage(gb) = Total(g, A \ {i})
  BY <1>rest DEF UserUsage
<1> HIDE DEF f, g, A, ga, gb
<1>split. Total(f, A) = Plus(f[i], Total(f, A \ {i}))
  BY <1>rest, <1>type, TotalSplit
<1>agree. Total(f, A \ {i}) = Total(g, A \ {i})
  <2>1. IsFiniteSet(A \ {i})
    BY <1>rest, FS_Subset
  <2> QED
    BY <2>1, <1>same, TotalAgrees
<1>done. UserUsage(ga) = Plus(GuestUsage(c), UserUsage(gb))
  BY <1>is, <1>split, <1>agree, <1>fi
<1> QED
  BY <1>pools, <1>done DEF ga, gb

\* Where guest i is now, and where it is not.
LEMMA PoolNow ==
  ASSUME NEW gs \in Pools, NEW i \in Ids
  PROVE  /\ gs[i] # None => /\ gs[i] \in GoodConfigs
                            /\ UserUsage(gs) = Plus(GuestUsage(gs[i]), UserUsage([gs EXCEPT ![i] = None]))
         /\ gs[i] = None => UserUsage(gs) = UserUsage([gs EXCEPT ![i] = None])
         /\ [gs EXCEPT ![i] = None] \in Pools
<1>1. [gs EXCEPT ![i] = gs[i]] = gs /\ [gs EXCEPT ![i] = None] \in Pools
  BY DEF Pools
<1>2. ASSUME gs[i] # None
      PROVE  gs[i] \in GoodConfigs /\ UserUsage(gs) = Plus(GuestUsage(gs[i]), UserUsage([gs EXCEPT ![i] = None]))
  <2>1. gs[i] \in GoodConfigs
    BY <1>2 DEF Pools
  <2> QED
    BY <1>1, <2>1, PoolWith
<1>3. ASSUME gs[i] = None PROVE UserUsage(gs) = UserUsage([gs EXCEPT ![i] = None])
  BY <1>1, <1>3
<1> QED
  BY <1>1, <1>2, <1>3

-----------------------------------------------------------------------------
(* What each kind of request adds to its guest, and what it is charged.    *)

\* What one disk takes is less than what all may, and than the width holds.
LEMMA OneDiskFits == MaxSize \in Nat /\ Most \in Nat /\ MaxSize <= Most /\ Most < Half
<1>1. IsFiniteSet(Keys) /\ Keys # {} /\ MaxSize \in Nat
  BY AccountingAssumption
<1>2. PICK a \in Keys : TRUE
  BY <1>1
<1> DEFINE all == [k \in Keys |-> MaxSize]
           one == [k \in Keys |-> IF k = a THEN MaxSize ELSE 0]
<1>3. \A k \in Keys : /\ all[k] \in Nat /\ one[k] \in Int /\ one[k] <= all[k]
                      /\ one[k] = IF k = a THEN MaxSize ELSE 0
  BY <1>1
<1>4. Most = Sum(all, Keys)
  BY DEF Most, Sum
<1> HIDE DEF all, one
<1>5. Sum(one, Keys) = MaxSize
  BY <1>1, <1>3, SumPoint
<1>6. Sum(one, Keys) <= Sum(all, Keys)
  BY <1>1, <1>3, SumMonotone
<1>7. Sum(all, Keys) \in Int
  BY <1>1, <1>3, SumType
<1> QED
  BY <1>1, <1>4, <1>5, <1>6, <1>7, WidthAssumption

\* A size that PVE allocates is read as it is.
LEMMA SizeRead ==
  ASSUME NEW t \in Sizes
  PROVE  Amount(t) \in Nat /\ (Amount(t) <= MaxSize => ParseSize(t) = Amount(t))
<1>1. t.n \in Nat /\ Mult[t.unit] \in Nat /\ Half \in Nat
  BY AccountingAssumption DEF Sizes
<1>2. Amount(t) \in Nat
  BY <1>1 DEF Amount
<1>3. ASSUME Amount(t) <= MaxSize PROVE Wrap(Amount(t)) = Amount(t)
  BY <1>1, <1>2, <1>3, OneDiskFits, WrapIsTrue
<1> QED
  BY <1>2, <1>3 DEF ParseSize, Amount

\* The disks of a request that are priced in full.
Priced(r) == \A k \in DiskKeys(r) : PricedInFull(r.disks[k])

\* A disk priced in full is charged as what PVE makes of it: its size= is read
\* as it is, and is not 0; without one the number of GiB does not overflow.
LEMMA SpecCharged ==
  ASSUME NEW x \in DiskSpecs, ~ x.cdrom, Placed(x).size \in 1..MaxSize, PricedInFull(x)
  PROVE  parseCreateDisk(x) = Placed(x).size
<1>type. /\ x.n \in Nat /\ x.size \in Sizes \cup {None}
         /\ GiB \in Nat /\ GiB > 0 /\ Half \in Nat
  BY AccountingAssumption DEF DiskSpecs
<1>plain. CASE x.size = None
  <2>1. x.form = "gib" /\ Placed(x).size = x.n * GiB
    BY <1>plain DEF PricedInFull, Placed
  <2>2. x.n * GiB \in 1..MaxSize
    BY <2>1
  <2>3. Wrap(x.n * GiB) = x.n * GiB
    BY <2>2, <1>type, OneDiskFits, WrapIsTrue
  <2> QED
    BY <1>plain, <2>1, <2>3 DEF parseCreateDisk
<1>sized. CASE x.size # None
  <2>1. x.size \in Sizes /\ Amount(x.size) = Placed(x).size /\ Amount(x.size) \in 1..MaxSize
    BY <1>type, <1>sized DEF PricedInFull
  <2>2. ParseSize(x.size) = Amount(x.size)
    BY <2>1, SizeRead, OneDiskFits
  <2>3. ParseSize(x.size) # 0
    BY <2>1, <2>2, OneDiskFits
  <2> QED
    BY <1>sized, <2>1, <2>2, <2>3 DEF parseCreateDisk
<1> QED
  BY <1>plain, <1>sized

\* The disks a request adds on storage st, key by key.
NewOn(r, cur, st) ==
    [k \in Keys |-> IF k \in DiskKeys(r) /\ (cur = None \/ cur.disks[k] = None) /\ r.disks[k].st = st
                    THEN Placed(r.disks[k]).size ELSE 0]

\* addDiskParams is the sum of the new disks of a request, key by key.
LEMMA DisksCharged ==
  ASSUME NEW r \in Requests, Allocatable(r), Priced(r), NEW cur, NEW st
  PROVE  /\ \A k \in Keys : NewOn(r, cur, st)[k] \in Nat
         /\ addDiskParams(r, cur, st) = Sum(NewOn(r, cur, st), Keys)
         /\ Sum(NewOn(r, cur, st), Keys) \in Int /\ Sum(NewOn(r, cur, st), Keys) <= Most
<1> DEFINE new == {k \in DiskKeys(r) : (cur = None \/ cur.disks[k] = None) /\ r.disks[k].st = st}
           f == [k \in new |-> parseCreateDisk(r.disks[k])]
           g == NewOn(r, cur, st)
           all == [k \in Keys |-> MaxSize]
           none == [k \in Keys |-> 0]
<1>keys. IsFiniteSet(Keys) /\ Half \in Nat
  BY AccountingAssumption
<1>spec. \A k \in DiskKeys(r) : /\ k \in Keys /\ Placed(r.disks[k]).size \in 1..MaxSize
                                /\ parseCreateDisk(r.disks[k]) = Placed(r.disks[k]).size
  <2> SUFFICES ASSUME NEW k \in DiskKeys(r)
               PROVE  /\ k \in Keys /\ Placed(r.disks[k]).size \in 1..MaxSize
                      /\ parseCreateDisk(r.disks[k]) = Placed(r.disks[k]).size
    OBVIOUS
  <2>1. k \in Keys /\ r.disks[k] \in DiskSpecs /\ ~ r.disks[k].cdrom
    BY RequestTyped DEF DiskKeys
  <2>2. Placed(r.disks[k]).size \in 1..MaxSize /\ PricedInFull(r.disks[k])
    BY DEF Allocatable, Priced
  <2> QED
    BY <2>1, <2>2, SpecCharged
<1>new. new \in SUBSET Keys /\ \A k \in new : f[k] \in Int
  BY <1>spec, OneDiskFits
<1>g. \A k \in Keys : /\ g[k] = IF k \in new THEN f[k] ELSE 0
                      /\ g[k] \in Nat /\ g[k] <= all[k] /\ all[k] \in Nat
  BY <1>spec, OneDiskFits DEF NewOn
<1>is. addDiskParams(r, cur, st) = Wrap(Sum(f, new))
  BY DEF addDiskParams, Sum
<1>most. Most = Sum(all, Keys)
  BY DEF Most, Sum
<1> HIDE DEF f, new, g, all
<1>none. \A k \in Keys : none[k] \in Int /\ none[k] <= g[k]
  BY <1>g
<1> HIDE DEF none
<1>sum. Sum(g, Keys) = Sum(f, new)
  BY <1>keys, <1>new, <1>g, SumOnPart
<1>int. Sum(g, Keys) \in Int
  BY <1>keys, <1>g, SumType
<1>top. Sum(g, Keys) <= Most
  BY <1>keys, <1>g, <1>most, SumMonotone
<1>low. 0 <= Sum(g, Keys)
  <2>1. Sum(none, {}) <= Sum(g, Keys)
    BY <1>keys, <1>g, <1>none, SumMonotone
  <2>2. Sum(none, {}) = 0
    BY SumStep, FS_EmptySet
  <2> QED
    BY <2>1, <2>2
<1>held. Wrap(Sum(g, Keys)) = Sum(g, Keys)
  BY <1>keys, <1>int, <1>top, <1>low, OneDiskFits, WrapIsTrue
<1> QED
  BY <1>is, <1>sum, <1>held, <1>int, <1>top, <1>g DEF g

\* A create is charged what the new guest has.
LEMMA CreateCharged ==
  ASSUME NEW r \in Requests, Allocatable(r), Priced(r)
  PROVE  CreateDelta(r) = GuestUsage(NewConfig(r))
<1> DEFINE c == NewConfig(r)
<1>c. c \in GoodConfigs
  BY NewConfigGood
<1>cores. totalCores(c) = totalCores(r) /\ Default(c.memory, DefaultMem) = Default(r.memory, DefaultMem)
  BY DEF NewConfig, totalCores
<1>disks. ASSUME NEW st \in Storages PROVE addDiskParams(r, None, st) = GuestUsage(c)[st]
  <2>1. \A k \in Keys : NewOn(r, None, st)[k] = OnStorage(c, st)[k]
    <3> SUFFICES ASSUME NEW k \in Keys PROVE NewOn(r, None, st)[k] = OnStorage(c, st)[k]
      OBVIOUS
    <3>1. c.disks[k] = IF r.disks[k] = None THEN None ELSE Placed(r.disks[k])
      BY DEF NewConfig
    <3>2. r.disks[k] # None => /\ r.disks[k] \in DiskSpecs /\ Placed(r.disks[k]) # None
                               /\ Placed(r.disks[k]).st = r.disks[k].st
                               /\ Placed(r.disks[k]).cdrom = r.disks[k].cdrom
      BY RequestTyped, PlacedDisk
    <3>3. k \in DiskKeys(c) <=> k \in DiskKeys(r)
      BY <3>1, <3>2 DEF DiskKeys
    <3>4. k \in DiskKeys(r) => r.disks[k] # None
      BY DEF DiskKeys
    <3> HIDE DEF c
    <3> QED
      BY <3>1, <3>2, <3>3, <3>4 DEF NewOn, OnStorage
  <2>2. Sum(NewOn(r, None, st), Keys) = Sum(OnStorage(c, st), Keys)
    BY <2>1, AccountingAssumption, SumAgrees
  <2> HIDE DEF c
  <2> QED
    BY <1>c, <2>2, DisksCharged, UsageAt
<1>at. \A d \in Dims : CreateDelta(r)[d] = GuestUsage(c)[d]
  <2> HIDE DEF c
  <2> QED
    BY <1>c, <1>cores, <1>disks, UsageAt, DimCases DEF CreateDelta
<1> QED
  BY <1>at DEF CreateDelta, GuestUsage, Footprint

\* An edit that puts no disk under a key in use is charged what it adds.
LEMMA EditCharged ==
  ASSUME NEW c \in GoodConfigs, NEW r \in Requests, Allocatable(r), Priced(r), ~ r.unset,
         \A k \in Keys : r.disks[k] = None \/ c.disks[k] = None
  PROVE  /\ ConfigDelta(r, c) \in Vec /\ (\A st \in Storages : ConfigDelta(r, c)[st] <= Most)
         /\ GuestUsage(Edited(c, r)) = Plus(GuestUsage(c), ConfigDelta(r, c))
<1> DEFINE e == Edited(c, r)
           m == merge(c, r)
<1>good. e \in GoodConfigs /\ m \in GoodConfigs /\ c # None
  BY EditedGood, MergedGood, GoodIsSome
<1>e. /\ e.kind = m.kind /\ e.sockets = m.sockets /\ e.cores = m.cores /\ e.memory = m.memory
      /\ e.disks = [k \in Keys |-> IF r.disks[k] # None THEN Placed(r.disks[k]) ELSE c.disks[k]]
  BY EditedGood
<1>mem. m.memory = Default(r.memory, c.memory) /\ r.memory \in Numbers /\ c.memory \in Numbers
  BY MergedGood, RequestTyped DEF GoodConfigs, Configs
<1> HIDE DEF e, m
<1>cores. totalCores(e) = totalCores(m) /\ totalCores(m) \in Nat /\ totalCores(c) \in Nat
  BY <1>e, <1>good, CoresType DEF totalCores, GoodConfigs, Configs
<1>defs. Default(e.memory, DefaultMem) \in Nat /\ Default(c.memory, DefaultMem) \in Nat
  BY <1>e, <1>good, DefaultType, AccountingAssumption DEF GoodConfigs, Configs
<1>memory. Default(e.memory, DefaultMem) = IF r.memory = None THEN Default(c.memory, DefaultMem) ELSE r.memory
  BY <1>e, <1>mem DEF Default
<1>disks. ASSUME NEW st \in Storages
          PROVE  /\ addDiskParams(r, c, st) \in Int /\ addDiskParams(r, c, st) <= Most
                 /\ GuestUsage(e)[st] = GuestUsage(c)[st] + addDiskParams(r, c, st)
  <2>1. ASSUME NEW k \in Keys
        PROVE  OnStorage(e, st)[k] = OnStorage(c, st)[k] + NewOn(r, c, st)[k]
    <3>1. c.disks[k] # None => r.disks[k] = None
      OBVIOUS
    <3>2. r.disks[k] # None => /\ r.disks[k] \in DiskSpecs /\ Placed(r.disks[k]) # None
                               /\ Placed(r.disks[k]).st = r.disks[k].st
                               /\ Placed(r.disks[k]).cdrom = r.disks[k].cdrom
      BY RequestTyped, PlacedDisk
    <3>3. e.disks[k] = IF r.disks[k] # None THEN Placed(r.disks[k]) ELSE c.disks[k]
      BY <1>e
    <3>4. OnStorage(c, st)[k] \in Nat /\ NewOn(r, c, st)[k] \in Nat
      BY DiskTerms, DisksCharged
    <3>in. CASE r.disks[k] # None
      <4>1. OnStorage(c, st)[k] = 0
        BY <3>1, <3>in DEF OnStorage, DiskKeys
      <4>2. OnStorage(e, st)[k] = NewOn(r, c, st)[k]
        BY <3>1, <3>2, <3>3, <3>in DEF OnStorage, NewOn, DiskKeys
      <4> QED
        BY <3>4, <4>1, <4>2
    <3>out. CASE r.disks[k] = None
      <4>1. NewOn(r, c, st)[k] = 0
        BY <3>out DEF NewOn, DiskKeys
      <4>2. OnStorage(e, st)[k] = OnStorage(c, st)[k]
        BY <3>3, <3>out DEF OnStorage, DiskKeys
      <4> QED
        BY <3>4, <4>1, <4>2
    <3> QED
      BY <3>in, <3>out
  <2>2. \A k \in Keys : OnStorage(c, st)[k] \in Int /\ NewOn(r, c, st)[k] \in Int
    BY DiskTerms, DisksCharged
  <2>3. Sum(OnStorage(e, st), Keys) = Sum(OnStorage(c, st), Keys) + Sum(NewOn(r, c, st), Keys)
    BY <2>1, <2>2, SumAdds, AccountingAssumption
  <2>4. GuestUsage(e)[st] = Sum(OnStorage(e, st), Keys) /\ GuestUsage(c)[st] = Sum(OnStorage(c, st), Keys)
    BY <1>good, UsageAt
  <2>5. /\ addDiskParams(r, c, st) = Sum(NewOn(r, c, st), Keys)
        /\ Sum(NewOn(r, c, st), Keys) \in Int /\ Sum(NewOn(r, c, st), Keys) <= Most
    BY DisksCharged
  <2> QED
    BY <2>3, <2>4, <2>5
<1>delta. /\ ConfigDelta(r, c)["cores"] = totalCores(m) - totalCores(c)
          /\ ConfigDelta(r, c)["memory"] = IF r.memory = None THEN 0 ELSE r.memory - Default(c.memory, DefaultMem)
          /\ ConfigDelta(r, c)["instances"] = 0
          /\ \A st \in Storages : ConfigDelta(r, c)[st] = addDiskParams(r, c, st)
          /\ ConfigDelta(r, c) = [d \in Dims |-> ConfigDelta(r, c)[d]]
  BY DimCases DEF ConfigDelta, m
<1>num. r.memory = None \/ r.memory \in Nat
  BY <1>mem DEF Numbers
<1>type. \A d \in Dims : ConfigDelta(r, c)[d] \in Int
  BY <1>delta, <1>cores, <1>defs, <1>num, <1>disks, DimCases
<1>at. \A d \in Dims : GuestUsage(e)[d] = GuestUsage(c)[d] + ConfigDelta(r, c)[d]
  <2>1. GuestUsage(e)["cores"] = GuestUsage(c)["cores"] + ConfigDelta(r, c)["cores"]
    BY <1>good, <1>delta, <1>cores, UsageAt
  <2>2. GuestUsage(e)["memory"] = GuestUsage(c)["memory"] + ConfigDelta(r, c)["memory"]
    BY <1>good, <1>delta, <1>memory, <1>defs, <1>num, UsageAt
  <2>3. GuestUsage(e)["instances"] = GuestUsage(c)["instances"] + ConfigDelta(r, c)["instances"]
    BY <1>good, <1>delta, UsageAt
  <2> QED
    BY <2>1, <2>2, <2>3, <1>disks, <1>delta, DimCases
<1>vec. ConfigDelta(r, c) \in Vec
  BY <1>delta, <1>type DEF Vec
<1>plus. GuestUsage(e) = Plus(GuestUsage(c), ConfigDelta(r, c))
  BY <1>at DEF Plus, GuestUsage, Footprint
<1> QED
  BY <1>vec, <1>plus, <1>disks, <1>delta DEF e

\* A sum with one term.
LEMMA KeyPoint ==
  ASSUME NEW a \in Keys, NEW n \in Int, NEW g, \A k \in Keys : g[k] = IF k = a THEN n ELSE 0
  PROVE  Sum(g, Keys) = n
<1>1. IsFiniteSet(Keys)
  BY AccountingAssumption
<1> QED
  BY <1>1, SumPoint

\* A sum without any.
LEMMA NoTerms ==
  ASSUME NEW g, \A k \in Keys : g[k] = 0
  PROVE  Sum(g, Keys) = 0
<1>1. IsFiniteSet(Keys)
  BY AccountingAssumption
<1> QED
  BY <1>1, SumZero

\* A vector that is zero but on one storage.
LEMMA OneAt ==
  ASSUME NEW st \in Storages, NEW n \in Int
  PROVE  /\ One(st, n) \in Vec /\ One(st, 0) = Zero
         /\ One(st, n)["cores"] = 0 /\ One(st, n)["memory"] = 0 /\ One(st, n)["instances"] = 0
         /\ \A d \in Storages : One(st, n)[d] = IF d = st THEN n ELSE 0
  BY DimCases DEF One, Vec, Zero

\* A resize is charged the growth.
LEMMA ResizeCharged ==
  ASSUME NEW c \in GoodConfigs, NEW r \in Requests, r.act = "resize", c.disks[r.key] # None,
         c.disks[r.key].inline, Resized(c.disks[r.key].size, r) \in c.disks[r.key].size .. MaxSize
  PROVE  LET e == Grown(c, r) IN
         /\ e \in GoodConfigs
         /\ ResizeDelta(r, c) \in Vec /\ (\A st \in Storages : ResizeDelta(r, c)[st] <= Most)
         /\ GuestUsage(e) = Plus(GuestUsage(c), ResizeDelta(r, c))
         /\ e.disks = [c.disks EXCEPT ![r.key] = [c.disks[r.key] EXCEPT !.size = Resized(c.disks[r.key].size, r)]]
<1> DEFINE x == c.disks[r.key]
           n == Resized(x.size, r)
           e == [c EXCEPT !.disks[r.key].size = n]
           g == n - x.size
<1>r. r.key \in Keys /\ r.size \in Sizes /\ r.relative \in BOOLEAN
  BY RequestTyped
<1>x. x \in Disks /\ ~ x.cdrom /\ x.size \in 1..MaxSize /\ x.st \in Storages /\ MaxSize \in Nat
  BY <1>r, OneDiskFits DEF GoodConfigs, Configs, Disks
<1>n. n \in 1..MaxSize /\ x.size <= n /\ g \in Nat /\ g <= MaxSize
  BY <1>x
<1>delta. ResizeDelta(r, c) = One(x.st, g)
  <2>1. Amount(r.size) \in Nat
    BY <1>r, SizeRead
  <2>2. CASE r.relative
    <3>1. n = x.size + Amount(r.size)
      BY <2>2 DEF Resized
    <3>2. g = Amount(r.size) /\ Amount(r.size) <= MaxSize
      BY <1>n, <1>x, <2>1, <3>1
    <3>3. ParseSize(r.size) = Amount(r.size)
      BY <1>r, <3>2, SizeRead
    <3> QED
      BY <2>2, <3>2, <3>3 DEF ResizeDelta
  <2>3. CASE ~ r.relative
    <3>1. n = Amount(r.size)
      BY <2>3 DEF Resized
    <3>2. ParseSize(r.size) = n
      BY <1>r, <1>n, <3>1, SizeRead
    <3>3. CASE n > x.size
      BY <2>3, <3>2, <3>3 DEF ResizeDelta
    <3>4. CASE ~ (n > x.size)
      <4>1. g = 0
        BY <1>n, <1>x, <3>4
      <4> QED
        BY <2>3, <3>2, <3>4, <4>1, <1>x, OneAt DEF ResizeDelta
    <3> QED
      BY <3>3, <3>4
  <2> QED
    BY <2>2, <2>3
<1> HIDE DEF n, g
<1>e. /\ e \in GoodConfigs
      /\ e.kind = c.kind /\ e.sockets = c.sockets /\ e.cores = c.cores /\ e.memory = c.memory
      /\ e.disks = [c.disks EXCEPT ![r.key] = [x EXCEPT !.size = n]]
  BY <1>r, <1>n, ResizedGood
<1>is. Grown(c, r) = e
  BY <1>r DEF GoodConfigs, Configs, Grown, n
<1> HIDE DEF e, x
<1>disks. ASSUME NEW st \in Storages PROVE GuestUsage(e)[st] = GuestUsage(c)[st] + One(x.st, g)[st]
  <2> DEFINE v == IF x.st = st THEN g ELSE 0
             p == [k \in Keys |-> IF k = r.key THEN v ELSE 0]
  <2>1. ASSUME NEW k \in Keys PROVE OnStorage(e, st)[k] = OnStorage(c, st)[k] + p[k]
    <3>1. OnStorage(c, st)[k] \in Nat
      BY DiskTerms
    <3>2. CASE k # r.key
      <4>1. e.disks[k] = c.disks[k]
        BY <1>e, <3>2 DEF GoodConfigs, Configs
      <4>2. OnStorage(e, st)[k] = OnStorage(c, st)[k]
        BY <4>1 DEF OnStorage, DiskKeys
      <4> QED
        BY <3>1, <3>2, <4>2
    <3>3. CASE k = r.key
      <4>1. e.disks[k] = [x EXCEPT !.size = n]
        BY <1>e, <3>3 DEF GoodConfigs, Configs
      <4>2. e.disks[k].size = n /\ e.disks[k].st = x.st /\ ~ e.disks[k].cdrom /\ e.disks[k] # None
        <5>1. e.disks[k] \in Disks
          BY <1>x, <1>n, <4>1 DEF Disks
        <5> QED
          BY <1>x, <4>1, <5>1, AccountingAssumption DEF Disks
      <4>3. OnStorage(e, st)[k] = IF x.st = st THEN n ELSE 0
        BY <4>2 DEF OnStorage, DiskKeys
      <4>4. OnStorage(c, st)[k] = IF x.st = st THEN x.size ELSE 0
        BY <1>x, <3>3 DEF OnStorage, DiskKeys, x
      <4> QED
        BY <1>x, <1>n, <3>3, <4>3, <4>4 DEF g
    <3> QED
      BY <3>2, <3>3
  <2>2. \A k \in Keys : OnStorage(c, st)[k] \in Int /\ p[k] \in Int
    BY <1>n, DiskTerms
  <2>3. Sum(p, Keys) = v
    <3>1. \A k \in Keys : p[k] = IF k = r.key THEN v ELSE 0
      OBVIOUS
    <3>2. v \in Int
      BY <1>n
    <3> HIDE DEF p, v
    <3> QED
      BY <1>r, <3>1, <3>2, KeyPoint
  <2> HIDE DEF p
  <2>4. Sum(OnStorage(e, st), Keys) = Sum(OnStorage(c, st), Keys) + Sum(p, Keys)
    BY <2>1, <2>2, SumAdds, AccountingAssumption
  <2>5. GuestUsage(e)[st] = Sum(OnStorage(e, st), Keys) /\ GuestUsage(c)[st] = Sum(OnStorage(c, st), Keys)
    BY <1>e, UsageAt
  <2>6. One(x.st, g)[st] = IF x.st = st THEN g ELSE 0
    BY <1>x, <1>n, OneAt
  <2> QED
    BY <2>3, <2>4, <2>5, <2>6
<1>one. /\ One(x.st, g) \in Vec /\ One(x.st, g)["cores"] = 0 /\ One(x.st, g)["memory"] = 0
        /\ One(x.st, g)["instances"] = 0 /\ \A st \in Storages : One(x.st, g)[st] <= Most
  BY <1>x, <1>n, OneAt, OneDiskFits
<1>same. /\ GuestUsage(e)["cores"] = GuestUsage(c)["cores"]
         /\ GuestUsage(e)["memory"] = GuestUsage(c)["memory"]
         /\ GuestUsage(e)["instances"] = GuestUsage(c)["instances"]
  BY <1>e, UsageAt DEF totalCores
<1>int. \A d \in Dims : GuestUsage(c)[d] \in Nat
  BY UsageAt DEF Amounts
<1>at. \A d \in Dims : GuestUsage(e)[d] = GuestUsage(c)[d] + One(x.st, g)[d]
  BY <1>disks, <1>one, <1>same, <1>int, DimCases
<1>plus. GuestUsage(e) = Plus(GuestUsage(c), One(x.st, g))
  BY <1>at DEF Plus, GuestUsage, Footprint
<1> QED
  BY <1>is, <1>e, <1>plus, <1>one, <1>delta DEF x, n

\* The dimensions other than storages agree.
SameMachine(c, e) == e.kind = c.kind /\ e.sockets = c.sockets /\ e.cores = c.cores /\ e.memory = c.memory

\* Guests that differ in their disks only.
LEMMA MachineUsage ==
  ASSUME NEW c \in GoodConfigs, NEW e \in GoodConfigs, SameMachine(c, e)
  PROVE  \A d \in Dims \ Storages : GuestUsage(e)[d] = GuestUsage(c)[d] /\ GuestUsage(e)[d] = ConfigUsage(c)[d]
  BY UsageAt, DimCases DEF SameMachine, totalCores

\* A guest of which no disk is larger than that of another.
LEMMA DisksLeq ==
  ASSUME NEW c \in GoodConfigs, NEW e \in GoodConfigs, NEW st \in Storages,
         \A k \in Keys : OnStorage(e, st)[k] <= OnStorage(c, st)[k]
  PROVE  GuestUsage(e)[st] <= GuestUsage(c)[st]
<1>1. \A k \in Keys : OnStorage(e, st)[k] \in Int /\ OnStorage(c, st)[k] \in Nat
  BY DiskTerms
<1>2. Sum(OnStorage(e, st), Keys) <= Sum(OnStorage(c, st), Keys)
  BY <1>1, SumMonotone, AccountingAssumption
<1> QED
  BY <1>2, UsageAt

\* A move is charged to the storage that the disk goes to, and the storage it
\* leaves has no more than before, whether or not the old volume is kept.
LEMMA MoveCharged ==
  ASSUME NEW c \in GoodConfigs, NEW r \in Requests, r.act = "move", c.disks[r.key] # None,
         r.key \notin UnusedKeys, r.drop \/ FreeKeys(c) # {}
  PROVE  /\ MoveDelta(r, c) \in Vec /\ (\A st \in Storages : MoveDelta(r, c)[st] <= Most)
         /\ Leq(GuestUsage(Moved(c, r)), Plus(GuestUsage(c), MoveDelta(r, c)))
<1> DEFINE x == c.disks[r.key]
           e == Moved(c, r)
           keeps == ~ r.drop /\ x.st # r.st
           u == UnusedKey(c)
<1>r. r.key \in Keys /\ r.st \in Storages
  BY RequestTyped
<1>x. x \in Disks /\ x.st \in Storages /\ (x.inline => ~ x.cdrom) /\ (x.inline \/ x.cdrom)
      /\ (~ x.cdrom => x.size \in 1..MaxSize) /\ MaxSize \in Nat
  BY <1>r, OneDiskFits DEF GoodConfigs, Configs, Disks
<1>e. e \in GoodConfigs /\ SameMachine(c, e)
  BY MovedGood DEF SameMachine
<1>disks. \A k \in Keys : e.disks[k] = IF k = r.key THEN [x EXCEPT !.st = r.st]
                                       ELSE IF k = u /\ keeps THEN Detached(x) ELSE c.disks[k]
  <2>1. e.disks = [k \in Keys |-> IF k = r.key THEN [x EXCEPT !.st = r.st]
                                  ELSE IF k = u /\ ~ r.drop /\ x.st # r.st THEN Detached(x) ELSE c.disks[k]]
    BY MovedGood
  <2> HIDE DEF e, x, u
  <2> QED
    BY <2>1
<1>u. keeps => u \in Keys /\ c.disks[u] = None /\ u # r.key
  BY UnusedKeyFree
<1>key. LET y == [x EXCEPT !.st = r.st] IN
        y # None /\ y.st = r.st /\ y.cdrom = x.cdrom /\ y.size = x.size
  <2>1. [x EXCEPT !.st = r.st] \in Disks
    BY <1>r, <1>x DEF Disks
  <2> QED
    BY <1>x, <2>1, AccountingAssumption DEF Disks
<1>det. Detached(x) # None /\ Detached(x).st = x.st /\ Detached(x).cdrom = x.cdrom /\ Detached(x).size = x.size
  <2>1. Detached(x) \in Disks
    BY <1>x, DetachedDisk
  <2> QED
    BY <1>x, <2>1, DetachedDisk, AccountingAssumption
<1>terms. ASSUME NEW st \in Storages, NEW k \in Keys
          PROVE  OnStorage(e, st)[k] = IF k = r.key THEN (IF ~ x.cdrom /\ r.st = st THEN x.size ELSE 0)
                                       ELSE IF k = u /\ keeps THEN (IF ~ x.cdrom /\ x.st = st THEN x.size ELSE 0)
                                       ELSE OnStorage(c, st)[k]
  <2>1. CASE k = r.key
    <3>1. e.disks[k] # None /\ e.disks[k].st = r.st /\ e.disks[k].cdrom = x.cdrom /\ e.disks[k].size = x.size
      BY <1>disks, <1>key, <2>1
    <3> HIDE DEF e, x, u, keeps
    <3> QED
      BY <2>1, <3>1 DEF OnStorage, DiskKeys
  <2>2. CASE k # r.key /\ k = u /\ keeps
    <3>1. e.disks[k] # None /\ e.disks[k].st = x.st /\ e.disks[k].cdrom = x.cdrom /\ e.disks[k].size = x.size
      BY <1>disks, <1>det, <2>2
    <3> HIDE DEF e, x, u, keeps
    <3> QED
      BY <2>2, <3>1 DEF OnStorage, DiskKeys
  <2>3. CASE k # r.key /\ ~ (k = u /\ keeps)
    <3>1. e.disks[k] = c.disks[k]
      BY <1>disks, <2>3
    <3> HIDE DEF e, x, u, keeps
    <3> QED
      BY <2>3, <3>1 DEF OnStorage, DiskKeys
  <2> QED
    BY <2>1, <2>2, <2>3
<1>old. ASSUME NEW st \in Storages
        PROVE  /\ OnStorage(c, st)[r.key] = IF ~ x.cdrom /\ x.st = st THEN x.size ELSE 0
               /\ keeps => OnStorage(c, st)[u] = 0
  BY <1>r, <1>u DEF OnStorage, DiskKeys
<1>delta. MoveDelta(r, c) = IF x.st = r.st \/ ~ x.inline THEN Zero ELSE One(r.st, x.size)
  BY DEF MoveDelta
<1>int. \A d \in Dims : GuestUsage(c)[d] \in Nat /\ GuestUsage(e)[d] \in Nat
  BY <1>e, UsageAt DEF Amounts
<1> HIDE DEF x, e, keeps, u
<1>free. CASE x.st = r.st \/ ~ x.inline
  <2>1. ASSUME NEW st \in Storages PROVE GuestUsage(e)[st] <= GuestUsage(c)[st]
    <3>1. ASSUME NEW k \in Keys PROVE OnStorage(e, st)[k] <= OnStorage(c, st)[k]
      <4>1. OnStorage(c, st)[k] \in Nat
        BY DiskTerms
      <4>2. OnStorage(e, st)[k] = OnStorage(c, st)[k]
        BY <1>terms, <1>old, <1>free, <1>x DEF keeps
      <4> QED
        BY <4>1, <4>2
    <3> QED
      BY <1>e, <3>1, DisksLeq
  <2>2. \A d \in Dims : GuestUsage(e)[d] <= GuestUsage(c)[d]
    BY <1>e, <1>int, <2>1, MachineUsage
  <2>3. MoveDelta(r, c) = Zero
    BY <1>free, <1>delta
  <2> QED
    BY <1>int, <2>2, <2>3, OneDiskFits, DimCases DEF Leq, Plus, Zero, Vec, e
<1>paid. CASE ~ (x.st = r.st \/ ~ x.inline)
  <2>x. x.st # r.st /\ ~ x.cdrom /\ x.size \in Nat /\ x.size <= MaxSize /\ x.size \in Int
    BY <1>paid, <1>x
  <2>one. /\ One(r.st, x.size) \in Vec /\ MoveDelta(r, c) = One(r.st, x.size)
          /\ One(r.st, x.size)["cores"] = 0 /\ One(r.st, x.size)["memory"] = 0
          /\ One(r.st, x.size)["instances"] = 0
          /\ \A st \in Storages : One(r.st, x.size)[st] = IF st = r.st THEN x.size ELSE 0
    BY <1>paid, <1>delta, <1>r, <2>x, OneAt
  <2>to. GuestUsage(e)[r.st] <= GuestUsage(c)[r.st] + x.size
    <3> DEFINE p == [k \in Keys |-> IF k = r.key THEN x.size ELSE 0]
    <3>1. \A k \in Keys : OnStorage(e, r.st)[k] = OnStorage(c, r.st)[k] + p[k]
      <4> SUFFICES ASSUME NEW k \in Keys PROVE OnStorage(e, r.st)[k] = OnStorage(c, r.st)[k] + p[k]
        OBVIOUS
      <4>1. OnStorage(c, r.st)[k] \in Nat
        BY DiskTerms
      <4> QED
        BY <1>r, <1>terms, <1>old, <2>x, <4>1
    <3>2. \A k \in Keys : /\ OnStorage(c, r.st)[k] \in Int /\ p[k] \in Int
                          /\ p[k] = IF k = r.key THEN x.size ELSE 0
      BY <2>x, DiskTerms
    <3> HIDE DEF p
    <3>3. Sum(p, Keys) = x.size
      BY <1>r, <2>x, <3>2, KeyPoint
    <3>4. Sum(OnStorage(e, r.st), Keys) = Sum(OnStorage(c, r.st), Keys) + Sum(p, Keys)
      BY <3>1, <3>2, SumAdds, AccountingAssumption
    <3>5. /\ GuestUsage(e)[r.st] = Sum(OnStorage(e, r.st), Keys)
          /\ GuestUsage(c)[r.st] = Sum(OnStorage(c, r.st), Keys)
      BY <1>r, <1>e, UsageAt
    <3>6. GuestUsage(c)[r.st] + x.size \in Int
      BY <1>int, <1>r, <2>x, DimCases
    <3> QED
      BY <3>3, <3>4, <3>5, <3>6
  <2>from. ASSUME NEW st \in Storages, st # r.st PROVE GuestUsage(e)[st] <= GuestUsage(c)[st]
    <3>drop. CASE ~ keeps
      <4>1. ASSUME NEW k \in Keys PROVE OnStorage(e, st)[k] <= OnStorage(c, st)[k]
        <5>1. OnStorage(c, st)[k] \in Nat
          BY DiskTerms
        <5> QED
          BY <1>terms, <2>from, <3>drop, <5>1
      <4> QED
        BY <1>e, <4>1, DisksLeq
    <3>keep. CASE keeps
      <4> DEFINE v == IF x.st = st THEN x.size ELSE 0
                 p == [k \in Keys |-> IF k = r.key THEN v ELSE 0]
                 q == [k \in Keys |-> IF k = u THEN v ELSE 0]
                 h == [k \in Keys |-> OnStorage(e, st)[k] + p[k]]
      <4>v. v \in Int
        BY <2>x
      <4>1. \A k \in Keys : OnStorage(e, st)[k] + p[k] = OnStorage(c, st)[k] + q[k]
        <5> SUFFICES ASSUME NEW k \in Keys
                     PROVE  OnStorage(e, st)[k] + p[k] = OnStorage(c, st)[k] + q[k]
          OBVIOUS
        <5>1. OnStorage(c, st)[k] \in Nat
          BY DiskTerms
        <5>2. CASE k = r.key
          BY <1>terms, <1>old, <1>u, <2>x, <2>from, <3>keep, <5>2
        <5>3. CASE k = u
          BY <1>terms, <1>old, <1>u, <2>x, <2>from, <3>keep, <5>3
        <5>4. CASE k # r.key /\ k # u
          BY <1>terms, <5>1, <5>4
        <5> QED
          BY <5>2, <5>3, <5>4
      <4>2. \A k \in Keys : /\ OnStorage(e, st)[k] \in Int /\ OnStorage(c, st)[k] \in Int
                            /\ p[k] = IF k = r.key THEN v ELSE 0
                            /\ q[k] = IF k = u THEN v ELSE 0
                            /\ h[k] = OnStorage(e, st)[k] + p[k]
        BY <1>e, DiskTerms
      <4> HIDE DEF v, p, q, h
      <4>3. \A k \in Keys : p[k] \in Int /\ q[k] \in Int /\ h[k] = OnStorage(c, st)[k] + q[k]
        BY <4>v, <4>1, <4>2
      <4>4. Sum(p, Keys) = v /\ Sum(q, Keys) = v
        <5>1. \A k \in Keys : p[k] = IF k = r.key THEN v ELSE 0
          BY <4>2
        <5>2. \A k \in Keys : q[k] = IF k = u THEN v ELSE 0
          BY <4>2
        <5>3. Sum(p, Keys) = v
          BY <1>r, <4>v, <5>1, KeyPoint
        <5>4. Sum(q, Keys) = v
          BY <1>u, <3>keep, <4>v, <5>2, KeyPoint
        <5> QED
          BY <5>3, <5>4
      <4>5. Sum(h, Keys) = Sum(OnStorage(e, st), Keys) + Sum(p, Keys)
        BY <4>2, <4>3, SumAdds, AccountingAssumption
      <4>6. Sum(h, Keys) = Sum(OnStorage(c, st), Keys) + Sum(q, Keys)
        BY <4>2, <4>3, SumAdds, AccountingAssumption
      <4>7. /\ GuestUsage(e)[st] = Sum(OnStorage(e, st), Keys)
            /\ GuestUsage(c)[st] = Sum(OnStorage(c, st), Keys)
        BY <1>e, UsageAt
      <4>8. GuestUsage(e)[st] \in Int /\ GuestUsage(c)[st] \in Int
        BY <1>int, DimCases
      <4> QED
        BY <4>v, <4>4, <4>5, <4>6, <4>7, <4>8
    <3> QED
      BY <3>drop, <3>keep
  <2>at. ASSUME NEW d \in Dims PROVE GuestUsage(e)[d] <= GuestUsage(c)[d] + One(r.st, x.size)[d]
    <3>1. CASE d \notin Storages
      BY <1>e, <1>int, <2>one, <3>1, MachineUsage, DimCases
    <3>2. CASE d \in Storages
      BY <1>int, <2>to, <2>from, <2>one, <3>2
    <3> QED
      BY <3>1, <3>2
  <2>top. \A st \in Storages : One(r.st, x.size)[st] <= Most
    BY <2>one, <2>x, OneDiskFits
  <2> QED
    BY <2>at, <2>one, <2>top DEF Leq, Plus, e
<1> QED
  BY <1>free, <1>paid

\* A rollback is charged the increase of the disks with a size in their line:
\* enough, because the unused volumes of the snapshot are still there.
LEMMA RollbackCharged ==
  ASSUME NEW c \in GoodConfigs, NEW s \in GoodConfigs,
         \A k \in Keys : s.disks[k] # None /\ ~ s.disks[k].inline /\ ~ s.disks[k].cdrom => c.disks[k] = s.disks[k]
  PROVE  LET d == IncreaseDelta(ConfigUsage(s), ConfigUsage(c)) IN
         /\ d \in Vec /\ (\A st \in Storages : d[st] <= Most)
         /\ Leq(GuestUsage(s), Plus(GuestUsage(c), d))
<1> DEFINE d == IncreaseDelta(ConfigUsage(s), ConfigUsage(c))
<1>use. /\ \A k \in Dims : /\ GuestUsage(c)[k] \in Nat /\ ConfigUsage(c)[k] \in Nat
                           /\ GuestUsage(s)[k] \in Nat /\ ConfigUsage(s)[k] \in Nat
        /\ \A st \in Storages : ConfigUsage(s)[st] <= Most
        /\ \A k \in Dims \ Storages : GuestUsage(c)[k] = ConfigUsage(c)[k] /\ GuestUsage(s)[k] = ConfigUsage(s)[k]
  BY UsageAt, DimCases DEF Amounts
<1>d. \A k \in Dims : d[k] = IF ConfigUsage(s)[k] > ConfigUsage(c)[k] THEN ConfigUsage(s)[k] - ConfigUsage(c)[k] ELSE 0
  BY DEF IncreaseDelta
<1>fun. d = [k \in Dims |-> d[k]]
  BY DEF IncreaseDelta
<1>disks. ASSUME NEW st \in Storages
          PROVE  GuestUsage(s)[st] + ConfigUsage(c)[st] <= GuestUsage(c)[st] + ConfigUsage(s)[st]
  <2> DEFINE us == [k \in Keys |-> OnStorage(s, st)[k] - InlineOn(s, st)[k]]
             uc == [k \in Keys |-> OnStorage(c, st)[k] - InlineOn(c, st)[k]]
  <2>1. ASSUME NEW k \in Keys
        PROVE  /\ us[k] \in Nat /\ uc[k] \in Nat /\ us[k] <= uc[k]
               /\ InlineOn(s, st)[k] \in Int /\ InlineOn(c, st)[k] \in Int
               /\ OnStorage(s, st)[k] = InlineOn(s, st)[k] + us[k]
               /\ OnStorage(c, st)[k] = InlineOn(c, st)[k] + uc[k]
    <3>1. /\ OnStorage(s, st)[k] \in Nat /\ InlineOn(s, st)[k] \in Nat /\ OnStorage(c, st)[k] \in Nat
          /\ InlineOn(c, st)[k] \in Nat /\ InlineOn(s, st)[k] <= OnStorage(s, st)[k]
          /\ InlineOn(c, st)[k] <= OnStorage(c, st)[k]
      BY DiskTerms
    <3>2. OnStorage(s, st)[k] = InlineOn(s, st)[k] \/ c.disks[k] = s.disks[k]
      BY DEF OnStorage, InlineOn, DiskKeys
    <3>3. c.disks[k] = s.disks[k] =>
             OnStorage(s, st)[k] = OnStorage(c, st)[k] /\ InlineOn(s, st)[k] = InlineOn(c, st)[k]
      BY DEF OnStorage, InlineOn, DiskKeys
    <3> QED
      BY <3>1, <3>2, <3>3
  <2> HIDE DEF us, uc
  <2>fin. IsFiniteSet(Keys)
    BY AccountingAssumption
  <2>2. Sum(OnStorage(s, st), Keys) = Sum(InlineOn(s, st), Keys) + Sum(us, Keys)
    BY <2>1, <2>fin, SumAdds
  <2>3. Sum(OnStorage(c, st), Keys) = Sum(InlineOn(c, st), Keys) + Sum(uc, Keys)
    BY <2>1, <2>fin, SumAdds
  <2>4. Sum(us, Keys) <= Sum(uc, Keys)
    BY <2>1, <2>fin, SumMonotone
  <2>5. Sum(us, Keys) \in Int /\ Sum(uc, Keys) \in Int
    BY <2>1, <2>fin, SumType
  <2>6. /\ GuestUsage(s)[st] = Sum(OnStorage(s, st), Keys) /\ ConfigUsage(s)[st] = Sum(InlineOn(s, st), Keys)
        /\ GuestUsage(c)[st] = Sum(OnStorage(c, st), Keys) /\ ConfigUsage(c)[st] = Sum(InlineOn(c, st), Keys)
    BY UsageAt
  <2>7. ConfigUsage(s)[st] \in Nat /\ ConfigUsage(c)[st] \in Nat
    BY <1>use, DimCases
  <2> QED
    BY <2>2, <2>3, <2>4, <2>5, <2>6, <2>7
<1> HIDE DEF d
<1>at. ASSUME NEW k \in Dims PROVE GuestUsage(s)[k] <= GuestUsage(c)[k] + d[k]
  <2>1. CASE k \notin Storages
    BY <1>use, <1>d, <2>1
  <2>2. CASE k \in Storages
    BY <1>use, <1>d, <1>disks, <2>2
  <2> QED
    BY <2>1, <2>2
<1>vec. d \in Vec
  <2>1. \A k \in Dims : d[k] \in Int
    BY <1>d, <1>use
  <2> QED
    BY <1>fun, <2>1 DEF Vec
<1>top. \A st \in Storages : d[st] <= Most
  BY <1>d, <1>use, OneDiskFits, DimCases
<1> QED
  BY <1>at, <1>vec, <1>top DEF Leq, Plus, d

\* What a copy has on every storage.
LEMMA CopyTerms ==
  ASSUME NEW c \in GoodConfigs, NEW r \in Requests, NEW st \in Storages, NEW k \in Keys
  PROVE  /\ r.st = None => OnStorage(Cloned(c, r), st)[k] = InlineOn(c, st)[k]
         /\ r.st # None => OnStorage(Cloned(c, r), st)[k] =
                              IF st = r.st /\ k \in DiskKeys(c) /\ c.disks[k].inline THEN c.disks[k].size ELSE 0
<1> DEFINE e == Cloned(c, r)
<1>good. /\ c.disks[k] \in Disks \cup {None} /\ r.st \in Storages \cup {None}
         /\ c.disks[k] # None => (c.disks[k].inline => ~ c.disks[k].cdrom)
  BY RequestTyped DEF GoodConfigs, Configs
<1>disk. e.disks[k] = IF c.disks[k] = None \/ ~ c.disks[k].inline THEN None
                      ELSE IF r.st = None \/ c.disks[k].cdrom THEN c.disks[k]
                      ELSE [c.disks[k] EXCEPT !.st = r.st]
  <2>1. e.disks = [j \in Keys |-> IF c.disks[j] = None \/ ~ c.disks[j].inline THEN None
                                  ELSE IF r.st = None \/ c.disks[j].cdrom THEN c.disks[j]
                                  ELSE [c.disks[j] EXCEPT !.st = r.st]]
    BY ClonedGood
  <2> HIDE DEF e
  <2> QED
    BY <2>1
<1>moved. c.disks[k] # None /\ r.st # None =>
            LET y == [c.disks[k] EXCEPT !.st = r.st] IN
            y # None /\ y.st = r.st /\ y.cdrom = c.disks[k].cdrom /\ y.size = c.disks[k].size
  <2> SUFFICES ASSUME c.disks[k] # None, r.st # None
               PROVE  LET y == [c.disks[k] EXCEPT !.st = r.st] IN
                      y # None /\ y.st = r.st /\ y.cdrom = c.disks[k].cdrom /\ y.size = c.disks[k].size
    OBVIOUS
  <2>1. c.disks[k] \in Disks /\ r.st \in Storages
    BY <1>good
  <2>2. [c.disks[k] EXCEPT !.st = r.st] \in Disks
    BY <2>1 DEF Disks
  <2> QED
    BY <2>1, <2>2, AccountingAssumption DEF Disks
<1> HIDE DEF e
<1>here. r.st = None => OnStorage(e, st)[k] = InlineOn(c, st)[k]
  BY <1>disk, <1>good DEF OnStorage, InlineOn, DiskKeys
<1>there. ASSUME r.st # None
          PROVE  OnStorage(e, st)[k] =
                   IF st = r.st /\ k \in DiskKeys(c) /\ c.disks[k].inline THEN c.disks[k].size ELSE 0
  <2>1. CASE c.disks[k] = None \/ ~ c.disks[k].inline
    BY <1>disk, <2>1 DEF OnStorage, DiskKeys
  <2>2. CASE c.disks[k] # None /\ c.disks[k].inline
    <3>1. /\ e.disks[k] # None /\ e.disks[k].st = r.st /\ ~ e.disks[k].cdrom
          /\ e.disks[k].size = c.disks[k].size /\ ~ c.disks[k].cdrom
      BY <1>disk, <1>good, <1>moved, <1>there, <2>2
    <3> QED
      BY <2>2, <3>1 DEF OnStorage, DiskKeys
  <2> QED
    BY <2>1, <2>2
<1> QED
  BY <1>here, <1>there DEF e

\* A restore to the storages of the archive is charged what the guest will have.
LEMMA RestoreCharged ==
  ASSUME NEW c \in GoodConfigs, NEW r \in Requests, r.st = None
  PROVE  GuestUsage(Cloned(c, r)) = ConfigUsage(c)
<1> DEFINE e == Cloned(c, r)
<1>e. e \in GoodConfigs /\ SameMachine(c, e)
  BY ClonedGood DEF SameMachine
<1>terms. \A st \in Storages : \A k \in Keys : OnStorage(e, st)[k] = InlineOn(c, st)[k]
  BY CopyTerms
<1> HIDE DEF e
<1>disks. \A st \in Storages : GuestUsage(e)[st] = ConfigUsage(c)[st]
  <2> SUFFICES ASSUME NEW st \in Storages PROVE GuestUsage(e)[st] = ConfigUsage(c)[st]
    OBVIOUS
  <2>1. Sum(OnStorage(e, st), Keys) = Sum(InlineOn(c, st), Keys)
    BY <1>terms, SumAgrees, AccountingAssumption
  <2> QED
    BY <1>e, <2>1, UsageAt
<1>at. \A d \in Dims : GuestUsage(e)[d] = ConfigUsage(c)[d]
  BY <1>e, <1>disks, MachineUsage
<1>fun. GuestUsage(e) = [d \in Dims |-> GuestUsage(e)[d]] /\ ConfigUsage(c) = [d \in Dims |-> ConfigUsage(c)[d]]
  BY DEF GuestUsage, ConfigUsage, Footprint
<1>same. [d \in Dims |-> GuestUsage(e)[d]] = [d \in Dims |-> ConfigUsage(c)[d]]
  BY <1>at
<1> QED
  BY <1>fun, <1>same DEF e

\* A clone is charged at least what the copy will have: all disks of the
\* source, on the target storage if there is one.
LEMMA CloneCharged ==
  ASSUME NEW c \in GoodConfigs, NEW r \in Requests
  PROVE  /\ CloneDelta(r, c) \in Amounts /\ (\A st \in Storages : CloneDelta(r, c)[st] <= Most)
         /\ Leq(GuestUsage(Cloned(c, r)), CloneDelta(r, c))
<1> DEFINE e == Cloned(c, r)
           u == GuestUsage(c)
           f == [k \in Keys |-> IF k \in DiskKeys(c) THEN c.disks[k].size ELSE 0]
<1>fin. IsFiniteSet(Keys) /\ IsFiniteSet(Storages)
  BY AccountingAssumption
<1>e. e \in GoodConfigs /\ SameMachine(c, e) /\ r.st \in Storages \cup {None}
  BY ClonedGood, RequestTyped DEF SameMachine
<1>u. u \in Amounts /\ (\A st \in Storages : u[st] <= Most /\ u[st] = Sum(OnStorage(c, st), Keys))
      /\ \A d \in Dims : u[d] \in Nat
  BY UsageAt DEF Amounts
<1>here. CASE r.st = None
  <2>1. ASSUME NEW st \in Storages PROVE GuestUsage(e)[st] <= u[st]
    <3>1. \A k \in Keys : OnStorage(e, st)[k] <= OnStorage(c, st)[k]
      BY <1>here, CopyTerms, DiskTerms
    <3> QED
      BY <1>e, <3>1, DisksLeq
  <2>2. \A d \in Dims \ Storages : GuestUsage(e)[d] <= u[d]
    BY <1>e, <1>u, MachineUsage
  <2>3. CloneDelta(r, c) = u
    BY <1>here DEF CloneDelta
  <2> QED
    BY <1>u, <2>1, <2>2, <2>3 DEF Leq
<1>there. CASE r.st # None
  <2>f. \A k \in Keys : f[k] \in Nat /\ f[k] <= MaxSize
    BY OneDiskFits DEF GoodConfigs, DiskKeys
  <2>sum. Sum(u, Storages) = Sum(f, Keys)
    <3>place. PICK s0 \in Storages : TRUE
      BY <1>e, <1>there
    <3> DEFINE cls == [k \in Keys |-> IF k \in DiskKeys(c) THEN c.disks[k].st ELSE s0]
               G == [st \in Storages |-> OnStorage(c, st)]
    <3>1. \A st \in Storages : u[st] = Sum(G[st], Keys)
      BY <1>u
    <3>2. \A st \in Storages : \A k \in Keys : G[st][k] = IF cls[k] = st THEN f[k] ELSE 0
      BY DEF OnStorage
    <3>3. \A k \in Keys : f[k] \in Int /\ cls[k] \in Storages
      BY <2>f DEF GoodConfigs, Configs, Disks, DiskKeys
    <3> HIDE DEF u, f, cls, G
    <3>4. Classified(Keys, Storages, cls, f, G, u)
      BY <1>fin, <3>1, <3>2, <3>3 DEF Classified
    <3> QED
      BY <3>4, SumByClass
  <2>st. r.st \in Storages
    BY <1>e, <1>there
  <2>top. Sum(f, Keys) \in Int /\ Sum(f, Keys) <= Most
    <3> DEFINE all == [k \in Keys |-> MaxSize]
    <3>1. \A k \in Keys : all[k] \in Nat /\ f[k] \in Int /\ f[k] <= all[k]
      BY <2>f, OneDiskFits
    <3>2. Most = Sum(all, Keys)
      BY DEF Most, Sum
    <3> HIDE DEF all, f
    <3>3. Sum(f, Keys) <= Sum(all, Keys)
      BY <1>fin, <3>1, SumMonotone
    <3>4. Sum(f, Keys) \in Int
      BY <1>fin, <3>1, SumType
    <3> QED
      BY <3>2, <3>3, <3>4
  <2>to. GuestUsage(e)[r.st] <= Sum(f, Keys)
    <3>1. \A k \in Keys : OnStorage(e, r.st)[k] \in Int /\ OnStorage(e, r.st)[k] <= f[k]
      <4> SUFFICES ASSUME NEW k \in Keys
                   PROVE  OnStorage(e, r.st)[k] \in Int /\ OnStorage(e, r.st)[k] <= f[k]
        OBVIOUS
      <4>1. OnStorage(e, r.st)[k] = IF k \in DiskKeys(c) /\ c.disks[k].inline THEN c.disks[k].size ELSE 0
        BY <1>there, <2>st, CopyTerms
      <4>2. f[k] \in Nat
        BY <2>f
      <4> HIDE DEF e
      <4> QED
        BY <4>1, <4>2
    <3> HIDE DEF f, e
    <3>2. Sum(OnStorage(e, r.st), Keys) <= Sum(f, Keys)
      BY <1>fin, <2>f, <3>1, SumMonotone
    <3> QED
      BY <1>e, <2>st, <3>2, UsageAt
  <2>from. ASSUME NEW st \in Storages, st # r.st PROVE GuestUsage(e)[st] = 0
    <3>1. \A k \in Keys : OnStorage(e, st)[k] = 0
      BY <1>there, <2>from, CopyTerms
    <3>2. Sum(OnStorage(e, st), Keys) = 0
      BY <2>st, <3>1, NoTerms
    <3> HIDE DEF e
    <3> QED
      BY <1>e, <3>2, UsageAt
  <2>delta. \A d \in Dims : CloneDelta(r, c)[d] = IF d \notin Storages THEN u[d]
                                                  ELSE IF d = r.st THEN Sum(u, Storages) ELSE 0
    BY <1>there DEF CloneDelta, Sum
  <2>fun. CloneDelta(r, c) = [d \in Dims |-> CloneDelta(r, c)[d]]
    BY <1>there DEF CloneDelta
  <2>nat. Sum(f, Keys) \in Nat
    <3>1. GuestUsage(e)[r.st] \in Nat
      BY <1>e, <2>st, UsageAt, DimCases DEF Amounts
    <3> QED
      BY <2>to, <2>top, <3>1
  <2> HIDE DEF u, f, e
  <2>type. CloneDelta(r, c) \in Amounts
    <3>1. \A d \in Dims : CloneDelta(r, c)[d] \in Nat
      BY <1>u, <2>delta, <2>sum, <2>nat
    <3> QED
      BY <2>fun, <3>1 DEF Amounts
  <2>bound. \A st \in Storages : CloneDelta(r, c)[st] <= Most
    BY <2>delta, <2>sum, <2>top, OneDiskFits, DimCases
  <2>leq. \A d \in Dims : GuestUsage(e)[d] <= CloneDelta(r, c)[d]
    <3> SUFFICES ASSUME NEW d \in Dims PROVE GuestUsage(e)[d] <= CloneDelta(r, c)[d]
      OBVIOUS
    <3>1. CASE d \notin Storages
      <4>1. GuestUsage(e)[d] = u[d]
        BY <1>e, <3>1, MachineUsage DEF u
      <4> QED
        BY <1>u, <2>delta, <3>1, <4>1
    <3>2. CASE d = r.st
      BY <2>delta, <2>sum, <2>st, <2>to, <3>2
    <3>3. CASE d \in Storages /\ d # r.st
      BY <2>delta, <2>from, <3>3
    <3> QED
      BY <3>1, <3>2, <3>3
  <2> QED
    BY <2>type, <2>bound, <2>leq DEF Leq, e
<1> QED
  BY <1>here, <1>there

-----------------------------------------------------------------------------
(* From the guest to the pool.                                             *)

\* A guest that grows by no more than d makes its pool grow by no more, and
\* by exactly d if the guest does.
LEMMA PoolGrows ==
  ASSUME NEW gs \in Pools, NEW i \in Ids, gs[i] # None, NEW e \in GoodConfigs, NEW d \in Vec
  PROVE  /\ Leq(GuestUsage(e), Plus(GuestUsage(gs[i]), d)) =>
              Leq(UserUsage([gs EXCEPT ![i] = e]), Plus(UserUsage(gs), Pos(d)))
         /\ GuestUsage(e) = Plus(GuestUsage(gs[i]), d) =>
              UserUsage([gs EXCEPT ![i] = e]) = Plus(UserUsage(gs), d)
<1> DEFINE rest == UserUsage([gs EXCEPT ![i] = None])
           old == GuestUsage(gs[i])
           new == GuestUsage(e)
<1>now. gs[i] \in GoodConfigs /\ UserUsage(gs) = Plus(old, rest) /\ [gs EXCEPT ![i] = None] \in Pools
  BY PoolNow
<1>then. UserUsage([gs EXCEPT ![i] = e]) = Plus(new, rest)
  BY PoolWith
<1>type. rest \in Amounts /\ old \in Amounts /\ new \in Amounts
  BY <1>now, PoolUsage, UsageAt
<1> HIDE DEF rest, old, new
<1>leq. ASSUME Leq(new, Plus(old, d)) PROVE Leq(Plus(new, rest), Plus(Plus(old, rest), Pos(d)))
  BY <1>type, <1>leq DEF Leq, Plus, Pos, Amounts, Vec
<1>eq. ASSUME new = Plus(old, d) PROVE Plus(new, rest) = Plus(Plus(old, rest), d)
  BY <1>type, <1>eq DEF Plus, Amounts, Vec
<1> QED
  BY <1>now, <1>then, <1>leq, <1>eq DEF old, new

\* A guest that comes, in an empty place or in that of another one.
LEMMA PoolGains ==
  ASSUME NEW gs \in Pools, NEW i \in Ids, NEW e \in GoodConfigs, NEW d \in Amounts, Leq(GuestUsage(e), d)
  PROVE  /\ Leq(UserUsage([gs EXCEPT ![i] = e]), Plus(UserUsage(gs), Pos(d)))
         /\ gs[i] = None /\ GuestUsage(e) = d => UserUsage([gs EXCEPT ![i] = e]) = Plus(UserUsage(gs), d)
<1> DEFINE rest == UserUsage([gs EXCEPT ![i] = None])
           new == GuestUsage(e)
<1>then. UserUsage([gs EXCEPT ![i] = e]) = Plus(new, rest) /\ [gs EXCEPT ![i] = None] \in Pools
  BY PoolWith
<1>type. rest \in Amounts /\ new \in Amounts /\ UserUsage(gs) \in Amounts
  BY <1>then, PoolUsage, UsageAt
<1>base. Leq(rest, UserUsage(gs)) /\ (gs[i] = None => rest = UserUsage(gs))
  <2>1. CASE gs[i] = None
    <3>1. rest = UserUsage(gs)
      BY <2>1, PoolNow
    <3> HIDE DEF rest
    <3> QED
      BY <1>type, <3>1 DEF Leq, Amounts
  <2>2. CASE gs[i] # None
    <3> DEFINE old == GuestUsage(gs[i])
    <3>1. gs[i] \in GoodConfigs /\ UserUsage(gs) = Plus(old, rest)
      BY <2>2, PoolNow
    <3>2. old \in Amounts
      BY <3>1, UsageAt
    <3> HIDE DEF rest, old
    <3> QED
      BY <1>type, <2>2, <3>1, <3>2 DEF Leq, Plus, Amounts
  <2> QED
    BY <2>1, <2>2
<1>add. Leq(new, d)
  OBVIOUS
<1> DEFINE now == UserUsage(gs)
<1> HIDE DEF rest, new, now
<1>leq. Leq(Plus(new, rest), Plus(now, Pos(d)))
  BY <1>type, <1>base, <1>add DEF Leq, Plus, Pos, Amounts, now
<1>eq. ASSUME rest = now, new = d PROVE Plus(new, rest) = Plus(now, d)
  BY <1>type, <1>eq DEF Plus, Amounts, now
<1> QED
  BY <1>then, <1>base, <1>leq, <1>eq DEF new, now

-----------------------------------------------------------------------------
(* What holds of every state of the pool.                                  *)

\* The types of the variables.
Typed ==
    /\ guest \in Pools /\ snap \in Pools
    /\ backup # None => Head(backup) \in GoodConfigs

\* c still has the unused volumes of s, under their keys.
Keeps(c, s) ==
    \A k \in Keys : s.disks[k] # None /\ ~ s.disks[k].inline /\ ~ s.disks[k].cdrom => c.disks[k] = s.disks[k]

\* Only a guest has a snapshot, and the unused volumes of a snapshot are still
\* in the configuration of its guest: the charge for a rollback leaves them out.
UnusedStay == \A i \in Ids : snap[i] # None => guest[i] # None /\ Keeps(guest[i], snap[i])

\* What a charge for r has to be: a vector that the width holds, and as much as
\* what the pool then has.
ChargeCovers(r) ==
    LET d == DeltaOf(r, guest, snap)
        after == After(r, guest, snap)
    IN  /\ d \in Vec /\ (\A st \in Storages : d[st] <= Most)
        /\ after \in Pools
        /\ Leq(UserUsage(after), Plus(UserUsage(guest), Pos(d)))
        /\ r.act \in {"create", "config", "resize"} => UserUsage(after) = Plus(UserUsage(guest), d)

\* Creating a guest: exactly what it will have.
LEMMA CreateCovers ==
  ASSUME Charged, Typed, NEW r \in Requests, r.act = "create", Feasible(r)
  PROVE  ChargeCovers(r)
<1> DEFINE e == NewConfig(r)
           d == CreateDelta(r)
<1>go. guest[r.i] = None /\ Allocatable(r) /\ Priced(r) /\ r.i \in Ids /\ guest \in Pools
  BY RequestTyped DEF Feasible, Typed, Charged, Priced
<1>e. e \in GoodConfigs
  BY <1>go, NewConfigGood
<1>d. d = GuestUsage(e) /\ d \in Amounts /\ \A st \in Storages : d[st] <= Most
  BY <1>go, <1>e, CreateCharged, UsageAt
<1>is. DeltaOf(r, guest, snap) = d /\ After(r, guest, snap) = [guest EXCEPT ![r.i] = e]
  BY DEF DeltaOf, After
<1> HIDE DEF e, d
<1>leq. Leq(GuestUsage(e), d) /\ d \in Vec
  BY <1>d DEF Leq, Amounts, Vec
<1>pool. [guest EXCEPT ![r.i] = e] \in Pools
  BY <1>go, <1>e, PoolWith
<1>use. /\ Leq(UserUsage([guest EXCEPT ![r.i] = e]), Plus(UserUsage(guest), Pos(d)))
        /\ UserUsage([guest EXCEPT ![r.i] = e]) = Plus(UserUsage(guest), d)
  BY <1>go, <1>e, <1>d, <1>leq, PoolGains
<1> QED
  BY <1>d, <1>is, <1>leq, <1>pool, <1>use DEF ChargeCovers

\* Cloning: the copy leaves out the unused volumes that the charge counts.
LEMMA CloneCovers ==
  ASSUME Typed, NEW r \in Requests, r.act = "clone", Feasible(r)
  PROVE  ChargeCovers(r)
<1> DEFINE c == guest[r.src]
           e == Cloned(c, r)
           d == CloneDelta(r, c)
<1>go. guest[r.i] = None /\ r.i \in Ids /\ guest \in Pools /\ c \in GoodConfigs
  <2>1. guest[r.i] = None /\ guest[r.src] # None /\ r.i \in Ids /\ r.src \in Ids /\ guest \in Pools
    BY RequestTyped DEF Feasible, Typed
  <2> QED
    BY <2>1 DEF Pools
<1>is. DeltaOf(r, guest, snap) = d /\ After(r, guest, snap) = [guest EXCEPT ![r.i] = e]
  BY DEF DeltaOf, After
<1> HIDE DEF c
<1>e. e \in GoodConfigs
  BY <1>go, ClonedGood
<1>d. d \in Amounts /\ (\A st \in Storages : d[st] <= Most) /\ Leq(GuestUsage(e), d)
  BY <1>go, CloneCharged
<1> HIDE DEF e, d
<1>vec. d \in Vec
  BY <1>d DEF Amounts, Vec
<1>pool. [guest EXCEPT ![r.i] = e] \in Pools
  BY <1>go, <1>e, PoolWith
<1>use. Leq(UserUsage([guest EXCEPT ![r.i] = e]), Plus(UserUsage(guest), Pos(d)))
  BY <1>go, <1>e, <1>d, PoolGains
<1> QED
  BY <1>d, <1>vec, <1>is, <1>pool, <1>use DEF ChargeCovers

\* An edit of a guest: the difference to what it has.
LEMMA ConfigCovers ==
  ASSUME Charged, Typed, NEW r \in Requests, r.act = "config", Feasible(r)
  PROVE  ChargeCovers(r)
<1> DEFINE c == guest[r.i]
           e == Edited(c, r)
           d == ConfigDelta(r, c)
<1>go. /\ c # None /\ c \in GoodConfigs /\ r.i \in Ids /\ guest \in Pools /\ Allocatable(r) /\ ~ r.unset
       /\ Priced(r) /\ \A k \in Keys : r.disks[k] = None \/ c.disks[k] = None
  <2>1. c # None /\ r.i \in Ids /\ guest \in Pools /\ Allocatable(r)
    BY RequestTyped DEF Feasible, Typed
  <2>2. c \in GoodConfigs
    BY <2>1 DEF Pools
  <2>3. ~ r.unset /\ Priced(r) /\ \A k \in Keys : r.disks[k] = None \/ c.disks[k] = None
    BY DEF Feasible, Charged, Priced
  <2> QED
    BY <2>1, <2>2, <2>3
<1>is. DeltaOf(r, guest, snap) = d /\ After(r, guest, snap) = [guest EXCEPT ![r.i] = e]
  BY <1>go DEF DeltaOf, After, Pools
<1>here. guest[r.i] = c
  OBVIOUS
<1> HIDE DEF c
<1>e. e \in GoodConfigs
  BY <1>go, EditedGood
<1>d. d \in Vec /\ (\A st \in Storages : d[st] <= Most) /\ GuestUsage(e) = Plus(GuestUsage(c), d)
  BY <1>go, EditCharged
<1> HIDE DEF e, d
<1>leq. Leq(GuestUsage(e), Plus(GuestUsage(c), d))
  BY <1>go, <1>d, UsageAt DEF Leq, Plus, Amounts, Vec
<1>pool. [guest EXCEPT ![r.i] = e] \in Pools
  BY <1>go, <1>e, PoolWith
<1>use. /\ Leq(UserUsage([guest EXCEPT ![r.i] = e]), Plus(UserUsage(guest), Pos(d)))
        /\ UserUsage([guest EXCEPT ![r.i] = e]) = Plus(UserUsage(guest), d)
  BY <1>go, <1>here, <1>e, <1>d, <1>leq, PoolGrows
<1> QED
  BY <1>d, <1>is, <1>pool, <1>use DEF ChargeCovers

\* A resize: the growth of the disk.
LEMMA ResizeCovers ==
  ASSUME Typed, NEW r \in Requests, r.act = "resize", Feasible(r)
  PROVE  ChargeCovers(r)
<1> DEFINE c == guest[r.i]
           e == Grown(c, r)
           d == ResizeDelta(r, c)
<1>go. /\ c # None /\ c \in GoodConfigs /\ r.i \in Ids /\ guest \in Pools
       /\ c.disks[r.key] # None /\ c.disks[r.key].inline
       /\ Resized(c.disks[r.key].size, r) \in c.disks[r.key].size .. MaxSize
  <2>1. /\ c # None /\ r.i \in Ids /\ guest \in Pools
        /\ c.disks[r.key] # None /\ c.disks[r.key].inline
        /\ Resized(c.disks[r.key].size, r) \in c.disks[r.key].size .. MaxSize
    BY RequestTyped DEF Feasible, Typed
  <2> QED
    BY <2>1 DEF Pools
<1>is. DeltaOf(r, guest, snap) = d /\ After(r, guest, snap) = [guest EXCEPT ![r.i] = e]
  BY <1>go DEF DeltaOf, After, Pools
<1>here. guest[r.i] = c
  OBVIOUS
<1> HIDE DEF c
<1>e. /\ e \in GoodConfigs
      /\ d \in Vec /\ (\A st \in Storages : d[st] <= Most) /\ GuestUsage(e) = Plus(GuestUsage(c), d)
  BY <1>go, ResizeCharged
<1> HIDE DEF e, d
<1>leq. Leq(GuestUsage(e), Plus(GuestUsage(c), d))
  BY <1>go, <1>e, UsageAt DEF Leq, Plus, Amounts, Vec
<1>pool. [guest EXCEPT ![r.i] = e] \in Pools
  BY <1>go, <1>e, PoolWith
<1>use. /\ Leq(UserUsage([guest EXCEPT ![r.i] = e]), Plus(UserUsage(guest), Pos(d)))
        /\ UserUsage([guest EXCEPT ![r.i] = e]) = Plus(UserUsage(guest), d)
  BY <1>go, <1>here, <1>e, <1>leq, PoolGrows
<1> QED
  BY <1>e, <1>is, <1>pool, <1>use DEF ChargeCovers

\* A move to another storage: the disk there, even if the source is dropped.
LEMMA MoveCovers ==
  ASSUME Charged, Typed, NEW r \in Requests, r.act = "move", Feasible(r)
  PROVE  ChargeCovers(r)
<1> DEFINE c == guest[r.i]
           e == Moved(c, r)
           d == MoveDelta(r, c)
<1>go. /\ c # None /\ c \in GoodConfigs /\ r.i \in Ids /\ guest \in Pools
       /\ c.disks[r.key] # None /\ (r.drop \/ FreeKeys(c) # {}) /\ r.key \notin UnusedKeys
  <2>1. /\ c # None /\ r.i \in Ids /\ guest \in Pools
        /\ c.disks[r.key] # None /\ (r.drop \/ FreeKeys(c) # {}) /\ r.key \notin UnusedKeys
    BY RequestTyped DEF Feasible, Typed, Charged
  <2> QED
    BY <2>1 DEF Pools
<1>is. DeltaOf(r, guest, snap) = d /\ After(r, guest, snap) = [guest EXCEPT ![r.i] = e]
  BY <1>go DEF DeltaOf, After, Pools
<1>here. guest[r.i] = c
  OBVIOUS
<1> HIDE DEF c
<1>e. e \in GoodConfigs
  BY <1>go, MovedGood
<1>d. d \in Vec /\ (\A st \in Storages : d[st] <= Most) /\ Leq(GuestUsage(e), Plus(GuestUsage(c), d))
  BY <1>go, MoveCharged
<1> HIDE DEF e, d
<1>pool. [guest EXCEPT ![r.i] = e] \in Pools
  BY <1>go, <1>e, PoolWith
<1>use. Leq(UserUsage([guest EXCEPT ![r.i] = e]), Plus(UserUsage(guest), Pos(d)))
  BY <1>go, <1>here, <1>e, <1>d, PoolGrows
<1> QED
  BY <1>d, <1>is, <1>pool, <1>use DEF ChargeCovers

\* A rollback: what the snapshot has more than the guest.
LEMMA RollbackCovers ==
  ASSUME Typed, UnusedStay, NEW r \in Requests, r.act = "rollback", Feasible(r)
  PROVE  ChargeCovers(r)
<1> DEFINE c == guest[r.i]
           e == snap[r.i]
           d == IncreaseDelta(ConfigUsage(e), ConfigUsage(c))
<1>go. c # None /\ c \in GoodConfigs /\ e \in GoodConfigs /\ r.i \in Ids /\ guest \in Pools /\ Keeps(c, e)
  <2>1. c # None /\ e # None /\ r.i \in Ids /\ guest \in Pools /\ snap \in Pools
    BY RequestTyped DEF Feasible, Typed
  <2>2. c \in GoodConfigs /\ e \in GoodConfigs
    BY <2>1 DEF Pools
  <2>3. Keeps(c, e)
    BY <2>1 DEF UnusedStay
  <2> QED
    BY <2>1, <2>2, <2>3
<1>is. DeltaOf(r, guest, snap) = d /\ After(r, guest, snap) = [guest EXCEPT ![r.i] = e]
  BY DEF DeltaOf, After
<1>here. guest[r.i] = c
  OBVIOUS
<1> HIDE DEF c, e
<1>d. d \in Vec /\ (\A st \in Storages : d[st] <= Most) /\ Leq(GuestUsage(e), Plus(GuestUsage(c), d))
  BY <1>go, RollbackCharged DEF Keeps
<1> HIDE DEF d
<1>pool. [guest EXCEPT ![r.i] = e] \in Pools
  BY <1>go, PoolWith
<1>use. Leq(UserUsage([guest EXCEPT ![r.i] = e]), Plus(UserUsage(guest), Pos(d)))
  BY <1>go, <1>here, <1>d, PoolGrows
<1> QED
  BY <1>d, <1>is, <1>pool, <1>use DEF ChargeCovers

\* A restore: all of the backup, even over a guest that goes.
LEMMA RestoreCovers ==
  ASSUME Charged, Typed, NEW r \in Requests, r.act = "restore", Feasible(r)
  PROVE  ChargeCovers(r)
<1> DEFINE c == Head(backup)
           e == Cloned(c, r)
           d == ConfigUsage(c)
<1>go. c \in GoodConfigs /\ r.i \in Ids /\ guest \in Pools /\ r.st = None
  BY RequestTyped DEF Feasible, Typed, Charged
<1>is. DeltaOf(r, guest, snap) = d /\ After(r, guest, snap) = [guest EXCEPT ![r.i] = e]
  BY DEF DeltaOf, After, parseConfText
<1> HIDE DEF c
<1>e. e \in GoodConfigs /\ GuestUsage(e) = d
  BY <1>go, ClonedGood, RestoreCharged
<1>d. d \in Amounts /\ \A st \in Storages : d[st] <= Most
  BY <1>e, UsageAt
<1> HIDE DEF e, d
<1>leq. Leq(GuestUsage(e), d) /\ d \in Vec
  BY <1>d, <1>e DEF Leq, Amounts, Vec
<1>pool. [guest EXCEPT ![r.i] = e] \in Pools
  BY <1>go, <1>e, PoolWith
<1>use. Leq(UserUsage([guest EXCEPT ![r.i] = e]), Plus(UserUsage(guest), Pos(d)))
  BY <1>go, <1>e, <1>d, <1>leq, PoolGains
<1> QED
  BY <1>d, <1>is, <1>leq, <1>pool, <1>use DEF ChargeCovers

\* A raw volume: charged, though no guest shows it yet.
LEMMA AllocCovers ==
  ASSUME Typed, NEW r \in Requests, r.act = "alloc", Feasible(r)
  PROVE  ChargeCovers(r)
<1> DEFINE n == ParseSize(r.size)
           d == StorageAllocDelta(r)
<1>go. r.i \in Ids /\ guest \in Pools /\ r.st \in Storages /\ r.size \in Sizes /\ Amount(r.size) <= MaxSize
  BY RequestTyped DEF Feasible, Typed
<1>is. DeltaOf(r, guest, snap) = d /\ After(r, guest, snap) = guest
  BY <1>go DEF DeltaOf, After, Pools
<1>n. n \in Nat /\ n <= MaxSize
  BY <1>go, SizeRead
<1>d. d = One(r.st, n)
  BY <1>n DEF StorageAllocDelta
<1> HIDE DEF n, d
<1>vec. d \in Vec /\ \A st \in Storages : d[st] <= Most
  BY <1>go, <1>n, <1>d, OneAt, OneDiskFits
<1>use. Leq(UserUsage(guest), Plus(UserUsage(guest), Pos(d)))
  BY <1>go, <1>vec, PoolUsage DEF Leq, Plus, Pos, Vec, Amounts
<1> QED
  BY <1>go, <1>is, <1>vec, <1>use DEF ChargeCovers

\* Every request that PVE would carry out is charged for what it adds.
LEMMA AllCovered ==
  ASSUME Charged, Typed, UnusedStay, NEW r \in Requests, Feasible(r)
  PROVE  ChargeCovers(r)
  BY RequestTyped, CreateCovers, CloneCovers, ConfigCovers, ResizeCovers, MoveCovers,
     RollbackCovers, RestoreCovers, AllocCovers

\* Whatever PVE carries out leaves configurations behind that it could make.
LEMMA AfterTyped ==
  ASSUME Typed, NEW r \in Requests, Feasible(r)
  PROVE  After(r, guest, snap) \in Pools
<1> DEFINE c == guest[r.i]
           Put(e) == [guest EXCEPT ![r.i] = e]
<1>i. r.i \in Ids /\ guest \in Pools /\ snap \in Pools /\ c \in GoodConfigs \cup {None}
  BY RequestTyped DEF Typed, Pools
<1>put. ASSUME NEW e \in GoodConfigs PROVE Put(e) \in Pools
  BY <1>i DEF Pools
<1>1. CASE r.act = "create"
  <2>1. NewConfig(r) \in GoodConfigs
    BY <1>1, NewConfigGood DEF Feasible
  <2> QED
    BY <1>1, <1>put, <2>1 DEF After
<1>2. CASE r.act = "clone"
  <2>1. guest[r.src] \in GoodConfigs
    BY <1>2, <1>i, RequestTyped DEF Feasible, Pools
  <2>2. Cloned(guest[r.src], r) \in GoodConfigs
    BY <2>1, ClonedGood
  <2> QED
    BY <1>2, <1>put, <2>2 DEF After
<1>3. CASE r.act = "config"
  <2>1. /\ c \in GoodConfigs /\ Allocatable(r)
        /\ (\E k \in Keys : r.disks[k] # None /\ c.disks[k] # None) => FreeKeys(c) # {}
    BY <1>3, <1>i DEF Feasible
  <2>2. Edited(c, r) \in GoodConfigs
    BY <2>1, EditedGood
  <2>3. After(r, guest, snap) = Put(Edited(c, r))
    BY <1>3, <1>i DEF After, Pools
  <2> QED
    BY <1>put, <2>2, <2>3
<1>4. CASE r.act = "resize"
  <2>1. /\ c \in GoodConfigs /\ c.disks[r.key] # None /\ c.disks[r.key].inline
        /\ Resized(c.disks[r.key].size, r) \in c.disks[r.key].size .. MaxSize
    BY <1>4, <1>i DEF Feasible
  <2>2. Grown(c, r) \in GoodConfigs
    BY <1>4, <2>1, ResizeCharged
  <2>3. After(r, guest, snap) = Put(Grown(c, r))
    BY <1>4, <1>i DEF After, Pools
  <2> QED
    BY <1>put, <2>2, <2>3
<1>5. CASE r.act = "move"
  <2>1. c \in GoodConfigs /\ c.disks[r.key] # None /\ (r.drop \/ FreeKeys(c) # {})
    BY <1>5, <1>i DEF Feasible
  <2>2. Moved(c, r) \in GoodConfigs
    BY <1>5, <2>1, MovedGood
  <2>3. After(r, guest, snap) = Put(Moved(c, r))
    BY <1>5, <1>i DEF After, Pools
  <2> QED
    BY <1>put, <2>2, <2>3
<1>6. CASE r.act = "rollback"
  <2>1. snap[r.i] \in GoodConfigs
    BY <1>6, <1>i DEF Feasible, Pools
  <2> QED
    BY <1>6, <1>put, <2>1 DEF After
<1>7. CASE r.act = "restore"
  <2>1. Head(backup) \in GoodConfigs
    BY <1>7 DEF Feasible, Typed
  <2>2. Cloned(Head(backup), r) \in GoodConfigs
    BY <2>1, ClonedGood
  <2> QED
    BY <1>7, <1>put, <2>2 DEF After
<1>8. CASE r.act = "alloc"
  BY <1>8, <1>i DEF After, Pools
<1> QED
  BY <1>1, <1>2, <1>3, <1>4, <1>5, <1>6, <1>7, <1>8, RequestTyped

\* The empty pool has the types.
LEMMA TypedInit == Init => Typed
  BY DEF Init, Typed, Pools

\* Every step keeps the types.
LEMMA TypedStep ==
  ASSUME Typed, [Next]_vars
  PROVE  Typed'
<1>now. guest \in Pools /\ snap \in Pools /\ (backup # None => Head(backup) \in GoodConfigs)
  BY DEF Typed
<1>1. ASSUME NEW r \in Requests, Admit(r) PROVE Typed'
  <2>1. After(r, guest, snap) \in Pools /\ r.i \in Ids
    BY <1>1, AfterTyped, RequestTyped DEF Admit
  <2>2. guest' \in Pools
    BY <1>1, <2>1 DEF Admit
  <2>3. snap' \in Pools
    BY <1>now, <1>1, <2>1 DEF Admit, Pools
  <2>4. backup' = backup
    BY <1>1 DEF Admit
  <2> QED
    BY <1>now, <2>2, <2>3, <2>4 DEF Typed
<1>2. ASSUME NEW i \in Ids, Snapshot(i) PROVE Typed'
  <2>1. snap' \in Pools
    BY <1>now, <1>2 DEF Snapshot, Pools
  <2>2. guest' = guest /\ backup' = backup
    BY <1>2 DEF Snapshot
  <2> QED
    BY <1>now, <2>1, <2>2 DEF Typed
<1>3. ASSUME NEW i \in Ids, Backup(i) PROVE Typed'
  <2>1. guest[i] \in GoodConfigs
    BY <1>now, <1>3 DEF Backup, Pools
  <2>2. Head(<<guest[i]>>) = guest[i] /\ Head(<<guest[i], snap[i]>>) = guest[i]
    OBVIOUS
  <2>3. Head(backup') \in GoodConfigs
    BY <1>3, <2>1, <2>2 DEF Backup
  <2>4. guest' = guest /\ snap' = snap
    BY <1>3 DEF Backup
  <2> QED
    BY <1>now, <2>3, <2>4 DEF Typed
<1>4. ASSUME NEW i \in Ids, Destroy(i) PROVE Typed'
  <2>1. guest' \in Pools /\ snap' \in Pools
    BY <1>now, <1>4 DEF Destroy, Pools
  <2>2. backup' = backup
    BY <1>4 DEF Destroy
  <2> QED
    BY <1>now, <2>1, <2>2 DEF Typed
<1>5. ASSUME UNCHANGED vars PROVE Typed'
  BY <1>5 DEF vars, Typed
<1>6. ASSUME NEW v, Discard(v) PROVE Typed'
  BY <1>6 DEF Discard, Typed
<1> QED
  BY <1>1, <1>2, <1>3, <1>4, <1>5, <1>6 DEF Next

\* A guest that is changed by a request has the unused volumes of its snapshot
\* afterwards too.
LEMMA KeepsUnused ==
  ASSUME Charged, Typed, UnusedStay, NEW r \in Requests, Feasible(r), r.act # "restore", snap[r.i] # None
  PROVE  After(r, guest, snap)[r.i] # None /\ Keeps(After(r, guest, snap)[r.i], snap[r.i])
<1> DEFINE c == guest[r.i]
           s == snap[r.i]
           f == After(r, guest, snap)[r.i]
<1>i. r.i \in Ids /\ guest \in Pools /\ c # None /\ c \in GoodConfigs /\ s \in GoodConfigs /\ Keeps(c, s)
  <2>1. r.i \in Ids /\ guest \in Pools /\ snap \in Pools
    BY RequestTyped DEF Typed
  <2>2. c # None /\ Keeps(c, s)
    BY <2>1 DEF UnusedStay
  <2> QED
    BY <2>1, <2>2 DEF Pools
<1>free. ASSUME NEW k \in Keys, s.disks[k] # None, ~ s.disks[k].inline, ~ s.disks[k].cdrom
         PROVE  k \in UnusedKeys /\ c.disks[k] = s.disks[k]
  BY <1>i, <1>free DEF GoodConfigs, Keeps
<1>new. CASE r.act \in {"create", "clone"}
  BY <1>new, <1>i DEF Feasible
<1>config. CASE r.act = "config"
  <2>1. /\ Allocatable(r) /\ ~ r.unset
        /\ \A k \in Keys : r.disks[k] = None \/ c.disks[k] = None
    BY <1>config DEF Feasible, Charged
  <2>2. /\ Edited(c, r) \in GoodConfigs
        /\ Edited(c, r).disks = [k \in Keys |-> IF r.disks[k] # None THEN Placed(r.disks[k]) ELSE c.disks[k]]
    BY <1>i, <2>1, EditedGood
  <2>3. f = Edited(c, r)
    BY <1>config, <1>i DEF After, Pools
  <2> HIDE DEF c, s, f
  <2>4. Keeps(f, s)
    BY <1>free, <2>1, <2>2, <2>3 DEF Keeps
  <2> QED
    BY <2>2, <2>3, <2>4, GoodIsSome DEF f, s
<1>resize. CASE r.act = "resize"
  <2>1. /\ c.disks[r.key] # None /\ c.disks[r.key].inline
        /\ Resized(c.disks[r.key].size, r) \in c.disks[r.key].size .. MaxSize
    BY <1>resize DEF Feasible
  <2>2. /\ Grown(c, r) \in GoodConfigs
        /\ Grown(c, r).disks = [c.disks EXCEPT ![r.key] =
              [c.disks[r.key] EXCEPT !.size = Resized(c.disks[r.key].size, r)]]
    BY <1>i, <1>resize, <2>1, ResizeCharged
  <2>3. f = Grown(c, r)
    BY <1>resize, <1>i DEF After, Pools
  <2>4. r.key \in Keys /\ c.disks \in [Keys -> Disks \cup {None}]
    BY <1>i, <1>resize, RequestTyped DEF GoodConfigs, Configs
  <2> HIDE DEF c, s, f
  <2>5. \A k \in Keys : k # r.key => f.disks[k] = c.disks[k]
    BY <2>2, <2>3, <2>4
  <2>6. Keeps(f, s)
    BY <1>free, <2>1, <2>5 DEF Keeps
  <2> QED
    BY <2>2, <2>3, <2>6, GoodIsSome DEF f, s
<1>move. CASE r.act = "move"
  <2>1. c.disks[r.key] # None /\ (r.drop \/ FreeKeys(c) # {}) /\ r.key \notin UnusedKeys
    BY <1>move DEF Feasible, Charged
  <2>2. /\ Moved(c, r) \in GoodConfigs
        /\ Moved(c, r).disks = [k \in Keys |->
              IF k = r.key THEN [c.disks[r.key] EXCEPT !.st = r.st]
              ELSE IF k = UnusedKey(c) /\ ~ r.drop /\ c.disks[r.key].st # r.st THEN Detached(c.disks[r.key])
              ELSE c.disks[k]]
    BY <1>i, <1>move, <2>1, MovedGood
  <2>3. f = Moved(c, r)
    BY <1>move, <1>i DEF After, Pools
  <2>4. ~ r.drop => c.disks[UnusedKey(c)] = None
    BY <2>1, UnusedKeyFree
  <2> HIDE DEF c, s, f
  <2>5. \A k \in Keys : k # r.key /\ c.disks[k] # None => f.disks[k] = c.disks[k]
    BY <2>2, <2>3, <2>4
  <2>6. Keeps(f, s)
    BY <1>free, <2>1, <2>5 DEF Keeps
  <2> QED
    BY <2>2, <2>3, <2>6, GoodIsSome DEF f, s
<1>rollback. CASE r.act = "rollback"
  <2>1. f = s
    BY <1>rollback, <1>i DEF After, Pools
  <2>2. Keeps(s, s)
    BY DEF Keeps
  <2> QED
    BY <1>i, <2>1, <2>2, GoodIsSome
<1>alloc. CASE r.act = "alloc"
  <2>1. f = c
    BY <1>alloc, <1>i DEF After, Pools
  <2> QED
    BY <1>i, <2>1
<1> QED
  BY <1>new, <1>config, <1>resize, <1>move, <1>rollback, <1>alloc, RequestTyped

\* Without guests there are no snapshots.
LEMMA UnusedInit == Init => UnusedStay
  BY DEF Init, UnusedStay

\* Every step keeps the unused volumes of the snapshots.
LEMMA UnusedStep ==
  ASSUME Charged, Typed, UnusedStay, [Next]_vars
  PROVE  UnusedStay'
<1>now. /\ guest \in Pools /\ snap \in Pools
        /\ \A i \in Ids : snap[i] # None => guest[i] # None /\ Keeps(guest[i], snap[i])
  BY DEF Typed, UnusedStay
<1>goal. ASSUME \A i \in Ids : snap'[i] # None => guest'[i] # None /\ Keeps(guest'[i], snap'[i])
         PROVE  UnusedStay'
  BY <1>goal DEF UnusedStay, Keeps
<1>self. \A c : Keeps(c, c)
  BY DEF Keeps
<1>1. ASSUME NEW r \in Requests, Admit(r) PROVE UnusedStay'
  <2>1. /\ r.i \in Ids /\ Feasible(r) /\ guest' = After(r, guest, snap)
        /\ snap' = IF r.act = "restore" THEN [snap EXCEPT ![r.i] = None] ELSE snap
    BY <1>1, RequestTyped DEF Admit
  <2>2. \A i \in Ids : i # r.i => guest'[i] = guest[i] /\ snap'[i] = snap[i]
    BY <1>now, <2>1 DEF After, Pools
  <2>3. snap'[r.i] # None => r.act # "restore" /\ snap'[r.i] = snap[r.i]
    BY <1>now, <2>1 DEF Pools
  <2>4. snap'[r.i] # None => guest'[r.i] # None /\ Keeps(guest'[r.i], snap'[r.i])
    BY <2>1, <2>3, KeepsUnused
  <2> QED
    BY <1>now, <1>goal, <2>2, <2>4
<1>2. ASSUME NEW i \in Ids, Snapshot(i) PROVE UnusedStay'
  <2>1. /\ guest' = guest /\ guest[i] # None
        /\ \A j \in Ids : snap'[j] = IF j = i THEN guest[i] ELSE snap[j]
    BY <1>2, <1>now DEF Snapshot, Pools
  <2> QED
    BY <1>now, <1>goal, <1>self, <2>1
<1>3. ASSUME NEW i \in Ids, Backup(i) PROVE UnusedStay'
  <2>1. guest' = guest /\ snap' = snap
    BY <1>3 DEF Backup
  <2> QED
    BY <1>now, <1>goal, <2>1
<1>4. ASSUME NEW i \in Ids, Destroy(i) PROVE UnusedStay'
  <2>1. \A j \in Ids : /\ guest'[j] = IF j = i THEN None ELSE guest[j]
                       /\ snap'[j] = IF j = i THEN None ELSE snap[j]
    BY <1>4, <1>now DEF Destroy, Pools
  <2> QED
    BY <1>now, <1>goal, <2>1
<1>5. ASSUME UNCHANGED vars PROVE UnusedStay'
  <2>1. guest' = guest /\ snap' = snap
    BY <1>5 DEF vars
  <2> QED
    BY <1>now, <1>goal, <2>1
<1>6. ASSUME NEW v, Discard(v) PROVE UnusedStay'
  <2>1. guest' = guest /\ snap' = snap
    BY <1>6 DEF Discard
  <2> QED
    BY <1>now, <1>goal, <2>1
<1> QED
  BY <1>1, <1>2, <1>3, <1>4, <1>5, <1>6 DEF Next

-----------------------------------------------------------------------------
(* The pool within the quota.                                              *)

\* The invariant of the arithmetic: the types, the unused volumes of snapshots
\* and the quota itself, which keeps the sums within the width.
PoolInv == Typed /\ UnusedStay /\ LimitsRespected

\* The quota in bytes is an amount.
LEMMA LimitType ==
  /\ LimitBytes \in Amounts
  /\ \A st \in Storages : LimitBytes[st] + Most + GiB <= Half
<1>1. Limit \in [Dims -> Nat] /\ GiB \in Nat /\ Storages \subseteq Dims
  BY AccountingAssumption
<1>2. \A st \in Storages : Limit[st] * GiB \in Nat /\ Limit[st] * GiB + Most + GiB <= Half
  BY <1>1, WidthAssumption
<1> QED
  BY <1>1, <1>2 DEF LimitBytes, Amounts

\* What a pool within its quota has and what a request asks for are summed up
\* without overflow, so that the proxy's verdict is the true one.
LEMMA TrueVerdict ==
  ASSUME Typed, LimitsRespected, NEW r \in Requests, ChargeCovers(r)
  PROVE  LET d == DeltaOf(r, guest, snap) IN
         admits(UserUsage(guest), d) <=> checkQuota(UserUsage(guest), d, LimitBytes)
<1> DEFINE u == UserUsage(guest)
           d == DeltaOf(r, guest, snap)
<1>u. u \in Amounts /\ Leq(u, LimitBytes)
  BY PoolUsage DEF Typed, LimitsRespected
<1>d. d \in Vec /\ \A st \in Storages : d[st] <= Most
  BY DEF ChargeCovers
<1> HIDE DEF u, d
<1>fits. \A st \in Storages : u[st] + d[st] + GiB <= Half
  <2> SUFFICES ASSUME NEW st \in Storages PROVE u[st] + d[st] + GiB <= Half
    OBVIOUS
  <2>1. LimitBytes[st] \in Nat /\ LimitBytes[st] + Most + GiB <= Half /\ st \in Dims
    BY LimitType, DimCases DEF Amounts
  <2>2. u[st] \in Nat /\ u[st] <= LimitBytes[st] /\ d[st] \in Int /\ d[st] <= Most
    BY <1>u, <1>d, <2>1 DEF Amounts, Leq, Vec
  <2>3. GiB \in Nat /\ Half \in Nat /\ Most \in Nat
    BY AccountingAssumption, OneDiskFits
  <2> QED
    BY <2>1, <2>2, <2>3
<1>verdict. admits(u, d) <=> checkQuota(u, d, LimitBytes)
  BY <1>u, <1>d, <1>fits, VerdictInBytes DEF Amounts
<1> QED
  BY <1>verdict DEF u, d

\* The empty pool is within any quota.
LEMMA LimitsInit == Init => LimitsRespected
<1> SUFFICES ASSUME Init PROVE LimitsRespected
  OBVIOUS
<1>1. Present(guest) = {}
  BY DEF Init, Present
<1>2. UserUsage(guest) = Zero
  BY <1>1, TotalEmpty DEF UserUsage
<1> QED
  BY <1>2, LimitType DEF LimitsRespected, Leq, Zero, Amounts

\* A step that adds no more than what the check allows leaves the pool within
\* the quota; what is not asked for is not compared, and does not grow.
LEMMA LimitsStep ==
  ASSUME Charged, PoolInv, [Next]_vars
  PROVE  LimitsRespected'
<1> DEFINE u == UserUsage(guest)
<1>now. Typed /\ UnusedStay /\ LimitsRespected /\ guest \in Pools /\ u \in Amounts /\ Leq(u, LimitBytes)
  BY PoolUsage DEF PoolInv, Typed, LimitsRespected
<1>goal. ASSUME NEW gs, guest' = gs, Leq(UserUsage(gs), LimitBytes) PROVE LimitsRespected'
  <2>1. UserUsage(guest)' = UserUsage(gs)
    BY <1>goal DEF UserUsage, Present, GuestUsage, Footprint, DisksOn, DiskKeys, totalCores
  <2> QED
    BY <1>goal, <2>1 DEF LimitsRespected, Leq, LimitBytes
<1>1. ASSUME NEW r \in Requests, Admit(r) PROVE LimitsRespected'
  <2> DEFINE d == DeltaOf(r, guest, snap)
             w == UserUsage(After(r, guest, snap))
  <2>1. Feasible(r) /\ guest' = After(r, guest, snap) /\ (positive(d) => admits(u, d))
    BY <1>1 DEF Admit
  <2>2. ChargeCovers(r)
    BY <1>now, <2>1, AllCovered
  <2>3. d \in Vec /\ After(r, guest, snap) \in Pools /\ Leq(w, Plus(u, Pos(d)))
    BY <2>2 DEF ChargeCovers
  <2>4. w \in Amounts
    BY <2>3, PoolUsage
  <2>5. positive(d) => checkQuota(u, d, LimitBytes)
    BY <1>now, <2>1, <2>2, TrueVerdict
  <2> HIDE DEF u, d, w
  <2>6. Leq(w, LimitBytes)
    BY <1>now, <2>3, <2>4, <2>5, LimitType DEF positive, checkQuota, Leq, Plus, Pos, Vec, Amounts
  <2> QED
    BY <1>goal, <2>1, <2>6 DEF w
<1>2. ASSUME NEW i \in Ids, Snapshot(i) \/ Backup(i) PROVE LimitsRespected'
  BY <1>now, <1>goal, <1>2 DEF Snapshot, Backup
<1>3. ASSUME NEW i \in Ids, Destroy(i) PROVE LimitsRespected'
  <2> DEFINE w == UserUsage([guest EXCEPT ![i] = None])
             g == GuestUsage(guest[i])
  <2>1. guest' = [guest EXCEPT ![i] = None] /\ guest[i] # None
    BY <1>3 DEF Destroy
  <2>2. guest[i] \in GoodConfigs /\ u = Plus(g, w) /\ [guest EXCEPT ![i] = None] \in Pools
    BY <1>now, <2>1, PoolNow
  <2>3. w \in Amounts /\ g \in Amounts
    BY <2>2, PoolUsage, UsageAt
  <2> HIDE DEF u, w, g
  <2>4. Leq(w, LimitBytes)
    BY <1>now, <2>2, <2>3, LimitType DEF Leq, Plus, Amounts
  <2> QED
    BY <1>goal, <2>1, <2>4 DEF w
<1>4. ASSUME UNCHANGED vars PROVE LimitsRespected'
  BY <1>now, <1>goal, <1>4 DEF vars
<1>5. ASSUME NEW v, Discard(v) PROVE LimitsRespected'
  BY <1>now, <1>goal, <1>5 DEF Discard
<1> QED
  BY <1>1, <1>2, <1>3, <1>4, <1>5 DEF Next

\* Every state satisfies the invariant of the arithmetic.
LEMMA PoolInvHolds ==
  ASSUME Charged
  PROVE  Spec => []PoolInv
<1>1. Init => PoolInv
  BY TypedInit, UnusedInit, LimitsInit DEF PoolInv
<1>2. PoolInv /\ [Next]_vars => PoolInv'
  <2> SUFFICES ASSUME PoolInv, [Next]_vars PROVE PoolInv'
    OBVIOUS
  <2>1. Typed /\ UnusedStay
    BY DEF PoolInv
  <2>2. Typed' /\ UnusedStay' /\ LimitsRespected'
    BY <2>1, TypedStep, UnusedStep, LimitsStep
  <2> QED
    BY <2>2 DEF PoolInv
<1> QED
  BY <1>1, <1>2, PTL DEF Spec

\* The configurations, snapshots and backups are ones that PVE can make, for
\* whatever requests: sizes within bounds, a volume without a size in its line
\* filed as unused.
THEOREM ConfigurationsTyped == Spec => []Typed
<1>1. Typed /\ [Next]_vars => Typed'
  BY TypedStep
<1> QED
  BY <1>1, TypedInit, PTL DEF Spec

\* If the requests are such that their disks are priced in full, and none is of
\* the other kinds that Charged rules out, delta.go never charges less than what
\* a request adds to the pool, whatever came before: creates, clones, edits,
\* resizes, moves, rollbacks, restores, raw volumes and their attachment, for
\* any pool, any quota and any sizes the width holds.
THEOREM DeltasCover ==
  ASSUME Charged
  PROVE  Spec => []DeltaCovers
<1>1. PoolInv => DeltaCovers
  <2> SUFFICES ASSUME PoolInv, NEW r \in Requests, Feasible(r)
               PROVE  Leq(UserUsage(After(r, guest, snap)),
                          Plus(UserUsage(guest), Pos(DeltaOf(r, guest, snap))))
    BY DEF DeltaCovers
  <2>1. ChargeCovers(r)
    BY AllCovered DEF PoolInv
  <2> QED
    BY <2>1 DEF ChargeCovers
<1> QED
  BY <1>1, PoolInvHolds, PTL

\* For such requests CreateDelta, ConfigDelta and ResizeDelta are the true change
\* of the pool's usage, a decrease included.
THEOREM DeltasExact ==
  ASSUME Charged
  PROVE  Spec => []DeltaExact
<1>1. PoolInv => DeltaExact
  <2> SUFFICES ASSUME PoolInv, NEW r \in Requests, Feasible(r), r.act \in {"create", "config", "resize"}
               PROVE  UserUsage(After(r, guest, snap)) = Plus(UserUsage(guest), DeltaOf(r, guest, snap))
    BY DEF DeltaExact
  <2>1. ChargeCovers(r)
    BY AllCovered DEF PoolInv
  <2> QED
    BY <2>1 DEF ChargeCovers
<1> QED
  BY <1>1, PoolInvHolds, PTL

\* After any sequence of such requests that were admitted the pool is within the
\* quota.  Charged is needed: an existing volume attached without a size=, for
\* one, is admitted unchecked and can take the pool above it.
THEOREM PoolWithinLimits ==
  ASSUME Charged
  PROVE  Spec => []LimitsRespected
<1>1. PoolInv => LimitsRespected
  BY DEF PoolInv
<1> QED
  BY <1>1, PoolInvHolds, PTL

\* In every state the verdict in whole GiB, computed with wrapping integers, is
\* the one in bytes: no sum that the check forms overflows.
THEOREM VerdictsTrue ==
  ASSUME Charged
  PROVE  Spec => []SameVerdict
<1>1. PoolInv => SameVerdict
  <2> SUFFICES ASSUME PoolInv, NEW r \in Requests, Feasible(r)
               PROVE  LET d == DeltaOf(r, guest, snap) IN
                      admits(UserUsage(guest), d) <=> checkQuota(UserUsage(guest), d, LimitBytes)
    BY DEF SameVerdict
  <2>1. Typed /\ LimitsRespected /\ ChargeCovers(r)
    BY AllCovered DEF PoolInv
  <2> QED
    BY <2>1, TrueVerdict
<1> QED
  BY <1>1, PoolInvHolds, PTL

-----------------------------------------------------------------------------
(* The alarm.                                                              *)

\* UserUsage has an entry for a storage exactly if the pool has bytes there.
LEMMA MountedMeansUsed ==
  ASSUME NEW gs \in Pools, NEW st \in Storages
  PROVE  st \in Mounted(gs) <=> UserUsage(gs)[st] > 0
<1>dim. st \in Dims /\ IsFiniteSet(Keys)
  BY DimCases, AccountingAssumption
<1>1. ASSUME st \in Mounted(gs) PROVE UserUsage(gs)[st] > 0
  <2>1. PICK i \in Ids : gs[i] # None /\ \E k \in DiskKeys(gs[i]) : gs[i].disks[k].st = st
    BY <1>1 DEF Mounted, Present
  <2>2. PICK k \in DiskKeys(gs[i]) : gs[i].disks[k].st = st
    BY <2>1
  <2> DEFINE c == gs[i]
             n == c.disks[k].size
             p == [x \in Keys |-> IF x = k THEN n ELSE 0]
             rest == UserUsage([gs EXCEPT ![i] = None])
  <2>3. /\ c \in GoodConfigs /\ UserUsage(gs) = Plus(GuestUsage(c), rest)
        /\ rest \in Amounts /\ GuestUsage(c) \in Amounts
    BY <2>1, PoolNow, PoolUsage, UsageAt
  <2>4. k \in Keys /\ n \in Nat /\ n > 0
    BY <2>2, <2>3, AccountingAssumption DEF DiskKeys, GoodConfigs
  <2>5. \A x \in Keys : p[x] \in Int /\ p[x] <= OnStorage(c, st)[x] /\ OnStorage(c, st)[x] \in Nat
    <3>1. \A x \in Keys : OnStorage(c, st)[x] \in Nat
      BY <2>3, DiskTerms
    <3>2. OnStorage(c, st)[k] = n
      BY <2>2, <2>4 DEF OnStorage
    <3> HIDE DEF c, n
    <3> QED
      BY <2>4, <3>1, <3>2
  <2>6. Sum(p, Keys) = n
    <3>1. \A x \in Keys : p[x] = IF x = k THEN n ELSE 0
      OBVIOUS
    <3> HIDE DEF p, n
    <3> QED
      BY <2>4, <3>1, KeyPoint
  <2> HIDE DEF c, n, p, rest
  <2>7. Sum(p, Keys) <= Sum(OnStorage(c, st), Keys)
    BY <1>dim, <2>5, SumMonotone
  <2>8. GuestUsage(c)[st] = Sum(OnStorage(c, st), Keys)
    BY <2>3, UsageAt
  <2>9. GuestUsage(c)[st] >= n /\ GuestUsage(c)[st] \in Nat /\ rest[st] \in Nat
    BY <1>dim, <2>3, <2>6, <2>7, <2>8 DEF Amounts
  <2> QED
    BY <1>dim, <2>3, <2>4, <2>9 DEF Plus
<1>2. ASSUME st \notin Mounted(gs) PROVE UserUsage(gs)[st] = 0
  <2> DEFINE P == Present(gs)
             f == [i \in P |-> GuestUsage(gs[i])]
             z == [i \in P |-> 0]
  <2>1. IsFiniteSet(P)
    BY AccountingAssumption, FS_Subset DEF Present
  <2>2. ASSUME NEW i \in P PROVE f[i][st] = 0
    <3>1. gs[i] \in GoodConfigs /\ \A k \in DiskKeys(gs[i]) : gs[i].disks[k].st # st
      BY <1>2, <2>2 DEF Present, Pools, Mounted
    <3>2. \A k \in Keys : OnStorage(gs[i], st)[k] = 0
      BY <3>1 DEF OnStorage
    <3>3. Sum(OnStorage(gs[i], st), Keys) = 0
      BY <3>2, NoTerms
    <3> QED
      BY <3>1, <3>3, UsageAt
  <2>is. UserUsage(gs) = Total(f, P)
    BY DEF UserUsage
  <2>z. \A i \in P : z[i] = f[i][st] /\ z[i] = 0
    BY <2>2
  <2> HIDE DEF P, f, z
  <2>3. Total(f, P)[st] = Sum(z, P)
    BY <1>dim, <2>1, <2>z, TotalAt
  <2>4. Sum(z, P) = 0
    BY <2>1, <2>z, SumZero
  <2> QED
    BY <2>is, <2>3, <2>4
<1> QED
  BY <1>1, <1>2

\* The over_quota flag of /usage goes up exactly when the pool exceeds, in
\* bytes, the record it is compared with; for whatever requests came before.
THEOREM AlarmTrue == Spec => []AlarmExact
<1>1. Typed => AlarmExact
  <2> SUFFICES ASSUME Typed, NEW lim \in AlarmLimits
               PROVE  overQuota(guest, lim) <=>
                        \E d \in Dims : UserUsage(guest)[d] > IF d \notin DOMAIN lim THEN 0
                                                             ELSE IF d \in Storages THEN lim[d] * GiB ELSE lim[d]
    BY DEF AlarmExact
  <2> DEFINE u == UserUsage(guest)
             over(d) == u[d] > IF d \notin DOMAIN lim THEN 0
                              ELSE IF d \in Storages THEN lim[d] * GiB ELSE lim[d]
  <2>u. guest \in Pools /\ u \in Amounts
    BY PoolUsage DEF Typed
  <2>lim. /\ Dims \ Storages \subseteq DOMAIN lim /\ DOMAIN lim \subseteq Dims
          /\ \A d \in DOMAIN lim : lim[d] \in Nat
    BY AccountingAssumption
  <2>plain. \A d \in Dims \ Storages : u[d] > lim[d] <=> over(d)
    BY <2>lim
  <2>disk. ASSUME NEW st \in Storages
           PROVE  (st \in Mounted(guest) /\ (st \notin DOMAIN lim \/ (u[st] + GiB - 1) \div GiB > lim[st])) <=> over(st)
    <3>1. u[st] \in Nat /\ (st \in Mounted(guest) <=> u[st] > 0)
      BY <2>u, MountedMeansUsed, DimCases DEF Amounts
    <3> HIDE DEF u
    <3>2. CASE st \notin DOMAIN lim
      <4>1. over(st) <=> u[st] > 0
        BY <3>2
      <4> HIDE DEF over
      <4> QED
        BY <3>1, <3>2, <4>1
    <3>3. CASE st \in DOMAIN lim
      <4>1. lim[st] \in Nat /\ lim[st] * GiB \in Nat
        BY <2>lim, <3>3, AccountingAssumption
      <4>2. /\ (u[st] + GiB - 1) \div GiB \in Int
            /\ (u[st] + GiB - 1) \div GiB <= lim[st] <=> u[st] <= lim[st] * GiB
        BY <3>1, <4>1, DivisionRoundsUp
      <4> DEFINE q == (u[st] + GiB - 1) \div GiB
                 b == lim[st] * GiB
      <4>3. over(st) <=> u[st] > b
        BY <3>3
      <4> HIDE DEF q, over
      <4>4. q \in Int /\ (q <= lim[st] <=> u[st] <= b) /\ b \in Nat
        BY <4>1, <4>2 DEF q
      <4> HIDE DEF b
      <4>5. (q > lim[st] <=> u[st] > b) /\ (u[st] > b => u[st] > 0)
        BY <3>1, <4>1, <4>4
      <4> QED
        BY <3>1, <3>3, <4>3, <4>5 DEF q
    <3> QED
      BY <3>2, <3>3
  <2>in. Mounted(guest) \subseteq Storages /\ Storages \subseteq Dims
    <3>1. Mounted(guest) \subseteq Storages
      BY <2>u DEF Mounted, Present, Pools, GoodConfigs, Configs, Disks, DiskKeys
    <3> QED
      BY <3>1, DimCases
  <2>is. overQuota(guest, lim) <=>
           \/ \E d \in Dims \ Storages : u[d] > lim[d]
           \/ \E st \in Mounted(guest) : st \notin DOMAIN lim \/ (u[st] + GiB - 1) \div GiB > lim[st]
    BY DEF overQuota
  <2> HIDE DEF u, over
  <2>both. overQuota(guest, lim) <=> \E d \in Dims : over(d)
    BY <2>plain, <2>disk, <2>in, <2>is
  <2> QED
    BY <2>both DEF over, u
<1> QED
  BY <1>1, ConfigurationsTyped, PTL
=============================================================================
