# uq-proxy: a TLA+ verification project

`uq-proxy` is a reverse proxy in front of the Proxmox VE (PVE) API. It forwards
everything, except that writes which allocate resources are first checked
against a per-user quota. This project models what makes that check hard: it is
stateless (usage is recomputed from PVE for every request), PVE applies accepted
writes later and asynchronously, many requests run at once, the quota file is
reloaded while they run, and any read, answer or process may fail.

## The system

| Part | Source | State it keeps | Operations |
|---|---|---|---|
| Admission middleware | `internal/admission/admission.go` | one mutex per user; per request: the decision | `Middleware`, `decide`, `check`, `onErr`, `finalize*`, `waitMember`, `waitConfigChanged`, `deny` |
| Admission arithmetic | `internal/admission/delta.go` | none | `CreateDelta`, `ConfigDelta`, `ResizeDelta`, `CloneDelta`, `MoveDelta`, `IncreaseDelta`, `StorageAllocDelta` |
| Usage engine | `internal/usage` | none (reads PVE) | `UserUsage`, `GuestUsage`, `SnapshotUsage`, `RestoreUsage`, `PoolMemberSet` |
| Quota store | `internal/quota` | current configuration, file modification time | `Open`, `Watch`, `Get`, `Validate` |
| PVE API client | `internal/pve` | none | reads with a 15 s timeout |
| Reverse proxy, access log | `internal/proxy` | none | forwards; 502 if the upstream fails |
| Classification, identity | `internal/classify`, `internal/identity` | none | `Classify`, `FromRequest`: pure functions of the request |
| Audit and parameters | `internal/audit` | the buffered part of a body | `Params`, `readAndRestore`, `parseParams`, `IsRestore`, `Emit` |
| Process | `cmd/uq-proxy/main.go`, `deploy/` | flags, administrators, the two listeners | startup, signals, shutdown, `/healthz`, `/usage`, `/metrics`; restarted by systemd and by a watchdog |

**How they interact.** A request is classified and its user identified. Writes
that are no allocation, of administrators, or without `-enforce` are forwarded.
For the others the quota record is looked up, the user's mutex is taken, and
while it is held the delta of the request is computed (reading the guest it is
relative to), the pool's usage is added up guest by guest, usage plus delta is
compared with the limits, the write is forwarded, and the handler polls PVE until
the effect shows, for 10 seconds at most. A poller in the background replaces the quota
configuration when the file's modification time changes.

**What is hard.** Requests of one user that race for the same quota; reads
spread over time; a mutex per *user* that protects a budget per *pool*; a record
read before the mutex is waited for; settle loops that watch for a symptom of a
task instead of the task; lost replies, timeouts and crashes that leave a task
behind; a file caught in the middle of a write; a body of which a part is already
read when the client goes away or the limit is met; a process that is restarted
with a file it would have rejected as a reload. `PROJECT.json` lists these
hazards line by line with the properties that cover them.

**What correct means, per part.**

* Admission: no pool ever holds more than its quota; if something outside the
  proxy's control happens, only the pool it happened to may. Every request is
  answered, and the mutex is free again.
* Arithmetic: a delta is never less than what PVE then allocates; rounding never
  changes a verdict; the alarm of `/usage` agrees with the bytes.
* Usage: adding up guests one by one never under-counts the pool.
* Store: rejected files are never served, and no good one is missed.
* Gateway (classification, identity, parameters): what allocates is decided about,
  with the right user, kind and parameters; what is harmless passes; the body
  arrives as it was sent.
* Process: `-enforce` means that only administrators bypass the check, through
  every restart and reload; the proxy comes back.

## Modules

| Module | Models | 
|---|---|
| `Resource` | amounts as vectors over resource dimensions; `positive`, `IncreaseDelta`, `effectiveLimits`, `checkQuota` |
| `Pve` | the cluster (external): guests in pools, what they allocate, unfinished tasks |
| `Admission` | the middleware and usage engine as concurrent handlers over `Pve`, with reloads and crashes |
| `QuotaGate` | abstract specification: what admission promises, per pool |
| `QuotaStore` | the file watcher against an editor of the file |
| `Accounting` | usage and deltas computed from configurations, requests applied one at a time |
| `Gateway` | one request from its arrival to the last byte of its body upstream: classification, identity, body, routing |
| `Process` | main, systemd, the watchdog and the file's administrators |
| `MCAdmission`, `MCAccounting`, `MCGateway`, `MCProcess` | instances for TLC (`QuotaStore` needs none) |
| `ResourceProofs` | lemmas on sums over finite sets and on totals of vectors |
| `AdmissionProofs`, `QuotaGateProofs`, `QuotaStoreProofs`, `AccountingProofs`, `GatewayProofs`, `ProcessProofs` | theorems about the module of that name |
| `AdmissionRefinement` | `Admission` implements `QuotaGate`, and what follows for the quota |

The modules meet where the code's parts do. `Gateway` ends with a decision either
way and `Admission` begins with a decoded write; `Admission` takes amounts as
given and `Accounting` computes them; `Process` reloads in one step and
`QuotaStore` has the system calls of it; the loss of handlers when `Process`
exits is `Crash` in `Admission`, and that `Gateway` may leave out a missing store
or engine is `Process`'s `OnlyAdminsBypass`.

### Admission

A *slot* is a handler goroutine. Its program counter stops wherever the code
waits for a lock, an HTTP answer or a timer:

    idle -> lock -> base -> members -> sum -> forward -> answer -> settle -> idle

| Action | Code |
|---|---|
| `ArriveBypass`, `ArriveRefused`, `ArriveEnforced` | `Middleware` up to the lock, `handleUnknown`, `deny` |
| `Acquire` | `locks.get(user).Lock()` |
| `ReadBase` | `decide`: the read of the guest (or archive, or snapshot) the delta is relative to, and the delta; a request that needs nothing skips the check |
| `ReadMembers`, `ReadConfig` | `UserUsage`: the pool listing, then one guest at a time |
| `ErrDenies`, `ErrAllows` | `onErr` with and without `-fail-closed` |
| `CheckAllows`, `CheckDenies` | the verdict of `checkQuota` |
| `PveAccepts`, `PveRefuses` | `next.ServeHTTP`: PVE starts a task, or does not. In the extjs envelope a refusal too is a 200, and the handler settles in vain |
| `ReplyOk`, `ReplyLost` | the captured status: below 300, or the 502 of `ErrorHandler` |
| `Settled`, `SettleTimeout` | `waitMember`, `waitConfigChanged` |
| `Reload`, `Crash` | `Store.Watch`, the death and restart of the process |
| `TaskLands`, `TaskFails`, `GuestDestroyed`, `GuestTouched` | the cluster: tasks end; passed-through deletions and writes |

`Return` is what every path ends with: the deferred `Unlock`, if the lock was taken.

`slipped` is a history variable, read by no action: the pools for which something
happened that takes the change out of the proxy's hands. These events are
an unchecked or bypassed write to the pool, a write to a pool other than the
user's, a clone whose source grew after it was read, a swallowed listing error that changed a reading, a
fail-open decision, a handler that returns while its task is pending (timeout,
lost reply, edit without settle), a crash with a task pending, and a reload that
sets a limit below usage or replaces the record of a request in flight. Each is
attributed to the pool concerned, so that the properties say precisely which
events can lead over the quota, and that nothing else can.

### Pve

External, modelled from how the proxy uses it. An accepted write is a task that
lands or fails later; until then reads show the old state. Two tasks may be
unfinished at a time. PVE's permission check is the constant `Acl`. Raw volumes
(`alloc`, `upload`) appear in no guest configuration until one is attached, and so until
then neither in the usage the code computes nor in the usage the properties speak of. Attaching
one is an edit like any other; what it costs is in `Accounting`.

### QuotaGate

Per pool: `used`, `hold` (granted, not in effect), `limit`. A step grants what
fits, applies at most what was granted, frees, or sets a limit that is not
exceeded; or the pool slips. `Admission!ImplementsQuotaGate` is the refinement: `hold` is
the delta of the admitted request that has not taken effect. TLC checks it on `tenants`
and `AdmissionRefinement` proves it for all instances.

### QuotaStore

`Stat` and `ReadFile` are the system calls of `read`, which `Open` and each tick of `Watch` (`Poll`)
make; the editor replaces the file, rewrites it in place (leaving a rejected or an incomplete file
in between) or removes it between any two of them. An `Open` that fails is a start that fails, and
systemd makes another. `Torn` holds the incomplete files that validate: `Parse` accepts an
empty file, and one cut off between two records. `Coarse` says whether two writes may have the same
modification time.

### Accounting

Configurations are records of the counted keys, disks have a storage, a size, and
whether that size is in the configuration line or only in the storage listing
(`unused` volumes). A disk in a request is a specification: a number of GiB to
allocate (`A:1`), an existing volume (`A:vm-100-disk-1`) or anything else PVE makes a disk of (an
image to import), with or without a `size=`, and `parseCreateDisk` is what the proxy
makes of it. `raw` are the volumes that an allocation left and no configuration names: an edit or a
create may attach one, or it is deleted. The proxy's sums of bytes and the product in
`ParseSize` wrap at the width `Half` as int64 does
(`Wrap`); PVE's (`Amount`, `Placed`) do not, and cores and memory, which PVE bounds far
below any width, are not wrapped. The requests `TooLarge` wrap, some of
them to a small or a negative delta, and are among those PVE refuses, since a disk has at
most `MaxSize` (and is not empty). That refusal, not a check in the proxy, is what their soundness rests on.
`After` is what PVE does with a request; a guest that is restored has no snapshots.
`Charged` names the requests whose delta is what they add: every disk priced in full
(`PricedInFull`: a number of GiB without `size=`, or a `size=` that is true), no new disk under a key in
use, no setting removed, no unused volume moved, no restore to another storage. The code prices an existing
volume or an image without `size=` at nothing: those requests are modelled, and are not `Charged`. A backup keeps the
configuration and, as a second section, that of the snapshot; a restore is
charged by `parseConfText`. `overQuota` is the alarm of `/usage`, compared with
limits that may have changed since. Requests are admitted one at a time:
concurrency is in `Admission`, whose `res` and deltas are this module's
`GuestUsage` and deltas, and whose check in bytes is this module's check in GiB
(`SameVerdict`, `VerdictInBytes`).

### Gateway

The path is what stands between its slashes, "/" for the empty string between two that meet;
`splitEnvelope` and `splitSegs` make envelope and segments of it. The credentials are records of the parts the
parsers tell apart, the body is a sequence of bytes. `Inspect`, `ReadByte`,
`ReadFails`, `ReadWhole` are `Params` and `readAndRestore`: the buffer grows byte by byte up to
`maxBody + 1`, and is then either the body (`chained = FALSE`) or what comes
before the rest of the connection. `HandleUnknown`, `PassThrough`, `Bypass`, `Refuse`
and `Decide` are the routing of `Middleware`; `Decide` records what the decision
is based on (`basis`) and goes either way. `Send*` is the reverse proxy reading
the body, `ClientBreaks` a client that goes away at any point.

`Allocating`, `Harmless`, `Membership` and `Unlisted` are the reference: tables of
what PVE's endpoints do, written as patterns and independent of the nested
switches that `Classify` is, and of the paths as PVE reads them: below `/api2/json` and `/api2/extjs`,
without empty segments. `Allocating` says by which branch of `decide` each endpoint has to be decided about, and
`Sends` whom PVE takes the sender of a request to be: the owner of an API token, and without one
the user of the ticket. Neither is computed by the functions they judge.

### Process

`Start` is main up to the listeners (`Startable`: none of its exits is taken;
`required` stands for the required flags, URL and certificates), `Listen` and
`AdminListens` the two listeners, which come up or fail independently. A signal
ends the process while it starts and begins the shutdown afterwards; `Shutdown` closes the listener, which
makes `ListenAndServeTLS` return and main with it (`MainReturns`), so that
the 10 seconds given to handlers are not waited for. systemd starts the process
again and again; the watchdog restarts an active process whose `/healthz` does
not answer. The file is edited at any time, reloaded if it
validates, and read afresh by every start.

## Runs

Passing:

| Run | Instance | Shows |
|---|---|---|
| `flood` | 1 user, 3 handlers, 3 guests, 2 tasks, no failures; 19,810 states | `WithinQuota`, `SeesPriorEffect` |
| `tenants` | 2 users and an administrator, 2 pools, 2 handlers, every kind of write, all failures, fail-open; a reload moves a pool to another user, drops a user, lowers a limit and has an override for one of the 2 nodes requests name; 251,450 states | `ReadCoversUsage`, `TypeOK`, `LockDiscipline`, `PoolSerial`, `WithinQuotaUnlessSlipped`, `ImplementsQuotaGate` |
| `live` | 2 users with a handler each or both one's, PVE may never answer user 1, lost replies, failing reads and tasks that need not end, fail-closed; 50,740 states | `EveryRequestCompletes` under `FairSpec` |
| `store` | 3 good files, a bad one, an incomplete one that validates, 4 editor steps; 3,167 states | `TypeOK`, `CurrentWhenQuiet`, `Converges` |
| `accounting` | 2 guests, 2 storages, 3 disk keys, 21 requests, one snapshot, one backup and one raw volume; 87,809 states | `DeltaCovers`, `DeltaExact`, `LimitsRespected`, `SameVerdict`, `AlarmExact` |
| `gateway` | every method on 43 paths in both renderings of the API and 14 paths outside them or with slashes in excess; bodies of 0 to 5 bytes around a limit of 3 in every syntax; 42 combinations of credentials; 32,242 states | `TypeOK`, `BodyIntact`, `BufferBounded`, `CheckedOrHarmless`, `DeniesOnlyEnforced`, `Delivered` |
| `process` | 50 command lines, 3 quota files, 2 edits, a failure, 2 requests at once; 24,150 states | `TypeOK`, `OnlyAdminsBypass`, `ComesBack`, `SignalEndsProcess` |

Where code and comments part (each run has a finding in `PROJECT.json` that
quotes the comment):

| Run | Property | What happens |
|---|---|---|
| `lost_reply` | `NothingAppliedOnError` | a 502 does not mean that nothing was applied |
| `touch_settles_early` | `SettledMeansLanded` | any change of the configuration ends the wait |
| `torn_file` | `KeepsGood` | a file caught after the editor truncated it validates and replaces the good one |
| `stale_admins` | `ExemptAreListed` | a removed administrator stays exempt until the next restart |
| `replaced_disk` | `DeltaCovers` | a new disk under a used key is free of charge |

The same instances show more, with one constant changed.

* `flood` with an edit that is no increase *now* in `Ops` (`SeesPriorEffect`): nobody
  waits for it, although "each request sees the prior one's effect"
  (`admission.go:155-156`).
* `flood` with an override in `Configs` that is wider than the limit (`WithinQuota`): it
  replaces the limit for a pool counted over all nodes, although it "narrows limits"
  (`quota.go:20`).
* `touch_settles_early` with a restore over a guest of the pool in `Ops`
  (`SettledMeansLanded`): its VMID is there at once.
* `store` with `Coarse = TRUE` (`Converges`): a write that keeps the modification time is never loaded.
* `accounting` (`DeltaCovers`, and `LimitsRespected`) with `Requests <- AttachVolume`: a volume that was allocated and
  checked is attached by an edit without `size=`, at no charge. With `ImportImage`: so is an imported
  image. With `SizeBeside`: `A:1,size=1` is charged a byte and gets a GiB. With `UnsetMemory`: `delete=memory` returns
  a small guest to the default of 512 MiB unchecked. With `MoveUnused`: a volume
  without an inline size moves free of charge. With `RestoreElsewhere`: a restore to
  another storage is charged to the storages of the archive.

**Bounds.** `Slots` (requests at once), `TaskIds` (unfinished tasks), `Cap`
(what a guest may have), `MaxWrites` (editor steps), `MaxSize` (disk size), `Kept`
and `BackupKinds` (which guests get snapshots and backups), `MaxEdits` and
`MaxFaults` (edits of the quota file, failures of the process). Two
handlers suffice for every interference between two requests, three for a queue
behind a holder; two tasks for one of the handler and one of somebody else.
Amounts are small numbers chosen so that limits are met exactly and missed by
one: with limit 3, one guest of 1 and requests of 1 and 2. Two dimensions (one is
a storage) where requests differ in the dimension they raise, one in `tenants`
and `live`. One GiB is 4 bytes in `accounting`, so that sizes off the GiB
boundary occur, and int64 has 7 bits. A body limit of 3 with bodies of 0 to 5 bytes
has both sides of the limit and a rest to chain. One failure and two edits let the
process die with a file it cannot start from and have it repaired. Handlers and task ids are interchangeable (`Perms`); the
liveness run uses no symmetry. `Follow` keeps TLC from exploring `tenants` beyond states in
which *every* pool has slipped, for nothing is
promised there, and, once one has, beyond those in which a guest's other keys differ or a handler serves
a write that is not among the four `TenantOps`; all these states are checked but not left. Two pools that slip one
after the other, and `TypeOK`, `LockDiscipline` and `PoolSerial`, which are promised
whatever has slipped, are proved for all states. In `accounting` there is at most one raw volume of a storage and size. In `store` no deadlock is
checked: the watcher rests when the file does; nor in `gateway` and `process`,
where a request ends, and a process that cannot start stays down.

**Fairness.** The steps of a handler are goroutine steps after reads with a
client timeout (15 s) or loops with a deadline (10 s): weak fairness. `Acquire` is
strongly fair: a Go mutex hands itself to a waiter that has starved for 1 ms. The
proxy sets no response timeout (`proxy.go:47`), so that PVE answers a forwarded
write is assumed only for users outside `Stalled`, and their requests complete
whatever happens to the others. No task is assumed to end: `live` has "slow" among its `Faults`, and the
deadline of the settle loops is enough. The watcher's steps are weakly
fair: a ticker and system calls. The editor is not fair. In `Process`, systemd, the
reloads, the watchdog's timer and the steps of the shutdown are weakly fair; `Listen` and
`AdminListens` are strongly fair, for the listeners are up in milliseconds and the watchdog
comes by every 30 s; handlers are not fair at all. In `Gateway` the handler
is weakly fair, which includes that a client that stays sends its bytes: no read
timeout is set.

**Mutants.** Every property of a passing run is violated by a small change of the
model (`PROJECT.json`, `mutants`): the lock that does not wait, the missing
unlock, the off-by-one in the check, the settle that is skipped, and so on. The
mutated forms stand before the definitions they replace.

## Proofs

`AdmissionProofs`, for all constants that satisfy the named assumptions of
`Admission` (quota files validate; writes, worlds and `None` are well formed):

* `TypeCorrect`: `Spec => []TypeOK`. `TypeOK` includes where a handler has a request
  and a record, and is inductive.
* `LocksHold`: `Spec => []LockDiscipline`. Inductive together with `TypeOK`: both
  directions (who is inside holds the mutex, who holds it is inside) are needed.
  `ReturnLock` deals with all returning paths, `SameLocks` with all steps that
  neither enter nor leave.
* `PoolsSerial`: `Spec => []PoolSerial`. The strengthening is `RecordCurrent`: a
  request whose pool has not slipped carries the record the store has. Two
  such requests on one pool then have one user, since `Validate` keeps pools unshared,
  and by `LockDiscipline` they are one.

`QuotaGateProofs`: `GatePromise`, the abstract specification keeps usage plus
grant within the limit. The invariant is inductive because a grant is
never negative.

`ResourceProofs`: what the proofs need of `SumFunctionOnSet` and `Total`. The library's
induction theorems cannot be instantiated by the provers, so induction over a finite set is
a minimal counterexample: a non-empty set of subsets of a finite set has a minimal
member (`MinimalSet`, from the library's theorems on finite sets and well-founded orders), and a minimal subset on which a claim
fails has an element to take away. `FoldExists` and `SumFolds` turn the recursive function of the library's
fold into a recurrence; from it come the sum of a part (`SumOnPart`), of a point
(`SumPoint`), term-wise sums and comparisons (`SumAdds`, `SumMonotone`), splitting one element off
(`SumSplit`, `TotalSplit`), and summing up class by class (`SumByClass`).

`AdmissionRefinement`, with the assumptions of `Admission` (amounts are not negative, guests are finitely many):

* `HandlersWork`: `Spec => []Working`, five invariants that hold with every failure in
  play. `Stage` is what a handler knows at each program counter; `TaskOrder` that what PVE checked when it
  accepted a task still holds until the task ends; `Owned` that a task that will land in a pool that has not slipped
  belongs to the one handler inside the critical section of that pool; `Priced` that the
  delta this handler computed still pays for what its write will do;
  `Tallied` that the members of the pool that are no longer to be read are
  in the sum with at least what they have now.
* `ReadsCoverUsage`: `Spec => []ReadCoversUsage`, from `Tallied`.
* `Refinement`: `Spec => ImplementsQuotaGate`. Every step `Grants`, `Applies`, `Frees`
  or `Relimits` for every pool that has not slipped after it (`PoolStep`); leaving a pool alone is freeing nothing. Only one handler can hold
  a grant on a pool that has not slipped (`PoolsSerial`), so `hold` is one delta or zero.
* `QuotaKept`: `Spec => []WithinQuotaUnlessSlipped`, which is the refinement together with `GatePromise`.
* `PriorEffectSeen`: with every failure in play, while a handler decides about a pool that
  has not slipped no task is on its way there.
* `CalmStays`, `CalmOrder`, `CalmQuota`: nothing slips in a calm deployment, and so
  `SeesPriorEffect` and `WithinQuota` hold without exception there.

Two hypotheses are stated where they are needed and not assumed of the constants.
`NarrowOverrides`: an override of a node is not wider than the limit. `quota.go:20` says so,
`Validate` does not check it, and without it the quota is not kept (see the runs). `Calm`: the proxy
enforces and fails closed, nothing fails, the quota file stays, users create and clone guests in
the only pool they have rights on. TLC evaluates both on the instances that rely on them
(`OverridesNarrow`, `FloodIsCalm` in `MCAdmission`).

`QuotaStoreProofs`: `StoreTypeCorrect`; `StoreIsCurrent`, if every write has a later modification
time. The latter needs an invariant about the window between `Stat` and
`ReadFile` (`TimeInv`): the times the watcher knows are never ahead of the file's, and a
good file with the remembered time is the one served, wherever the watcher is.

`AccountingProofs`, for any storages, keys, sizes and quotas. `WidthAssumption`: a quota
and the disks of one guest, together with one GiB, fit the width (int64 holds 8 EiB).

* `VerdictInBytes`: comparing whole GiB rounded up is comparing
  bytes, for every size of a GiB, limit, usage and delta whose sum stays a GiB below
  the range of int64 (`WrapIsTrue`, `CeilIsLeast`).
* `ConfigurationsTyped`: `Spec => []Typed`. The configurations are ones PVE can make
  (`GoodConfigs`): sizes from 1 to `MaxSize`, and a volume without a size in its line is
  filed under an unused key.
* If the requests are `Charged`: `DeltasCover` (`[]DeltaCovers`), `DeltasExact` (`[]DeltaExact`),
  `PoolWithinLimits` (`[]LimitsRespected`) and `VerdictsTrue` (`[]SameVerdict`). The inductive
  invariant is `PoolInv`: the types, the quota itself, without which the sums of the
  check might overflow, and `UnusedStay`. The charge for a rollback leaves unused
  volumes out, and is enough only because those of a snapshot are still in the configuration of its
  guest. One lemma per kind of request (`CreateCharged`, ..., `RestoreCharged`) compares
  charge and effect disk key by disk key, one (`CreateCovers`, ..., `AllocCovers`)
  takes that to the pool. `SoundAreCharged` in `MCAccounting` has TLC evaluate `Charged`; what
  it leaves out is where `replaced_disk` and the variants above show
  `DeltaCovers` violated.
* `AlarmTrue`: `Spec => []AlarmExact`, for all requests. A storage is in the map that
  `UserUsage` returns exactly if the pool has bytes there (`MountedMeansUsed`).

`GatewayProofs`, for every set of requests, bodies and limits: `GatewayTypeCorrect`,
`BodyStaysIntact`, `BufferStaysBounded`, `AllocationsChecked` (`[]CheckedOrHarmless`) and
`DenialsJustified` (`[]DeniesOnlyEnforced`). The invariant `BodyInv` says where the bytes are: as long as the
client is there, what the upstream has, the buffer and the rest of the connection are together the body
(`InPlace`), and a handover of the head of one to the end of the other keeps
that; when it is gone they are the first bytes of it. A body that is no longer
chained to its connection has nothing left there and lost nothing, and a body
still chained to a broken one ends in an error: so only a whole body is taken for
one. The last two theorems compare `Classify` with the tables for any path, not only those
TLC tries: an allocating path is classified as what is decided about
(`AllocatingDecided`), a harmless one passes (`HarmlessPasses`), a change of members
is seen (`MembershipSeen`), an unlisted path is unknown (`UnlistedUnknown`). `RouteInv` carries the class of the
request and where its parameters come from through the stages.

`ProcessProofs`: `ProcessTypeCorrect` and `ProcessEnforces`. `EnforceInv` says that a
process past `Start` with `-enforce` has a store and an engine, which only the
comparison of the flags in main makes true, and that a request in flight was
routed with the administrators the process still has.

Every invariant that a passing run checks is a theorem. Only model-checked: the temporal
properties (`EveryRequestCompletes`, `Converges`, `Delivered`, `ComesBack`, `SignalEndsProcess`), for the
prover has neither fairness nor `ENABLED`; and the runs that expect a violation, which are about single
behaviours.

## Not modelled

* The text of URLs, headers, YAML and disk specifications; fractional sizes
  (`ParseFloat`).
* Re-attaching an unused volume of the same guest: it is priced at nothing and adds nothing, since the
  volume was counted as unused before.
* A create or restore whose `vmid` the proxy cannot read is forwarded and not waited for
  (`admission.go:376`, `391` return at once). PVE requires the parameter, so this is a body out of the proxy's sight,
  as in the next but one item; in `Admission` every request has its guest.
* Time between some reads of one request: the guest's configuration and the snapshot's of a rollback
  (`admission.go:253`, `257`), the configuration of a guest and the cached content listing of its unused volumes
  (`engine.go:40`, `71`, `119-131`) are one step each, `ReadBase` and `ReadConfig`.
* Parameters in the query of the URL, which the proxy never reads, and bodies that
  it forwards without reading their parameters (multipart, above `maxBody`, a syntax
  other than the content type's): `CheckedOrHarmless` leaves these out by name (`Opaque`).
* TLS, the response stream and websockets: I/O of the standard library.
* The access log, `Emit`, the metrics counters and the JSON of `/usage`: no decision
  reads them.

## Plan

1. Done: all modules above, their runs and theorems; every invariant of a passing run is proved.
2. Proofs: `Converges` and `ComesBack` need fairness, but what they rest on can be proved: steps
   that never undo progress (a file once served stays until a newer one is; a handler
   never goes back), as action properties.
3. `Gateway`: several requests on one keep-alive connection, where the body that
   is left decides where the next request begins.
