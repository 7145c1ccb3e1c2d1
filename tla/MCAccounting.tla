---------------------------- MODULE MCAccounting ----------------------------
(***************************************************************************)
(* Requests for TLC.  One GiB is 4 bytes, the default memory 2 units.      *)
(***************************************************************************)
EXTENDS Accounting

MCMult == [u \in {"B", "G", "T"} |-> CASE u = "B" -> 1 [] u = "G" -> GiB [] OTHER -> GiB * GiB]
Size(n, u) == [n |-> n, unit |-> u]

\* "A:1" allocates one GiB.  A volume or an image has n bytes, and a size= that
\* says so; and there are CD-ROMs.
Vol(st, n) == [st |-> st, form |-> "gib", n |-> n, size |-> None, cdrom |-> FALSE]
Disk(st, n) == [st |-> st, form |-> "other", n |-> n, size |-> Size(n, "B"), cdrom |-> FALSE]
Existing(st, n) == [Disk(st, n) EXCEPT !.form = "volume"]
Cdrom(st) == [st |-> st, form |-> "other", n |-> 0, size |-> None, cdrom |-> TRUE]
NoDisks == [k \in Keys |-> None]
With(k, x) == [NoDisks EXCEPT ![k] = x]

Req(a, i) == [act |-> a, i |-> i, src |-> None, kind |-> "qemu", sockets |-> None,
              cores |-> None, memory |-> None, disks |-> NoDisks, unset |-> FALSE,
              key |-> None, st |-> None, size |-> None, relative |-> FALSE, drop |-> FALSE]

Create(i, kind, so, co, mem, d) ==
    [Req("create", i) EXCEPT !.kind = kind, !.sockets = so, !.cores = co, !.memory = mem, !.disks = d]
Edit(i, kind, so, co, mem, d) ==
    [Req("config", i) EXCEPT !.kind = kind, !.sockets = so, !.cores = co, !.memory = mem, !.disks = d]
Resize(i, k, rel, t) == [Req("resize", i) EXCEPT !.key = k, !.relative = rel, !.size = t]
Move(i, k, st, drop) == [Req("move", i) EXCEPT !.key = k, !.st = st, !.drop = drop]
Clone(src, i, st) == [Req("clone", i) EXCEPT !.src = src, !.st = st]

MCDims == {"cores", "memory", "instances"} \cup Storages
MCLimit == [d \in MCDims |-> CASE d = "cores" -> 5 [] d = "memory" -> 5
                               [] d = "instances" -> 2 [] d = "A" -> 2 [] OTHER -> 1]

Common == {Create(1, "qemu", None, 2, 1, With("scsi0", Vol("A", 1))),
           Create(1, "lxc", None, None, None, With("scsi0", Disk("A", 3))),
           Create(2, "qemu", 2, 2, None, [NoDisks EXCEPT !["scsi0"] = Vol("B", 1), !["scsi1"] = Cdrom("A")]),
           Clone(1, 2, None), Clone(1, 2, "B"),
           Edit(1, "qemu", 2, None, None, NoDisks), Edit(1, "qemu", None, 1, 3, NoDisks),
           Edit(1, "lxc", None, 2, 1, NoDisks),
           Edit(1, "qemu", None, None, None, With("scsi1", Disk("A", 1))),
           Resize(1, "scsi0", TRUE, Size(2, "B")), Resize(1, "scsi0", FALSE, Size(5, "B")),
           Req("rollback", 1), Req("restore", 2),
           [Req("alloc", 1) EXCEPT !.st = "A", !.size = Size(1, "G")],
           Edit(1, "qemu", None, None, None, With("scsi1", Existing("A", GiB)))}

\* Requests whose sizes do not fit the width: PVE refuses them.
TooLarge == {Create(1, "qemu", None, 1, 1, With("scsi0", Vol("A", 33))),
             Resize(1, "scsi0", TRUE, Size(8, "T")), Resize(1, "scsi0", FALSE, Size(9, "T"))}

MoveOps == {Move(1, "scsi0", "B", TRUE), Move(1, "scsi0", "B", FALSE), Move(2, "scsi0", "A", TRUE)}

SoundRequests == Common \cup MoveOps \cup TooLarge

ASSUME SoundAreCharged == Requests = SoundRequests => Charged

\* The quota itself, a lower one, and one that does not name storage B.
LaterLimits == {MCLimit, [MCLimit EXCEPT !["A"] = 1, !["cores"] = 3],
                [d \in MCDims \ {"B"} |-> MCLimit[d]]}

\* The requests whose delta misses what they add.
NoSize == With("scsi1", [Existing("A", GiB) EXCEPT !.size = None])
AttachVolume == Common \cup {Edit(1, "qemu", None, None, None, NoSize)}
ImportImage ==
    Common \cup {Create(1, "qemu", None, 1, 1, With("scsi0", [Disk("A", 3) EXCEPT !.size = None]))}
SizeBeside ==
    Common \cup {Create(1, "qemu", None, 1, 1, With("scsi0", [Vol("A", 1) EXCEPT !.size = Size(1, "B")]))}
UnsetMemory == Common \cup {[Req("config", 1) EXCEPT !.unset = TRUE]}
MoveUnused == SoundRequests \cup {Move(1, "unused0", "B", TRUE)}
RestoreElsewhere == Common \cup {[Req("restore", 2) EXCEPT !.st = "B"]}
=============================================================================
