----------------------------- MODULE QuotaStore -----------------------------
(***************************************************************************)
(* The quota store (internal/quota): Store.Watch polls the modification    *)
(* time of the quota file and reloads the file when it differs from the    *)
(* one it remembers.  The editor of the file is external: it replaces the  *)
(* file at once (rename) or rewrites it in place, and it may strike        *)
(* between any two system calls of the store, those of Open included.      *)
(***************************************************************************)
EXTENDS Integers

CONSTANTS
    Good,       \* complete files that parse and validate
    Bad,        \* contents that yaml.Unmarshal or Validate rejects
    Torn,       \* incomplete files that nevertheless validate (an empty one)
    NoFile,     \* the file does not exist
    Coarse,     \* may two writes carry the same modification time?
    MaxWrites   \* bound on the number of steps of the editor

ASSUME StoreAssumption ==
    /\ Coarse \in BOOLEAN /\ MaxWrites \in Nat
    /\ Good \cap (Bad \cup Torn) = {} /\ Bad \cap Torn = {}
    /\ NoFile \notin Good \cup Bad \cup Torn

VARIABLES
    file,       \* what the path holds now
    ftime,      \* its modification time
    rewrite,    \* the file being written in place, NoFile if none
    writes,     \* steps of the editor so far
    cfg,        \* Store.cfg, NoFile before there is one
    mtime,      \* Store.mtime, 0 for the zero time
    pc,         \* where Open or the watcher is
    seen        \* the modification time read() got from its Stat

editorVars == <<file, ftime, rewrite, writes>>
storeVars == <<cfg, mtime, pc, seen>>
vars == <<file, ftime, rewrite, writes, cfg, mtime, pc, seen>>

\* The process is about to open the store.
Init ==
    /\ file \in Good \cup Bad \cup {NoFile} /\ ftime = 1 /\ rewrite = NoFile /\ writes = 0
    /\ cfg = NoFile /\ mtime = 0 /\ pc = "open" /\ seen = 0

-----------------------------------------------------------------------------
(* The editor.                                                             *)

Writes ==
    /\ writes < MaxWrites /\ writes' = writes + 1
    /\ ftime' \in IF Coarse THEN {ftime, ftime + 1} ELSE {ftime + 1}
    /\ UNCHANGED storeVars

Replace(c) ==
    /\ Writes
    /\ file' = c /\ rewrite' = NoFile

BeginRewrite(c) ==
    /\ Writes
    /\ file' \in Bad \cup Torn /\ rewrite' = c

EndRewrite ==
    /\ rewrite # NoFile
    /\ Writes
    /\ file' = rewrite /\ rewrite' = NoFile

Remove ==
    /\ Writes
    /\ file' = NoFile /\ rewrite' = NoFile

Editor == \/ \E c \in Good \cup Bad : Replace(c) \/ BeginRewrite(c)
          \/ EndRewrite \/ Remove

-----------------------------------------------------------------------------
(* The store.                                                              *)

\* A tick: Stat fails or the time is the remembered one, or read() is called.
Poll ==
    /\ pc = "poll" /\ file # NoFile /\ ftime # mtime
    /\ pc' = "stat"
    /\ UNCHANGED <<editorVars, cfg, mtime, seen>>

\* read() returned an error.  Open fails with it, and the process is started
\* again; Watch remembers the time t and waits for the next tick.
Rejected(t) ==
    /\ IF cfg = NoFile THEN pc' = "open" /\ mtime' = 0 ELSE pc' = "poll" /\ mtime' = t
    /\ UNCHANGED <<editorVars, cfg, seen>>

\* An error of Stat or ReadFile comes with the zero time.
ReadError == file = NoFile /\ Rejected(0)

Accepted(c) ==
    /\ cfg' = c /\ mtime' = seen /\ pc' = "poll"
    /\ UNCHANGED <<editorVars, seen>>

\* The time of the reload is remembered instead of the file's.
StatNow ==
    /\ pc \in {"open", "stat"}
    /\ \/ ReadError
       \/ file # NoFile /\ seen' = ftime + 1 /\ pc' = "read"
          /\ UNCHANGED <<editorVars, cfg, mtime>>

\* read(), called by Open and by Watch: Stat ...
Stat ==
    /\ pc \in {"open", "stat"}
    /\ \/ ReadError
       \/ file # NoFile /\ seen' = ftime /\ pc' = "read"
          /\ UNCHANGED <<editorVars, cfg, mtime>>

\* A rejected file replaces the configuration all the same.
ReadFileBlindly ==
    /\ pc = "read"
    /\ ReadError \/ (file # NoFile /\ Accepted(file))

\* The watcher returns, instead of going on, when a file is rejected.
ReadFileThenStop ==
    /\ pc = "read"
    /\ \/ ReadError
       \/ file \in Bad /\ pc' = "stopped" /\ UNCHANGED <<editorVars, cfg, mtime, seen>>
       \/ file \in Good \cup Torn /\ Accepted(file)

\* ... then ReadFile, Parse, and the update under the store's mutex.  A file
\* that is rejected leaves the configuration alone; its time is remembered.
ReadFile ==
    /\ pc = "read"
    /\ \/ ReadError
       \/ file \in Bad /\ Rejected(seen)
       \/ file \in Good \cup Torn /\ Accepted(file)

Watch == Poll \/ Stat \/ ReadFile

Next == Editor \/ Watch

Spec == Init /\ [][Next]_vars

\* The ticker fires for ever, and each of the three steps is a system call.
FairSpec == Spec /\ WF_vars(Watch)

-----------------------------------------------------------------------------
\* Types; in particular the store never serves what Parse rejects, the watcher
\* runs only with a configuration, and it goes on whatever it reads.
TypeOK ==
    /\ file \in Good \cup Bad \cup Torn \cup {NoFile}
    /\ rewrite \in Good \cup Bad \cup {NoFile}
    /\ ftime \in Nat \ {0} /\ mtime \in Nat /\ seen \in Nat /\ writes \in Nat
    /\ cfg \in Good \cup Torn \cup {NoFile}
    /\ pc \in {"open", "poll", "stat", "read"}
    /\ cfg = NoFile => pc \in {"open", "read"}
    /\ pc = "open" => cfg = NoFile

\* "A broken file on reload is rejected and the previous good config is kept"
\* (quota.go:4-5): a reload never replaces a complete file by a part of one,
\* also when the watcher reads in the middle of a write.
KeepsGood == [][~ (cfg \in Good /\ cfg' \in Torn)]_vars

\* No update is lost between the watcher's Stat and its ReadFile: when the
\* remembered time is that of the file, and the watcher rests, then what the
\* store serves is the file, unless the file is one it must reject.
CurrentWhenQuiet ==
    pc = "poll" /\ mtime = ftime /\ file \in Good => cfg = file

\* "Reloaded automatically when this file changes" (deploy/quotas.example.yaml:3):
\* once the file stays as it is, the store comes to serve it, if it is valid.
Converges == <>[](file \in Good => cfg = file)
=============================================================================
