------------------------------ MODULE Process -------------------------------
(***************************************************************************)
(* The life of the uq-proxy process: main (cmd/uq-proxy/main.go) under     *)
(* systemd and the health watchdog (deploy/).  Every start reads the       *)
(* command line and the quota file afresh; while the process runs the file *)
(* is reloaded (QuotaStore has that in detail, here it is one step), but   *)
(* the administrators stay those of the start.                             *)
(***************************************************************************)
EXTENDS Naturals

CONSTANTS
    Users,      \* user ids
    Files,      \* contents of the quota file: does it validate, and its admins
    Flags,      \* command lines the unit file may hold
    Slots,      \* bound on the number of requests served at once
    None,       \* no request, no store
    MaxEdits,   \* bound on the edits of the quota file
    MaxFaults   \* bound on crashes, signals and listeners that cannot start

ASSUME ProcessAssumption ==
    /\ Files \subseteq [ok : BOOLEAN, admins : SUBSET Users]
    /\ Flags \subseteq [required : BOOLEAN, quotas : BOOLEAN,
                        token : {"none", "unreadable", "ok"}, enforce : BOOLEAN,
                        failClosed : BOOLEAN, defaultDeny : BOOLEAN, admin : BOOLEAN]
    /\ None \notin Files \cup [user : Users, checked : BOOLEAN]
    /\ MaxEdits \in Nat /\ MaxFaults \in Nat

VARIABLES
    flags,      \* the command line
    file,       \* the quota file
    edits,      \* edits of it so far
    faults,     \* failures so far
    proc,       \* where main is
    store,      \* quotaStore: the file it serves, None for nil
    engine,     \* is there an accounting engine?
    admins,     \* Enforcer.admins
    health,     \* the admin listener: "starting", "ok" or "dead"
    req         \* req[s]: the request handler s serves, or None

world == <<flags, file, edits>>
vars == <<flags, file, edits, faults, proc, store, engine, admins, health, req>>

\* systemd sees the unit as active.
Alive == proc # "down"

Idle == [s \in Slots |-> None]

Init ==
    /\ flags \in Flags /\ file \in Files /\ edits = 0 /\ faults = 0
    /\ proc = "down" /\ store = None /\ engine = FALSE
    /\ admins = {} /\ health = "dead" /\ req = Idle

\* The process is gone, and with it all it kept in memory.
Exit ==
    /\ proc' = "down" /\ store' = None /\ engine' = FALSE
    /\ admins' = {} /\ health' = "dead" /\ req' = Idle

Fault == faults < MaxFaults /\ faults' = faults + 1

-----------------------------------------------------------------------------
(* Startup.                                                                *)

\* The flags are not compared with each other.
StartableUnchecked(f, q) ==
    f.required /\ f.token # "unreadable" /\ (f.quotas => q.ok)

\* A quota file that is rejected is no reason not to start.
StartableAnyFile(f, q) ==
    /\ f.required /\ f.token # "unreadable"
    /\ f.enforce => f.quotas /\ f.token = "ok"
    /\ f.failClosed \/ f.defaultDeny => f.enforce

\* main gets past every os.Exit(2) with flags f and quota file q.
Startable(f, q) ==
    /\ f.required
    /\ f.quotas => q.ok
    /\ f.token # "unreadable"
    /\ f.enforce => f.quotas /\ f.token = "ok"
    /\ f.failClosed \/ f.defaultDeny => f.enforce

\* main up to the listeners: the store, the engine and the enforcer are built,
\* the administrators are copied out of the store.
Start ==
    /\ proc = "down" /\ Startable(flags, file)
    /\ proc' = "loaded"
    /\ store' = IF flags.quotas THEN file ELSE None
    /\ engine' = (flags.token = "ok")
    /\ admins' = IF flags.quotas THEN file.admins ELSE {}
    /\ health' = IF flags.admin THEN "starting" ELSE "dead"
    /\ UNCHANGED <<world, faults, req>>

\* os.Exit(2); Restart=always without a start limit tries again.
StartFails ==
    /\ proc = "down" /\ ~ Startable(flags, file)
    /\ UNCHANGED vars

\* The goroutine of the admin listener; an error is logged and no more.
AdminListens ==
    /\ Alive /\ health = "starting" /\ health' = "ok"
    /\ UNCHANGED <<world, faults, proc, store, engine, admins, req>>

AdminListenFails ==
    /\ Alive /\ health = "starting" /\ health' = "dead" /\ Fault
    /\ UNCHANGED <<world, proc, store, engine, admins, req>>

\* ListenAndServeTLS.
Listen ==
    /\ proc = "loaded" /\ proc' = "up"
    /\ UNCHANGED <<world, faults, store, engine, admins, health, req>>

\* ListenAndServeTLS returns an error: os.Exit(1).
ListenFails ==
    /\ proc = "loaded" /\ Fault /\ Exit
    /\ UNCHANGED world

-----------------------------------------------------------------------------
(* Serving.                                                                *)

\* Middleware: does a quota-relevant write of u reach the check?
Checked(u) == flags.enforce /\ store # None /\ engine /\ u \notin admins

\* The server accepts until its listener is closed.
Request(s, u) ==
    /\ proc \in {"up", "stopping"} /\ req[s] = None
    /\ req' = [req EXCEPT ![s] = [user |-> u, checked |-> Checked(u)]]
    /\ UNCHANGED <<world, faults, proc, store, engine, admins, health>>

Finish(s) ==
    /\ req[s] # None
    /\ req' = [req EXCEPT ![s] = None]
    /\ UNCHANGED <<world, faults, proc, store, engine, admins, health>>

Edit(q) ==
    /\ edits < MaxEdits /\ edits' = edits + 1 /\ file' = q
    /\ UNCHANGED <<flags, faults, proc, store, engine, admins, health, req>>

\* Watch: the store follows the file if it validates; nothing else does.
\* (A tick that is due when the context ends may still be taken.)
Reload ==
    /\ proc \in {"up", "stopping"} /\ store # None /\ file.ok /\ store # file
    /\ store' = file
    /\ UNCHANGED <<world, faults, proc, engine, admins, health, req>>

-----------------------------------------------------------------------------
(* The end.                                                                *)

\* SIGTERM: before NotifyContext it kills, afterwards it ends the context.
Terminate ==
    IF proc = "loaded" THEN Exit
    ELSE proc' = "stopping" /\ UNCHANGED <<store, engine, admins, health, req>>

Signal ==
    /\ proc \in {"loaded", "up"} /\ Fault /\ Terminate
    /\ UNCHANGED world

\* The health check leaves an active unit alone once it has come up.
WatchdogTrusts ==
    /\ proc = "loaded" /\ health # "ok" /\ Terminate
    /\ UNCHANGED <<world, faults>>

\* The health check: an active unit whose /healthz is not ok is restarted.
Watchdog ==
    /\ proc \in {"loaded", "up"} /\ health # "ok" /\ Terminate
    /\ UNCHANGED <<world, faults>>

\* srv.Shutdown closes the listener before it waits for the handlers ...
Shutdown ==
    /\ proc = "stopping" /\ proc' = "closed"
    /\ UNCHANGED <<world, faults, store, engine, admins, health, req>>

\* main waits for the handlers that Shutdown waits for.
MainReturnsDrained ==
    /\ proc = "closed" /\ req = Idle /\ Exit
    /\ UNCHANGED <<world, faults>>

\* ... which makes ListenAndServeTLS return at once, and main with it: the
\* handlers still running end with the process.
MainReturns ==
    /\ proc = "closed" /\ Exit
    /\ UNCHANGED <<world, faults>>

Crash ==
    /\ Alive /\ Fault /\ Exit
    /\ UNCHANGED world

Starting == Start \/ StartFails \/ AdminListens \/ AdminListenFails \/ Listen \/ ListenFails

Serving == \/ \E s \in Slots : Finish(s) \/ \E u \in Users : Request(s, u)
           \/ Reload

Ending == Signal \/ Watchdog \/ Shutdown \/ MainReturns \/ Crash

Next == Starting \/ Serving \/ Ending \/ \E q \in Files : Edit(q)

Spec == Init /\ [][Next]_vars

(***************************************************************************)
(* Fairness: systemd restarts (Restart=always), goroutines run, the ticker *)
(* of Watch and the watchdog's timer fire.  The admin listener is up in    *)
(* milliseconds and the watchdog comes by every 30 s, so it does not come  *)
(* in between every time: strong fairness, and the same for Listen where   *)
(* there is no admin listener to please it.  Handlers are not fair: a      *)
(* console stays open as long as its user likes.                           *)
(***************************************************************************)
FairSpec ==
    /\ Spec
    /\ WF_vars(Start) /\ SF_vars(Listen)
    /\ SF_vars(AdminListens /\ proc \in {"loaded", "up"})
    /\ WF_vars(Reload) /\ WF_vars(Watchdog) /\ WF_vars(Shutdown) /\ WF_vars(MainReturns)

-----------------------------------------------------------------------------
\* Types; a store that is served has passed validation.
TypeOK ==
    /\ flags \in Flags /\ file \in Files /\ edits \in Nat /\ faults \in Nat
    /\ proc \in {"down", "loaded", "up", "stopping", "closed"}
    /\ store \in {q \in Files : q.ok} \cup {None} /\ engine \in BOOLEAN
    /\ admins \subseteq Users /\ health \in {"starting", "ok", "dead"}
    /\ req \in [Slots -> [user : Users, checked : BOOLEAN] \cup {None}]

\* With -enforce, nothing but the requests of administrators bypasses the
\* check: the ways around it in Middleware that are meant for a proxy without
\* store or engine (admission.go:139) are closed by the checks of main.
OnlyAdminsBypass ==
    \A s \in Slots : flags.enforce /\ req[s] # None /\ ~ req[s].checked => req[s].user \in admins

\* "it must always come back" (deploy/uq-proxy.service:6-7), as far as main
\* lets it: with flags and a quota file that main accepts, the proxy is up
\* again and again, and so is its admin listener, whatever dies meanwhile.
ComesBack ==
    <>[]Startable(flags, file) =>
        []<>(proc = "up" /\ (flags.admin => health = "ok"))

\* A signal ends the process although handlers never finish: consoles are
\* long-lived, and so may be the forwarding and the settle of a write.
SignalEndsProcess == proc \in {"stopping", "closed"} ~> proc = "down"

\* "Reloaded automatically when this file changes" and "admins: users exempt
\* from enforcement" (deploy/quotas.example.yaml:3, 7): a request that bypasses
\* enforcement is of an administrator of the file that the store serves.
ExemptAreListed ==
    [][\A s \in Slots : req[s] = None /\ req'[s] # None /\ flags.enforce /\ ~ req'[s].checked
                            => req'[s].user \in store.admins]_vars
=============================================================================
