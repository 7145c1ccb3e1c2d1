---------------------------- MODULE ProcessProofs ---------------------------
(***************************************************************************)
(* What main's checks of its flags guarantee about every request it ever   *)
(* serves, for any users, files, command lines and any number of failures. *)
(***************************************************************************)
EXTENDS Process, TLAPS

\* A process that serves nothing is well typed.
LEMMA IdleType == Idle \in [Slots -> [user : Users, checked : BOOLEAN] \cup {None}]
  BY DEF Idle

\* What a process that is gone leaves behind is well typed.
LEMMA ExitType ==
  ASSUME Exit
  PROVE  /\ proc' = "down" /\ store' = None /\ engine' \in BOOLEAN /\ admins' \subseteq Users
         /\ health' = "dead" /\ req' \in [Slots -> [user : Users, checked : BOOLEAN] \cup {None}]
<1>flag. engine' \in BOOLEAN /\ admins' \subseteq Users
  BY Zenon DEF Exit
<1> QED
  BY <1>flag, IdleType DEF Exit

\* Every reachable state is well typed; in particular the store never serves a
\* file that validation rejected, across starts, reloads and restarts.
THEOREM ProcessTypeCorrect == Spec => []TypeOK
<1>start. Init => TypeOK
  <2>flag. Init => engine \in BOOLEAN /\ admins \subseteq Users
    BY Zenon DEF Init
  <2> QED
    BY <2>flag, ProcessAssumption, IdleType DEF Init, TypeOK
<1>step. ASSUME TypeOK, [Next]_vars PROVE TypeOK'
  <2> USE ProcessAssumption
  <2>starting. ASSUME Starting PROVE TypeOK'
    <3>build. ASSUME Start PROVE TypeOK'
      BY <1>step, <3>build DEF TypeOK, Start, Startable, world
    <3>gone. ASSUME ListenFails PROVE TypeOK'
      BY <1>step, <3>gone, ExitType DEF TypeOK, ListenFails, Fault, world
    <3>listen. ASSUME AdminListens \/ AdminListenFails \/ Listen \/ StartFails PROVE TypeOK'
      BY <1>step, <3>listen
         DEF TypeOK, AdminListens, AdminListenFails, Listen, StartFails, Fault, world, vars
    <3> QED
      BY <2>starting, <3>build, <3>gone, <3>listen DEF Starting
  <2>serving. ASSUME Serving \/ \E q \in Files : Edit(q) PROVE TypeOK'
    <3>request. ASSUME NEW s \in Slots, NEW u \in Users, Request(s, u) PROVE TypeOK'
      <4>flag. Checked(u) \in BOOLEAN
        BY <1>step DEF Checked
      <4> QED
        BY <1>step, <3>request, <4>flag DEF TypeOK, Request, world
    <3>finish. ASSUME NEW s \in Slots, Finish(s) PROVE TypeOK'
      BY <1>step, <3>finish DEF TypeOK, Finish, world
    <3>file. ASSUME Reload \/ \E q \in Files : Edit(q) PROVE TypeOK'
      BY <1>step, <3>file DEF TypeOK, Reload, Edit, world
    <3> QED
      BY <2>serving, <3>request, <3>finish, <3>file DEF Serving
  <2>ending. ASSUME Ending PROVE TypeOK'
    BY <1>step, <2>ending, ExitType
       DEF TypeOK, Ending, Signal, Watchdog, Terminate, Shutdown, MainReturns, Crash,
           Fault, world
  <2> QED
    BY <1>step, <2>starting, <2>serving, <2>ending DEF Next, TypeOK, vars
<1> QED
  BY <1>start, <1>step, PTL DEF Spec

\* The strengthening: a process that is gone serves nothing, and one that
\* enforces has both a store and an engine, whatever was reloaded since.
EnforceInv ==
    /\ proc = "down" => req = Idle
    /\ proc # "down" /\ flags.enforce => store # None /\ engine
    /\ OnlyAdminsBypass

\* With -enforce only an administrator's request goes around the check: there
\* is no order of start, reload, signal, crash and restart in which the proxy
\* serves without store or engine, or with another process's administrators.
THEOREM ProcessEnforces == Spec => []OnlyAdminsBypass
<1>start. Init => EnforceInv
  BY ProcessAssumption DEF Init, EnforceInv, OnlyAdminsBypass, Idle
<1>step. ASSUME TypeOK, EnforceInv, [Next]_vars PROVE EnforceInv'
  <2> USE ProcessAssumption
  <2>gone. ASSUME Exit, UNCHANGED flags PROVE EnforceInv'
    BY <2>gone DEF Exit, EnforceInv, OnlyAdminsBypass, Idle
  <2>starting. ASSUME Starting PROVE EnforceInv'
    <3>build. ASSUME Start PROVE EnforceInv'
      BY <1>step, <3>build
         DEF TypeOK, Start, Startable, EnforceInv, OnlyAdminsBypass, Idle, world
    <3>listen. ASSUME AdminListens \/ AdminListenFails \/ Listen \/ StartFails PROVE EnforceInv'
      BY <1>step, <3>listen
         DEF EnforceInv, OnlyAdminsBypass, Idle, AdminListens, AdminListenFails, Listen,
             StartFails, Alive, world, vars
    <3> QED
      BY <2>starting, <2>gone, <3>build, <3>listen DEF Starting, ListenFails, world
  <2>serving. ASSUME Serving \/ \E q \in Files : Edit(q) PROVE EnforceInv'
    <3>request. ASSUME NEW s \in Slots, NEW u \in Users, Request(s, u) PROVE EnforceInv'
      <4>new. req' = [req EXCEPT ![s] = [user |-> u, checked |-> Checked(u)]]
              /\ proc # "down" /\ UNCHANGED <<flags, proc, store, engine, admins>>
        BY <3>request DEF Request, world
      <4>bypass. flags.enforce /\ ~ Checked(u) => u \in admins
        BY <1>step, <4>new DEF EnforceInv, Checked
      <4>others. ASSUME NEW t \in Slots, flags.enforce, req'[t] # None, ~ req'[t].checked
                 PROVE  req'[t].user \in admins
        <5>same. CASE t = s
          BY <1>step, <4>new, <4>bypass, <4>others, <5>same DEF TypeOK
        <5>other. CASE t # s
          BY <1>step, <4>new, <4>others, <5>other DEF TypeOK, EnforceInv, OnlyAdminsBypass
        <5> QED
          BY <5>same, <5>other
      <4> QED
        BY <1>step, <4>new, <4>others DEF EnforceInv, OnlyAdminsBypass
    <3>finish. ASSUME NEW s \in Slots, Finish(s) PROVE EnforceInv'
      BY <1>step, <3>finish DEF TypeOK, EnforceInv, OnlyAdminsBypass, Finish, Idle, world
    <3>file. ASSUME Reload \/ \E q \in Files : Edit(q) PROVE EnforceInv'
      BY <1>step, <3>file DEF TypeOK, EnforceInv, OnlyAdminsBypass, Reload, Edit, Idle, world
    <3> QED
      BY <2>serving, <3>request, <3>finish, <3>file DEF Serving
  <2>ending. ASSUME Ending PROVE EnforceInv'
    <3>out. ASSUME ~ (Exit /\ UNCHANGED flags)
            PROVE  proc # "down" /\ proc' # "down"
                   /\ UNCHANGED <<flags, store, engine, admins, req>>
      BY <2>ending, <3>out
         DEF Ending, Signal, Watchdog, Terminate, Shutdown, MainReturns, Crash, world
    <3> QED
      BY <1>step, <2>gone, <3>out DEF EnforceInv, OnlyAdminsBypass
  <2>still. ASSUME UNCHANGED vars PROVE EnforceInv'
    BY <1>step, <2>still DEF EnforceInv, OnlyAdminsBypass, Idle, vars
  <2> QED
    BY <1>step, <2>starting, <2>serving, <2>ending, <2>still DEF Next
<1> QED
  BY <1>start, <1>step, ProcessTypeCorrect, PTL DEF Spec, EnforceInv
=============================================================================
