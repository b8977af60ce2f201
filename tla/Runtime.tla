-------------------------------- MODULE Runtime -------------------------------
(***************************************************************************)
(* Runtime.Run: startup hooks, one goroutine per unit, the wait for all of *)
(* them to be ready, and graceful shutdown on a signal or a unit's end.    *)
(* A unit is what Serve and Shutdown let the runtime see of it: it may     *)
(* report ready, may stop at any time, and stops some time after Shutdown  *)
(* has been called on it, unless that came before it was serving.          *)
(***************************************************************************)
EXTENDS Naturals, Sequences

CONSTANTS
    NUnits,             \* registered units, in order
    NStartup,           \* OnStartup hooks
    NShutdown           \* OnShutdown hooks

ASSUME Sizes == NUnits \in Nat \ {0} /\ NStartup \in Nat /\ NShutdown \in Nat

Units == 1..NUnits

VARIABLES
    pc,             \* RunWithShutdownTimeout
    at,             \* the hook or unit its current loop is at
    unit,           \* each unit's Serve
    asked,          \* units whose Shutdown has been called
    readyCount, ready,      \* the counter, and the channel it closes
    reported,       \* history: units that have called OnReady
    late,           \* history: units whose Serve ended after ready was closed
    errCh,          \* its buffer: the units whose result it holds
    exit,           \* a signal is in the channel
    ran             \* history: shutdown hooks and unit Shutdowns, in order

runVars  == <<pc, at, ran>>
unitVars == <<unit, readyCount, ready, reported, late, errCh>>
vars == <<runVars, unitVars, asked, exit>>

RunPcs == {"startup", "start", "await", "serving", "hooks", "units", "wait",
           "aborted", "returned"}
UnitStates == {"new", "serving", "sending", "stopped"}
Over == {"aborted", "returned"}

Init ==
    /\ pc = "startup" /\ at = 1
    /\ unit = [u \in Units |-> "new"]
    /\ asked = {} /\ readyCount = 0 /\ ready = FALSE /\ reported = {} /\ late = {}
    /\ errCh = <<>> /\ exit = FALSE /\ ran = <<>>

-------------------------------------------------------------------------------
(* RunWithShutdownTimeout *)

StartupHook ==
    /\ pc = "startup"
    /\ \/ /\ at <= NStartup
          /\ \/ at' = at + 1 /\ pc' = pc
             \/ at' = at /\ pc' = "aborted"
       \/ at > NStartup /\ at' = 1 /\ pc' = "start"
    /\ UNCHANGED <<ran, unitVars, asked, exit>>

\* startUnits: go u.Serve(...), in registration order.
StartUnit ==
    /\ pc = "start"
    /\ unit' = [unit EXCEPT ![at] = "serving"]
    /\ at' = IF at = NUnits THEN 1 ELSE at + 1
    /\ pc' = IF at = NUnits THEN "await" ELSE pc
    /\ UNCHANGED <<ran, readyCount, ready, reported, late, errCh, asked, exit>>

BeginShutdown == pc' = "hooks" /\ at' = NShutdown

\* The first select takes any case that is ready.
AwaitError ==
    /\ pc = "await" /\ errCh # <<>>
    /\ errCh' = Tail(errCh)
    /\ pc' = "aborted"
    /\ UNCHANGED <<at, ran, unit, readyCount, ready, reported, late, asked, exit>>

AwaitReady ==
    /\ pc = "await" /\ ready
    /\ pc' = "serving"
    /\ UNCHANGED <<at, ran, unitVars, asked, exit>>

AwaitSignal ==
    /\ pc = "await" /\ exit
    /\ exit' = FALSE
    /\ BeginShutdown
    /\ UNCHANGED <<ran, unitVars, asked>>

ServingError ==
    /\ pc = "serving" /\ errCh # <<>>
    /\ errCh' = Tail(errCh)
    /\ BeginShutdown
    /\ UNCHANGED <<ran, unit, readyCount, ready, reported, late, asked, exit>>

ServingSignal ==
    /\ pc = "serving" /\ exit
    /\ exit' = FALSE
    /\ BeginShutdown
    /\ UNCHANGED <<ran, unitVars, asked>>

\* shutdown: hooks from the last to the first, whatever they return.
ShutdownHook ==
    /\ pc = "hooks"
    /\ \/ at > 0 /\ ran' = Append(ran, <<"hook", at>>) /\ at' = at - 1 /\ pc' = pc
       \/ at = 0 /\ pc' = "units" /\ at' = NUnits /\ ran' = ran
    /\ UNCHANGED <<unitVars, asked, exit>>

\* Fault: units that have stopped by themselves are skipped, and end the loop.
FaultShutdownUnit ==
    /\ pc = "units"
    /\ \/ /\ at > 0 /\ unit[at] # "stopped"
          /\ asked' = asked \cup {at}
          /\ ran' = Append(ran, <<"unit", at>>)
          /\ pc' = "wait"
       \/ (at = 0 \/ unit[at] = "stopped") /\ pc' = "returned" /\ UNCHANGED <<asked, ran>>
    /\ UNCHANGED <<at, unitVars, exit>>

\* Then each unit's Shutdown, from the last to the first.
ShutdownUnit ==
    /\ pc = "units"
    /\ \/ /\ at > 0
          /\ asked' = asked \cup {at}
          /\ ran' = Append(ran, <<"unit", at>>)
          /\ pc' = "wait"
       \/ at = 0 /\ pc' = "returned" /\ UNCHANGED <<asked, ran>>
    /\ UNCHANGED <<at, unitVars, exit>>

\* Shutdown returns: the unit is done, was not serving yet, or time is up.
ShutdownReturns ==
    /\ pc = "wait"
    /\ pc' = "units" /\ at' = at - 1
    /\ UNCHANGED <<ran, unitVars, asked, exit>>

RunStep ==
    \/ StartupHook \/ StartUnit \/ AwaitError \/ AwaitReady \/ AwaitSignal
    \/ ServingError \/ ServingSignal \/ ShutdownHook \/ ShutdownUnit
    \/ ShutdownReturns

-------------------------------------------------------------------------------
(* Units, signals and time *)

\* Fault: the count is compared with one less than the units.
FaultOnReady(u) ==
    /\ unit[u] = "serving" /\ u \notin reported
    /\ reported' = reported \cup {u}
    /\ readyCount' = readyCount + 1
    /\ ready' = (ready \/ readyCount + 2 >= NUnits)
    /\ UNCHANGED <<runVars, unit, late, errCh, asked, exit>>

\* The OnReady a unit is given: the one that completes the count closes ready.
OnReady(u) ==
    /\ unit[u] = "serving" /\ u \notin reported
    /\ reported' = reported \cup {u}
    /\ readyCount' = readyCount + 1
    /\ ready' = (ready \/ readyCount + 1 = NUnits)
    /\ UNCHANGED <<runVars, unit, late, errCh, asked, exit>>

\* Serve ends: asked to, failing, or on its own.
ServeReturns(u) ==
    /\ unit[u] = "serving"
    /\ unit' = [unit EXCEPT ![u] = "sending"]
    /\ late' = IF ready THEN late \cup {u} ELSE late
    /\ UNCHANGED <<runVars, readyCount, ready, reported, errCh, asked, exit>>

\* Fault: the channel holds a single result.
FaultSendResult(u) ==
    /\ unit[u] = "sending"
    /\ Len(errCh) < 1
    /\ errCh' = Append(errCh, u)
    /\ unit' = [unit EXCEPT ![u] = "stopped"]
    /\ UNCHANGED <<runVars, readyCount, ready, reported, late, asked, exit>>

\* errCh has room for one result of every unit.
SendResult(u) ==
    /\ unit[u] = "sending"
    /\ Len(errCh) < NUnits
    /\ errCh' = Append(errCh, u)
    /\ unit' = [unit EXCEPT ![u] = "stopped"]
    /\ UNCHANGED <<runVars, readyCount, ready, reported, late, asked, exit>>

Signal ==
    /\ pc \notin {"startup"} \cup Over /\ ~exit
    /\ exit' = TRUE
    /\ UNCHANGED <<runVars, unitVars, asked>>

Next ==
    \/ RunStep \/ Signal
    \/ \E u \in Units : OnReady(u) \/ ServeReturns(u) \/ SendResult(u)

Spec == Init /\ [][Next]_vars

\* Run goes on, hooks and Shutdown return, and a finished Serve is reported.
FairSpec ==
    /\ Spec
    /\ WF_vars(RunStep)
    /\ \A u \in Units : WF_vars(SendResult(u))
-------------------------------------------------------------------------------
(* Properties *)

\* Every variable has its type; errCh holds at most one result of each unit.
TypeOK ==
    /\ pc \in RunPcs
    /\ at \in 0..(NUnits + NStartup + NShutdown + 1)
    /\ pc \in {"start", "wait"} => at \in Units
    /\ unit \in [Units -> UnitStates]
    /\ asked \subseteq Units /\ reported \subseteq Units /\ late \subseteq Units
    /\ readyCount \in 0..NUnits
    /\ ready \in BOOLEAN /\ exit \in BOOLEAN
    /\ errCh \in Seq(Units)
    /\ \A i, j \in DOMAIN errCh : errCh[i] = errCh[j] => i = j
    /\ ran \in Seq({"hook", "unit"} \X Nat)

\* Run serves only when every unit has reported ready, whatever the order in
\* which their goroutines were started and called OnReady.
ServingMeansAllReady == pc = "serving" => reported = Units

\* A Run that has returned from shutdown ran every shutdown hook, from the last
\* to the first, and after them every unit's Shutdown, from the last to the
\* first, also of units that had stopped by themselves.
ShutdownComplete ==
    pc = "returned" =>
        ran = [i \in 1..(NShutdown + NUnits) |->
                 IF i <= NShutdown THEN <<"hook", NShutdown + 1 - i>>
                                   ELSE <<"unit", NShutdown + NUnits + 1 - i>>]

\* A unit that stops, at whatever moment, ends the Run.
UnitEndEndsRun == \A u \in Units : unit[u] = "stopped" ~> pc \in Over

\* A Serve that has ended is never stuck handing over its result, also when
\* nobody reads errCh any more.
ServeGoroutineEnds == \A u \in Units : unit[u] = "sending" ~> unit[u] = "stopped"

\* "An unexpected unit stop after ready triggers graceful shutdown" (doc.go): a
\* unit that stopped after ready was closed does not abort Run.
StopAfterReadyIsGraceful ==
    [][pc = "await" /\ pc' = "aborted" => Head(errCh) \notin late]_vars
===============================================================================
