----------------------------- MODULE RuntimeProofs ----------------------------
(* Theorems about Runtime, for any number of units and hooks.                *)
EXTENDS Runtime, FiniteSetTheorems, TLAPS

\* What shutdown has to call, in order: the hooks, then the units, both from
\* the last to the first.
Plan == [i \in 1..(NShutdown + NUnits) |->
           IF i <= NShutdown THEN <<"hook", NShutdown + 1 - i>>
                             ELSE <<"unit", NShutdown + NUnits + 1 - i>>]

\* How much of the plan has been called, where Run is.
Called ==
    CASE pc = "hooks" -> NShutdown - at
      [] pc = "units" -> NShutdown + NUnits - at
      [] pc = "wait"  -> NShutdown + NUnits - at + 1
      [] pc = "returned" -> NShutdown + NUnits
      [] OTHER -> 0

\* Where each loop of Run may be.
AtOK ==
    /\ pc = "startup" => at \in 1..(NStartup + 1)
    /\ pc = "start" => at \in Units
    /\ pc = "hooks" => at \in 0..NShutdown
    /\ pc = "units" => at \in 0..NUnits
    /\ pc = "wait"  => at \in Units
    /\ pc \in {"await", "serving"} => at = 1
    /\ pc = "aborted" => at \in 1..(NStartup + 1)
    /\ pc = "returned" => at = 0

RunOK ==
    /\ pc \in RunPcs /\ at \in Nat
    /\ AtOK
    /\ ran \in Seq({"hook", "unit"} \X Nat)
    /\ Len(ran) = Called
    /\ \A i \in 1..Called : ran[i] = Plan[i]

\* The count is of the units that have reported, and ready is all of them.
ReadyOK ==
    /\ reported \subseteq Units
    /\ readyCount = Cardinality(reported)
    /\ ready \in BOOLEAN
    /\ ready => reported = Units
    /\ pc = "serving" => ready

\* errCh holds results of units that have stopped, one of each; a unit is new
\* until the start loop reaches it.
ErrChOK ==
    /\ unit \in [Units -> UnitStates]
    /\ errCh \in Seq(Units)
    /\ \A i \in DOMAIN errCh : unit[errCh[i]] = "stopped"
    /\ \A i, j \in DOMAIN errCh : errCh[i] = errCh[j] => i = j
    /\ pc = "startup" => \A u \in Units : unit[u] = "new"
    /\ pc = "start" => \A u \in Units : u >= at => unit[u] = "new"

\* What only the types say: the signal channel, and the history variables.
RestOK == asked \subseteq Units /\ late \subseteq Units /\ exit \in BOOLEAN

IInv == RunOK /\ ReadyOK /\ ErrChOK /\ RestOK

-------------------------------------------------------------------------------
LEMMA UnitsFinite == IsFiniteSet(Units) /\ Cardinality(Units) = NUnits
  BY FS_Interval, Sizes DEF Units

LEMMA InitInv == Init => IInv
<1> SUFFICES ASSUME Init PROVE IInv
  OBVIOUS
<1> USE Sizes DEF Init
<1>1. RunOK
  BY DEF RunOK, RunPcs, AtOK, Called
<1>2. ReadyOK
  BY FS_EmptySet DEF ReadyOK
<1>3. ErrChOK
  BY DEF ErrChOK, UnitStates
<1>4. RestOK
  BY DEF RestOK
<1> QED
  BY <1>1, <1>2, <1>3, <1>4 DEF IInv

\* The next call of the plan is made.
LEMMA PlanGrows ==
    ASSUME RunOK, pc' \in RunPcs, at' \in Nat, AtOK',
           NEW e \in {"hook", "unit"} \X Nat, ran' = Append(ran, e),
           Called' = Called + 1, e = Plan[Called + 1]
    PROVE  RunOK'
<1>1. ran \in Seq({"hook", "unit"} \X Nat) /\ Len(ran) = Called /\ Called \in Nat
  BY DEF RunOK
<1>2. /\ ran' \in Seq({"hook", "unit"} \X Nat) /\ Len(ran') = Called'
      /\ \A i \in 1..Called : ran'[i] = ran[i]
      /\ ran'[Called + 1] = e
  BY <1>1
<1>3. \A i \in 1..Called' : i \in 1..Called \/ i = Called + 1
  BY <1>1
<1>4. \A i \in 1..Called' : ran'[i] = Plan'[i]
  BY <1>2, <1>3 DEF RunOK, Plan
<1> QED
  BY <1>2, <1>4 DEF RunOK

\* Steps of Run itself.
LEMMA RunStepInv == IInv /\ RunStep => RunOK'
<1> SUFFICES ASSUME IInv, RunStep PROVE RunOK'
  OBVIOUS
<1> USE Sizes DEF IInv, RunOK, AtOK, Called, RunPcs, Units, BeginShutdown
<1>1. CASE StartupHook
  BY <1>1 DEF StartupHook
<1>2. CASE StartUnit
  BY <1>2 DEF StartUnit
<1>3. CASE AwaitError
  BY <1>3 DEF AwaitError
<1>4. CASE AwaitReady
  BY <1>4 DEF AwaitReady
<1>5. CASE AwaitSignal
  BY <1>5 DEF AwaitSignal
<1>6. CASE ServingError
  BY <1>6 DEF ServingError
<1>7. CASE ServingSignal
  BY <1>7 DEF ServingSignal
<1>8. CASE ShutdownHook
  <2>1. CASE at > 0
    <3>1. /\ at \in 1..NShutdown /\ pc = "hooks" /\ pc' = "hooks" /\ at' = at - 1
          /\ ran' = Append(ran, <<"hook", at>>)
      BY <1>8, <2>1 DEF ShutdownHook
    <3>2. Called = NShutdown - at
      BY <3>1
    <3>4. Plan[NShutdown - at + 1] = <<"hook", at>>
      BY <3>1 DEF Plan
    <3>3. AtOK' /\ pc' \in RunPcs
      BY <3>1
    <3>6. at' \in Nat
      BY <3>1
    <3>5. Called' = Called + 1
      BY <3>1
    <3> QED
      BY <3>1, <3>2, <3>3, <3>4, <3>5, <3>6, PlanGrows
  <2>2. CASE at = 0
    BY <1>8, <2>2 DEF ShutdownHook
  <2> QED
    BY <1>8, <2>1, <2>2 DEF ShutdownHook
<1>9. CASE ShutdownUnit
  <2>1. CASE at > 0
    <3>1. /\ at \in 1..NUnits /\ pc = "units" /\ pc' = "wait" /\ at' = at
          /\ ran' = Append(ran, <<"unit", at>>)
      BY <1>9, <2>1 DEF ShutdownUnit
    <3>2. Called = NShutdown + NUnits - at
      BY <3>1
    <3>4. Plan[NShutdown + NUnits - at + 1] = <<"unit", at>>
      BY <3>1 DEF Plan
    <3>3. AtOK' /\ pc' \in RunPcs
      BY <3>1
    <3>6. at' \in Nat
      BY <3>1
    <3>5. Called' = Called + 1
      BY <3>1
    <3> QED
      BY <3>1, <3>2, <3>3, <3>4, <3>5, <3>6, PlanGrows
  <2>2. CASE at = 0
    BY <1>9, <2>2 DEF ShutdownUnit
  <2> QED
    BY <1>9, <2>1, <2>2 DEF ShutdownUnit
<1>10. CASE ShutdownReturns
  BY <1>10 DEF ShutdownReturns
<1> QED
  BY <1>1, <1>2, <1>3, <1>4, <1>5, <1>6, <1>7, <1>8, <1>9, <1>10 DEF RunStep

\* Run enters "serving" only past a closed ready, and counts nothing itself.
LEMMA RunStepReady == IInv /\ RunStep => ReadyOK'
<1> SUFFICES ASSUME IInv, RunStep PROVE ReadyOK'
  OBVIOUS
<1>1. UNCHANGED <<readyCount, ready, reported>>
  BY DEF RunStep, StartupHook, StartUnit, AwaitError, AwaitReady, AwaitSignal,
         ServingError, ServingSignal, ShutdownHook, ShutdownUnit, ShutdownReturns,
         unitVars
<1>2. pc' = "serving" => pc = "serving" \/ ready
  BY DEF RunStep, StartupHook, StartUnit, AwaitError, AwaitReady, AwaitSignal,
         ServingError, ServingSignal, ShutdownHook, ShutdownUnit, ShutdownReturns,
         BeginShutdown
<1> QED
  BY <1>1, <1>2 DEF IInv, ReadyOK

\* The head of errCh is taken, or a new unit is started: it is in no errCh.
LEMMA RunStepErrCh == IInv /\ RunStep => ErrChOK'
<1> SUFFICES ASSUME IInv, RunStep PROVE ErrChOK'
  OBVIOUS
<1> USE DEF IInv
<1> USE Sizes
<1>1. CASE StartUnit
  BY <1>1 DEF StartUnit, ErrChOK, UnitStates, RunOK, AtOK, Units
<1>2. CASE AwaitError \/ ServingError
  <2>1. /\ errCh # <<>> /\ errCh' = Tail(errCh) /\ unit' = unit
        /\ pc' \notin {"startup", "start"} /\ errCh \in Seq(Units)
    BY <1>2 DEF AwaitError, ServingError, ErrChOK, BeginShutdown
  <2>2. /\ errCh' \in Seq(Units) /\ DOMAIN errCh' = 1..(Len(errCh) - 1)
        /\ \A i \in DOMAIN errCh' : errCh'[i] = errCh[i + 1] /\ i + 1 \in DOMAIN errCh
        /\ DOMAIN errCh' \subseteq Nat
    BY <2>1
  <2>3. \A i, j \in DOMAIN errCh' : errCh'[i] = errCh'[j] => i + 1 = j + 1
    BY <2>2 DEF ErrChOK
  <2>4. \A i, j \in DOMAIN errCh' : i + 1 = j + 1 => i = j
    BY <2>2
  <2> QED
    BY <2>1, <2>2, <2>3, <2>4 DEF ErrChOK
<1>3. CASE StartupHook
  BY <1>3 DEF StartupHook, unitVars, ErrChOK
<1>4. CASE UNCHANGED <<unit, errCh>> /\ pc' \notin {"startup", "start"}
  BY <1>4 DEF ErrChOK
<1> QED
  BY <1>1, <1>2, <1>3, <1>4
  DEF RunStep, AwaitReady, AwaitSignal, ServingSignal, ShutdownHook, ShutdownUnit,
      ShutdownReturns, unitVars, BeginShutdown

\* A unit reports once: the count reaches NUnits when all have reported.
LEMMA OnReadyInv ==
    ASSUME NEW u \in Units, IInv, OnReady(u) PROVE RunOK' /\ ReadyOK' /\ ErrChOK'
<1> USE DEF OnReady, runVars, IInv
<1>1. RunOK'
  BY DEF RunOK, AtOK, Called
<1>2. ErrChOK'
  BY DEF ErrChOK
<1>3. ReadyOK'
  <2>1. /\ u \notin reported /\ reported' = reported \cup {u}
        /\ readyCount' = readyCount + 1 /\ pc' = pc
        /\ ready' = (ready \/ readyCount + 1 = NUnits)
    OBVIOUS
  <2>2. IsFiniteSet(reported)
    BY UnitsFinite, FS_Subset DEF ReadyOK
  <2>3. /\ Cardinality(reported') = Cardinality(reported) + 1
        /\ Cardinality(reported) \in Nat
    BY <2>1, <2>2, FS_AddElement, FS_CardinalityType
  <2>4. reported' \subseteq Units
    BY <2>1 DEF ReadyOK
  <2>5. Cardinality(reported') = NUnits => reported' = Units
    BY <2>4, UnitsFinite, FS_Subset
  <2>6. ready' \in BOOLEAN /\ (pc' = "serving" => ready')
    BY <2>1 DEF ReadyOK
  <2>7. ready' => reported' = Units
    BY <2>1, <2>3, <2>4, <2>5 DEF ReadyOK
  <2> QED
    BY <2>1, <2>3, <2>4, <2>6, <2>7 DEF ReadyOK
<1> QED
  BY <1>1, <1>2, <1>3

LEMMA ServeReturnsInv ==
    ASSUME NEW u \in Units, IInv, ServeReturns(u) PROVE RunOK' /\ ReadyOK' /\ ErrChOK'
<1> USE DEF ServeReturns, runVars, IInv
<1>1. RunOK'
  BY DEF RunOK, AtOK, Called
<1>2. ReadyOK'
  BY DEF ReadyOK
<1>3. ErrChOK'
  BY DEF ErrChOK, UnitStates
<1> QED
  BY <1>1, <1>2, <1>3

LEMMA SendResultInv ==
    ASSUME NEW u \in Units, IInv, SendResult(u) PROVE RunOK' /\ ReadyOK' /\ ErrChOK'
<1> USE DEF SendResult, runVars, IInv
<1>1. RunOK'
  BY DEF RunOK, AtOK, Called
<1>2. ReadyOK'
  BY DEF ReadyOK
<1>3. ErrChOK'
  <2>1. /\ unit[u] = "sending" /\ errCh' = Append(errCh, u) /\ pc' = pc /\ at' = at
        /\ unit' = [unit EXCEPT ![u] = "stopped"]
    OBVIOUS
  <2>2. \A i \in DOMAIN errCh : errCh[i] # u
    BY <2>1 DEF ErrChOK
  <2>3. /\ errCh' \in Seq(Units) /\ DOMAIN errCh' = 1..(Len(errCh) + 1)
        /\ \A i \in DOMAIN errCh : errCh'[i] = errCh[i]
        /\ errCh'[Len(errCh) + 1] = u
        /\ DOMAIN errCh = 1..Len(errCh) /\ Len(errCh) \in Nat
    BY <2>1 DEF ErrChOK
  <2>4. \A i \in DOMAIN errCh' : i \in DOMAIN errCh \/ i = Len(errCh) + 1
    BY <2>3
  <2>5. \A i \in DOMAIN errCh' : unit'[errCh'[i]] = "stopped"
    BY <2>1, <2>3, <2>4 DEF ErrChOK
  <2>6. \A i, j \in DOMAIN errCh' : errCh'[i] = errCh'[j] => i = j
    BY <2>2, <2>3, <2>4 DEF ErrChOK
  <2>7. unit' \in [Units -> UnitStates]
    BY <2>1 DEF ErrChOK, UnitStates
  <2>8. \A v \in Units : unit[v] = "new" => unit'[v] = "new"
    BY <2>1 DEF ErrChOK
  <2> QED
    BY <2>1, <2>3, <2>5, <2>6, <2>7, <2>8 DEF ErrChOK
<1> QED
  BY <1>1, <1>2, <1>3

LEMMA RestInv == IInv /\ [Next]_vars => RestOK'
<1> SUFFICES ASSUME IInv, [Next]_vars PROVE RestOK'
  OBVIOUS
<1> USE DEF IInv, RestOK
<1>1. CASE RunStep
  <2>1. CASE ShutdownUnit
    <3>1. /\ UNCHANGED <<late, exit>> /\ pc = "units"
          /\ asked' = asked \/ (at > 0 /\ asked' = asked \cup {at})
      BY <2>1 DEF ShutdownUnit, unitVars
    <3>2. at > 0 => at \in Units
      BY <3>1, Sizes DEF RunOK, AtOK, Units
    <3> QED
      BY <3>1, <3>2
  <2>2. CASE UNCHANGED <<asked, late>> /\ exit' \in BOOLEAN
    BY <2>2
  <2> QED
    BY <1>1, <2>1, <2>2
    DEF RunStep, StartupHook, StartUnit, AwaitError, AwaitReady, AwaitSignal,
        ServingError, ServingSignal, ShutdownHook, ShutdownReturns, unitVars
<1>2. ASSUME NEW u \in Units, OnReady(u) \/ ServeReturns(u) \/ SendResult(u)
      PROVE  RestOK'
  BY <1>2 DEF OnReady, ServeReturns, SendResult
<1>3. CASE Signal
  BY <1>3 DEF Signal, unitVars
<1>4. CASE UNCHANGED vars
  BY <1>4 DEF vars, unitVars
<1> QED
  BY <1>1, <1>2, <1>3, <1>4 DEF Next

LEMMA NextInv == IInv /\ [Next]_vars => IInv'
<1> SUFFICES ASSUME IInv, [Next]_vars PROVE RunOK' /\ ReadyOK' /\ ErrChOK'
  BY RestInv DEF IInv
<1>1. CASE RunStep
  BY <1>1, RunStepInv, RunStepReady, RunStepErrCh
<1>2. ASSUME NEW u \in Units, OnReady(u) \/ ServeReturns(u) \/ SendResult(u)
      PROVE  RunOK' /\ ReadyOK' /\ ErrChOK'
  BY <1>2, OnReadyInv, ServeReturnsInv, SendResultInv
<1>3. CASE Signal \/ UNCHANGED vars
  <2>1. UNCHANGED <<pc, at, ran, unit, readyCount, ready, reported, errCh>>
    BY <1>3 DEF Signal, vars, runVars, unitVars
  <2> QED
    BY <2>1 DEF IInv, RunOK, AtOK, Called, ReadyOK, ErrChOK
<1> QED
  BY <1>1, <1>2, <1>3 DEF Next

LEMMA Invariant == Spec => []IInv
  BY InitInv, NextInv, PTL DEF Spec

-------------------------------------------------------------------------------
\* Every reachable state is well typed.
THEOREM TypeCorrect == Spec => []TypeOK
<1>1. IInv => TypeOK
  <2> SUFFICES ASSUME IInv PROVE TypeOK
    OBVIOUS
  <2>1. readyCount \in 0..NUnits
    <3>1. IsFiniteSet(reported) /\ Cardinality(reported) <= NUnits
      BY UnitsFinite, FS_Subset DEF IInv, ReadyOK
    <3>2. Cardinality(reported) \in Nat
      BY <3>1, FS_CardinalityType
    <3> QED
      BY <3>1, <3>2, Sizes DEF IInv, ReadyOK
  <2>2. at \in Nat /\ at <= NUnits + NStartup + NShutdown + 1
    BY Sizes DEF IInv, RunOK, AtOK, RunPcs, Units
  <2>3. at \in 0..(NUnits + NStartup + NShutdown + 1)
    BY <2>2, Sizes
  <2>4. pc \in {"start", "wait"} => at \in Units
    BY DEF IInv, RunOK, AtOK
  <2> QED
    BY <2>1, <2>3, <2>4 DEF IInv, RunOK, ReadyOK, ErrChOK, RestOK, TypeOK
<1> QED
  BY <1>1, Invariant, PTL

\* Run serves only when every unit has called OnReady, for any number of units
\* and any order of their goroutines.
THEOREM ServingReady == Spec => []ServingMeansAllReady
<1>1. IInv => ServingMeansAllReady
  BY DEF IInv, ReadyOK, ServingMeansAllReady
<1> QED
  BY <1>1, Invariant, PTL

\* A Run that returned from shutdown has called every hook and every unit's
\* Shutdown, in the order of the plan, and nothing else.
THEOREM ShutdownWhole == Spec => []ShutdownComplete
<1>1. IInv => ShutdownComplete
  <2> SUFFICES ASSUME IInv, pc = "returned" PROVE ran = Plan
    BY DEF ShutdownComplete, Plan
  <2>1. /\ ran \in Seq({"hook", "unit"} \X Nat)
        /\ Len(ran) = NShutdown + NUnits
        /\ \A i \in 1..(NShutdown + NUnits) : ran[i] = Plan[i]
    BY DEF IInv, RunOK, Called
  <2>2. DOMAIN Plan = 1..(NShutdown + NUnits) /\ Plan = [i \in DOMAIN Plan |-> Plan[i]]
    BY DEF Plan
  <2>3. ran = [i \in 1..Len(ran) |-> ran[i]]
    BY <2>1
  <2> QED
    BY <2>1, <2>2, <2>3
<1> QED
  BY <1>1, Invariant, PTL

\* A Serve that has ended always has room in errCh: its goroutine never blocks,
\* whoever reads the channel.
RoomForEveryResult == \A u \in Units : unit[u] = "sending" => Len(errCh) < NUnits

\* The results of distinct stopped units leave room for the one that is sent.
THEOREM SendNeverBlocks == Spec => []RoomForEveryResult
<1>1. IInv => RoomForEveryResult
  <2> SUFFICES ASSUME IInv, NEW u \in Units, unit[u] = "sending"
               PROVE  Len(errCh) < NUnits
    BY DEF RoomForEveryResult
  <2>1. /\ errCh \in [1..Len(errCh) -> Units] /\ Len(errCh) \in Nat
        /\ \A i, j \in 1..Len(errCh) : errCh[i] = errCh[j] => i = j
    BY DEF IInv, ErrChOK
  <2>2. \A i \in 1..Len(errCh) : errCh[i] \in Units \ {u}
    BY DEF IInv, ErrChOK
  <2>3. errCh \in Injection(1..Len(errCh), Units \ {u})
    BY <2>1, <2>2 DEF Injection, IsInjective
  <2>4. IsFiniteSet(Units \ {u}) /\ Cardinality(Units \ {u}) = NUnits - 1
    BY UnitsFinite, FS_RemoveElement, Sizes
  <2>5. Cardinality(1..Len(errCh)) <= NUnits - 1
    BY <2>3, <2>4, FS_Injection
  <2>6. Cardinality(1..Len(errCh)) = Len(errCh)
    <3>1. \A n \in Nat : Cardinality(1..n) = IF 1 > n THEN 0 ELSE n - 1 + 1
      BY FS_Interval
    <3> QED
      BY <2>1, <3>1
  <2> QED
    BY <2>1, <2>5, <2>6, Sizes
<1> QED
  BY <1>1, Invariant, PTL
===============================================================================
