--------------------------- MODULE EmulatorProofs ---------------------------
(***************************************************************************)
(* Theorems about an emulator that is started any number of times.  The    *)
(* inductive invariant says which process the call in progress is about.   *)
(***************************************************************************)
EXTENDS Emulator, TLAPS

\* A start that waits has a child, a stop that waits has taken it.
CallOK ==
  /\ call \in {"ready", "sleep"} => child # None
  /\ call \in {"wait", "kill", "dropped"} => child = None

EInv ==
  /\ EmulatorTypeOK
  /\ CallOK
  /\ NoStray
  /\ StatusAgrees
-----------------------------------------------------------------------------
\* The initial states.
LEMMA EmulatorInitEInv == EmulatorInit => EInv
  BY EmulatorAssumption
     DEF EmulatorInit, EInv, EmulatorTypeOK, CallOK, NoStray, StatusAgrees, Alive

\* Every step of an emulator keeps the invariant.
LEMMA EmulatorStepEInv ==
  ASSUME EInv, [EmulatorNext]_emulatorVars
  PROVE  EInv'
<1> USE EmulatorAssumption
    DEF EInv, EmulatorTypeOK, CallOK, NoStray, StatusAgrees, Alive
<1>1. CASE SpawnFails
  BY <1>1 DEF SpawnFails, MayStart
<1>2. CASE Spawn
  <2>1. PICK p \in Pids : /\ proc[p] = "none"
                          /\ proc' = [proc EXCEPT ![p] = "booting"]
                          /\ child' = p
    BY <1>2 DEF Spawn
  <2>2. \A q \in Pids : q # p => proc'[q] = proc[q]
    BY <2>1
  <2>3. call' \in {"ready", "sleep"} /\ victim' = None
    BY <1>2 DEF Spawn, MayStart
  <2>4. NoStray'
    BY <1>2, <2>1, <2>2 DEF Spawn, MayStart
  <2> QED
    BY <1>2, <2>1, <2>2, <2>3, <2>4 DEF Spawn, MayStart
<1>3. CASE ProbeFinds
  BY <1>3 DEF ProbeFinds
<1>4. CASE DeadlinePasses
  BY <1>4 DEF DeadlinePasses
<1>5. CASE DelayPasses
  BY <1>5 DEF DelayPasses
<1>6. CASE StopNothing
  BY <1>6 DEF StopNothing
<1>7. CASE StopAsks
  BY <1>7 DEF StopAsks
<1>8. CASE GraceEnds
  BY <1>8 DEF GraceEnds
<1>9. CASE Reaped
  BY <1>9 DEF Reaped
<1>10. CASE DropEmulator
  BY <1>10 DEF DropEmulator
<1>11. ASSUME NEW p \in Pids, Boots(p)
       PROVE  EInv'
  BY <1>11 DEF Boots
<1>12. ASSUME NEW p \in Pids, Quits(p)
       PROVE  EInv'
  BY <1>12 DEF Quits
<1>13. CASE UNCHANGED emulatorVars
  BY <1>13 DEF emulatorVars
<1> QED
  BY <1>1, <1>2, <1>3, <1>4, <1>5, <1>6, <1>7, <1>8, <1>9, <1>10, <1>11, <1>12, <1>13
     DEF EmulatorNext, StartReturns, StopReturns

\* The inductive invariant of the emulator.
THEOREM EmulatorInvariance == EmulatorSpec => []EInv
<1>1. EmulatorInit => EInv
  BY EmulatorInitEInv
<1>2. EInv /\ [EmulatorNext]_emulatorVars => EInv'
  BY EmulatorStepEInv
<1> QED
  BY <1>1, <1>2, PTL DEF EmulatorSpec

\* Every variable of an emulator stays within its type.
THEOREM EmulatorTyped == EmulatorSpec => []EmulatorTypeOK
<1>1. EInv => EmulatorTypeOK
  BY DEF EInv
<1> QED
  BY <1>1, EmulatorInvariance, PTL

\* However often an emulator is started, stopped and dropped, and whatever its
\* processes do, none but the one it answers for lives unkilled.
THEOREM NoProcessStrays == EmulatorSpec => []NoStray
<1>1. EInv => NoStray
  BY DEF EInv
<1> QED
  BY <1>1, EmulatorInvariance, PTL

\* Between calls the status of an emulator agrees with the child it has.
THEOREM StatusIsHonest == EmulatorSpec => []StatusAgrees
<1>1. EInv => StatusAgrees
  BY DEF EInv
<1> QED
  BY <1>1, EmulatorInvariance, PTL
=============================================================================
