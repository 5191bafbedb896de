-------------------------- MODULE AutoSpawnProofs --------------------------
(***************************************************************************)
(* Theorems about how clients and daemons share the socket path, for any   *)
(* finite number of either: as long as no two of them move at once, one    *)
(* daemon at most serves, and it is the one at the path.                   *)
(***************************************************************************)
EXTENDS AutoSpawn, FiniteSetTheorems, TLAPS

\* One process at most moves; no daemon serves beside one that moves; who
\* serves is alone and, until it leaves, at the path.
Calm ==
  /\ \A p, q \in Moving : p = q
  /\ \A p \in Moving : Listening \subseteq {p}
  /\ \A d, e \in Listening : d = e
  /\ \A d \in Daemons : daemon[d] = "listen" => path = d

SpawnInv == SpawnTypeOK /\ (raced \/ Calm)
-----------------------------------------------------------------------------
\* Two elements make a set of more than one.
LEMMA MoreThanOne ==
  ASSUME NEW S, IsFiniteSet(S), NEW x \in S, NEW y \in S, x # y
  PROVE  Cardinality(S) > 1
<1>1. IsFiniteSet(S \ {x}) /\ Cardinality(S \ {x}) = Cardinality(S) - 1
  BY FS_RemoveElement
<1>2. Cardinality(S \ {x}) # 0
  BY <1>1, FS_EmptySet
<1>3. Cardinality(S) \in Nat /\ Cardinality(S \ {x}) \in Nat
  BY <1>1, FS_CardinalityType
<1> QED
  BY <1>1, <1>2, <1>3

\* Where every two elements are equal there is at most one.
LEMMA AtMostOne ==
  ASSUME NEW S, \A x, y \in S : x = y
  PROVE  Cardinality(S) <= 1
<1>1. CASE S = {}
  BY <1>1, FS_EmptySet
<1>2. CASE S # {}
  <2>1. PICK x : S = {x}
    BY <1>2
  <2> QED
    BY <2>1, FS_Singleton
<1> QED
  BY <1>1, <1>2

\* What the history variable has not recorded has not happened.
LEMMA NotRaced ==
  ASSUME SpawnNext, ~raced'
  PROVE  /\ ~raced
         /\ \A p, q \in Moving' : p = q
         /\ \A d \in Manual : daemon'[d] = "check" => Listening' = {}
<1>1. ~raced /\ ~Racing'
  BY DEF SpawnNext, ClientMoves, DaemonMoves, RecordRaces
<1>2. Moving' \subseteq Daemons
  BY DEF Moving
<1>3. IsFiniteSet(Moving')
  BY <1>2, AutoSpawnAssumption, FS_Subset
<1> QED
  BY <1>1, <1>3, MoreThanOne DEF Racing

\* Every step keeps the types.
LEMMA SpawnTypeStep ==
  ASSUME SpawnTypeOK, [SpawnNext]_spawnVars
  PROVE  SpawnTypeOK'
<1> USE AutoSpawnAssumption DEF SpawnTypeOK, Daemons, ClientGoes, DaemonGoes
<1>1. CASE UNCHANGED spawnVars
  BY <1>1 DEF spawnVars
<1>2. ASSUME RecordRaces PROVE raced' \in BOOLEAN
  BY <1>2 DEF RecordRaces, Racing
<1>3. ASSUME NEW c \in Clients, ClientMoves(c)
      PROVE  SpawnTypeOK'
  BY <1>2, <1>3 DEF ClientMoves, ClientStep, TryConnect, UnlinkStale, SpawnDaemon, PollConnects
<1>4. ASSUME NEW d \in Daemons, DaemonMoves(d)
      PROVE  SpawnTypeOK'
  BY <1>2, <1>4 DEF DaemonMoves, DaemonStep, CheckStale, RemoveStale, Bind, UnlinkOwn, EndProcess
<1>5. CASE Happens /\ RecordRaces
  BY <1>2, <1>5 DEF Happens, ClientFails, DaemonFails, ConnectFails, UnlinkFails,
       SpawnFails, PollTimesOut, LaunchByHand, LeaveLoop, StartFails, UnlinkOwnFails, Crash
<1> QED
  BY <1>1, <1>3, <1>4, <1>5 DEF SpawnNext

\* A step of a client keeps the calm, unless it makes a race.
LEMMA ClientKeepsCalm ==
  ASSUME SpawnTypeOK, SpawnTypeOK', Calm, \A p, q \in Moving' : p = q,
         NEW c \in Clients, ClientStep(c) \/ ClientFails(c)
  PROVE  Calm'
<1> USE AutoSpawnAssumption DEF SpawnTypeOK, Daemons, ClientGoes, DaemonGoes, Calm, Moving, Listening
<1>1. CASE TryConnect(c)
  <2>1. CASE path \in Listening
    BY <1>1, <2>1 DEF TryConnect
  <2>2. CASE path \notin Listening
    <3>1. c \in Moving' /\ UNCHANGED <<daemon, path>>
      BY <1>1, <2>2 DEF TryConnect
    <3>2. daemon[c] = "none"
      BY <1>1 DEF TryConnect
    <3>3. \A d \in Listening : FALSE
      <4> SUFFICES ASSUME NEW d \in Listening PROVE FALSE
        OBVIOUS
      <4>1. daemon[d] # "listen"
        BY <2>2
      <4>2. d \in Moving'
        BY <3>1, <4>1
      <4> QED
        BY <3>1, <3>2, <4>2
    <3> QED
      BY <3>1, <3>3
  <2> QED
    BY <2>1, <2>2
<1>2. CASE UnlinkStale(c)
  <2>1. c \in Moving /\ daemon[c] = "none"
    BY <1>2 DEF UnlinkStale
  <2>2. Listening = {}
    BY <2>1
  <2> QED
    BY <1>2, <2>2 DEF UnlinkStale
<1>3. CASE SpawnDaemon(c)
  <2>1. c \in Moving /\ daemon[c] = "none"
    BY <1>3 DEF SpawnDaemon
  <2>2. Listening = {}
    BY <2>1
  <2> QED
    BY <1>3, <2>2 DEF SpawnDaemon
<1>4. CASE PollConnects(c) \/ PollTimesOut(c) \/ ConnectFails(c)
  BY <1>4 DEF PollConnects, PollTimesOut, ConnectFails
<1>5. CASE UnlinkFails(c) \/ SpawnFails(c)
  BY <1>5 DEF UnlinkFails, SpawnFails
<1> QED
  BY <1>1, <1>2, <1>3, <1>4, <1>5 DEF ClientStep, ClientFails

\* And so does a step of a daemon, or a launch, an exit or a crash of one.
LEMMA DaemonKeepsCalm ==
  ASSUME SpawnTypeOK, SpawnTypeOK', Calm, \A p, q \in Moving' : p = q,
         \A d \in Manual : daemon'[d] = "check" => Listening' = {},
         NEW d \in Daemons, DaemonStep(d) \/ LaunchByHand(d) \/ LeaveLoop(d) \/ DaemonFails(d)
  PROVE  Calm'
<1> USE AutoSpawnAssumption DEF SpawnTypeOK, DaemonGoes, Calm, Moving, Listening
<1>1. CASE CheckStale(d)
  BY <1>1 DEF CheckStale
<1>2. ASSUME daemon[d] \in {"remove", "bind"}
      PROVE  Listening = {}
  <2>1. d \in Moving /\ d \notin Listening
    BY <1>2
  <2> QED
    BY <2>1
<1>3. CASE RemoveStale(d)
  BY <1>2, <1>3 DEF RemoveStale
<1>4. CASE Bind(d)
  BY <1>2, <1>4 DEF Bind
<1>5. ASSUME daemon[d] \in {"leave", "exit"}
      PROVE  Listening = {d}
  <2>1. d \in Moving /\ d \in Listening
    BY <1>5
  <2> QED
    BY <2>1
<1>6. CASE UnlinkOwn(d)
  BY <1>5, <1>6 DEF UnlinkOwn
<1>7. CASE EndProcess(d)
  BY <1>7 DEF EndProcess
<1>8. CASE LaunchByHand(d)
  BY <1>8 DEF LaunchByHand
<1>9. CASE LeaveLoop(d)
  <2>1. Listening = {d}
    BY <1>9 DEF LeaveLoop
  <2> QED
    BY <1>9, <2>1 DEF LeaveLoop
<1>10. CASE Crash(d) \/ StartFails(d)
  BY <1>10 DEF Crash, StartFails
<1>11. CASE UnlinkOwnFails(d)
  BY <1>5, <1>11 DEF UnlinkOwnFails
<1> QED
  BY <1>1, <1>3, <1>4, <1>6, <1>7, <1>8, <1>9, <1>10, <1>11
  DEF DaemonStep, DaemonFails
-----------------------------------------------------------------------------
\* The invariant holds for any finite number of clients and daemons.
THEOREM SpawnInvariance == SpawnSpec => []SpawnInv
<1>1. SpawnInit => SpawnInv
  BY AutoSpawnAssumption DEF SpawnInit, SpawnInv, SpawnTypeOK, Calm, Moving, Listening, Daemons
<1>2. SpawnInv /\ [SpawnNext]_spawnVars => SpawnInv'
  <2> SUFFICES ASSUME SpawnInv, [SpawnNext]_spawnVars PROVE SpawnInv'
    OBVIOUS
  <2>1. SpawnTypeOK /\ SpawnTypeOK'
    BY SpawnTypeStep DEF SpawnInv
  <2>2. CASE UNCHANGED spawnVars
    BY <2>1, <2>2 DEF spawnVars, SpawnInv, Calm, Moving, Listening
  <2>3. ASSUME SpawnNext, ~raced'
        PROVE  Calm'
    <3>1. Calm
      BY <2>3, NotRaced DEF SpawnInv
    <3>2. \A p, q \in Moving' : p = q
      BY <2>3, NotRaced
    <3>3. \A d \in Manual : daemon'[d] = "check" => Listening' = {}
      BY <2>3, NotRaced
    <3>4. \/ \E c \in Clients : ClientStep(c) \/ ClientFails(c)
          \/ \E d \in Daemons : DaemonStep(d) \/ LaunchByHand(d) \/ LeaveLoop(d) \/ DaemonFails(d)
      BY <2>3 DEF SpawnNext, ClientMoves, DaemonMoves, Happens
    <3> QED
      BY <2>1, <3>1, <3>2, <3>3, <3>4, ClientKeepsCalm, DaemonKeepsCalm
  <2> QED
    BY <2>1, <2>2, <2>3 DEF SpawnInv
<1> QED
  BY <1>1, <1>2, PTL DEF SpawnSpec

\* Every variable stays within its type, and a client spawns one daemon.
THEOREM SpawnTyped == SpawnSpec => []SpawnTypeOK
<1>1. SpawnInv => SpawnTypeOK
  BY DEF SpawnInv
<1> QED
  BY <1>1, SpawnInvariance, PTL

\* A daemon serves alone, at the path, as long as no start overlaps another or
\* an exit: what connect_or_spawn and run leave unguarded is that overlap only.
THEOREM AloneOrRaced == SpawnSpec => []AloneUnlessRaced
<1>1. SpawnInv => AloneUnlessRaced
  BY AtMostOne DEF SpawnInv, Calm, AloneUnlessRaced
<1> QED
  BY <1>1, SpawnInvariance, PTL
=============================================================================
