----------------------------- MODULE WaitsProofs -----------------------------
(***************************************************************************)
(* What MCWaits' run checks on a small instance, for any number of          *)
(* processes and commands: the lock file of JournalLock, which while no     *)
(* process dies and a lock can be removed excludes every other process and  *)
(* makes check-and-append one step of PlaceCounter, and the login of        *)
(* `max serve` (MaxServer) under any drops and stale pushes.                *)
(***************************************************************************)
EXTENDS JournalLock, MaxServer, FiniteSetTheorems, TLAPS

LEMMA NoLockIsNobodys == \A p \in Procs : LockBy(p) # NoLock
  BY DEF LockBy, NoLock

LEMMA LockNamesItsMaker == \A p, q \in Procs : LockBy(p) = LockBy(q) => p = q
  <1> SUFFICES ASSUME NEW p \in Procs, NEW q \in Procs, LockBy(p) = LockBy(q)
               PROVE  p = q
    OBVIOUS
  <1>1. LockBy(p).by = p /\ LockBy(q).by = q
    BY DEF LockBy
  <1> QED
    BY <1>1

\* With no crashes allowed, LockCrash never happens.
LEMMA NoCrash ==
  ASSUME MaxCrashes = 0, NEW p \in Procs, LockCrash(p)
  PROVE  FALSE
  <1> DEFINE Dead == {q \in Procs : pc[q] = "dead"}
  <1>1. IsFiniteSet(Dead)
    BY FS_Subset, LockAssumption
  <1>2. Cardinality(Dead) \in Nat
    BY <1>1, FS_CardinalityType
  <1>3. Cardinality(Dead) < 0
    BY DEF LockCrash
  <1> QED
    BY <1>2, <1>3

LEMMA LockInvInit == LockInit => LockInv
  BY LockAssumption DEF LockInit, LockInv, LockTypeOK, NobodyDied, HolderOwnsLock, UnansweredUntilTheEnd,
     RoomForTheHolder, NeverOver, NoLock, Ended

LEMMA LockInvStep ==
  ASSUME MaxCrashes = 0, ~UnlinkFails, LockInv, [LockNext]_lockVars
  PROVE  LockInv'
  <1> USE LockAssumption, NoLockIsNobodys, LockNamesItsMaker
      DEF LockInv, LockTypeOK, NobodyDied, HolderOwnsLock, UnansweredUntilTheEnd, RoomForTheHolder,
          NeverOver, Goto, Ended
  <1>1. ASSUME NEW p \in Procs, OpenLock(p) PROVE LockInv'
    <2>1. LockBy(p) \in [made : {TRUE}, by : Procs, stale : BOOLEAN]
      BY DEF LockBy
    <2>2. CASE lock = NoLock
      BY <1>1, <2>1, <2>2 DEF OpenLock
    <2>3. CASE lock # NoLock
      BY <1>1, <2>3 DEF OpenLock
    <2> QED BY <2>2, <2>3
  <1>2. ASSUME NEW p \in Procs, StatLock(p) PROVE LockInv'
    <2>1. ~ (lock # NoLock /\ lock.stale)
      BY DEF LockBy
    <2>2. waits' \in [Procs -> 0 .. MaxWaits]
      <3>1. waits[p] \in 0 .. MaxWaits /\ MaxWaits \in Nat
        OBVIOUS
      <3>2. waits[p] # MaxWaits => waits[p] + 1 \in 0 .. MaxWaits
        BY <3>1
      <3> QED
        BY <1>2, <2>1, <3>2 DEF StatLock
    <2>3. pc' = [pc EXCEPT ![p] = "gaveUp"] \/ pc' = [pc EXCEPT ![p] = "open"]
      BY <1>2, <2>1 DEF StatLock
    <2>4. pc[p] = "stat" /\ UNCHANGED <<lock, seen, places, answer>>
      BY <1>2 DEF StatLock
    <2>5. LockTypeOK'
      BY <2>2, <2>3, <2>4
    <2>6. HolderOwnsLock'
      BY <2>3, <2>4
    <2>7. (NobodyDied /\ RoomForTheHolder /\ NeverOver)'
      BY <2>3, <2>4
    <2>8. UnansweredUntilTheEnd'
      BY <2>3, <2>4
    <2> HIDE DEF LockTypeOK, NobodyDied, HolderOwnsLock, UnansweredUntilTheEnd, RoomForTheHolder, NeverOver
    <2> QED
      BY <2>5, <2>6, <2>7, <2>8
  <1>3. ASSUME NEW p \in Procs, StealLock(p) \/ StealFails(p) PROVE LockInv'
    BY <1>3 DEF StealLock, StealFails
  <1>4. ASSUME NEW p \in Procs, ReadJournal(p) PROVE LockInv'
    <2>1. pc[p] = "read" /\ seen' = [seen EXCEPT ![p] = places] /\ UNCHANGED <<lock, waits, places>>
      BY <1>4 DEF ReadJournal
    <2>2. \/ pc' = [pc EXCEPT ![p] = "append"] /\ answer' = answer /\ places < Limit
          \/ pc' = [pc EXCEPT ![p] = "unlock"] /\ answer' = [answer EXCEPT ![p] = "refused"]
      BY <1>4 DEF ReadJournal
    <2>3. LockTypeOK'
      BY <2>1, <2>2
    <2>4. HolderOwnsLock'
      BY <2>1, <2>2
    <2>5. (NobodyDied /\ NeverOver)'
      BY <2>1, <2>2
    <2>6. RoomForTheHolder'
      BY <2>1, <2>2
    <2>7. UnansweredUntilTheEnd'
      BY <2>1, <2>2
    <2> HIDE DEF LockTypeOK, NobodyDied, HolderOwnsLock, UnansweredUntilTheEnd, RoomForTheHolder, NeverOver
    <2> QED
      BY <2>3, <2>4, <2>5, <2>6, <2>7
  <1>5. ASSUME NEW p \in Procs, AppendPlace(p) PROVE LockInv'
    <2>1. \A q \in Procs : q # p => pc[q] \notin {"read", "append", "unlock"}
      BY <1>5 DEF AppendPlace
    <2>2. LockTypeOK'
      <3>1. places' \in Nat
        BY <1>5 DEF AppendPlace
      <3>2. answer' \in [Procs -> {"none", "held", "refused"}]
        BY <1>5 DEF AppendPlace
      <3>3. pc' = [pc EXCEPT ![p] = "unlock"] /\ UNCHANGED <<lock, waits, seen>>
        BY <1>5 DEF AppendPlace
      <3> QED
        BY <3>1, <3>2, <3>3
    <2>3. HolderOwnsLock'
      BY <1>5 DEF AppendPlace
    <2>4. NeverOver'
      BY <1>5 DEF AppendPlace
    <2>5. (NobodyDied /\ UnansweredUntilTheEnd)'
      BY <1>5 DEF AppendPlace
    <2>6. RoomForTheHolder'
      BY <1>5, <2>1 DEF AppendPlace
    <2> HIDE DEF LockTypeOK, NobodyDied, HolderOwnsLock, UnansweredUntilTheEnd, RoomForTheHolder, NeverOver
    <2> QED
      BY <2>2, <2>3, <2>4, <2>5, <2>6
  <1>6. ASSUME NEW p \in Procs, Unlock(p) PROVE LockInv'
    <2>1. \A q \in Procs : q # p => pc[q] \notin {"read", "append", "unlock"}
      BY <1>6 DEF Unlock
    <2> QED
      BY <1>6, <2>1 DEF Unlock
  <1>7. CASE LockAges
    BY <1>7 DEF LockAges, LockBy
  <1>8. CASE UNCHANGED lockVars
    BY <1>8 DEF lockVars
  <1> QED
    BY <1>1, <1>2, <1>3, <1>4, <1>5, <1>6, <1>7, <1>8, NoCrash DEF LockNext, LockStep

\* While no process dies and a lock can be removed, every state of the lock satisfies its inductive invariant.
LEMMA LockInvHolds == ASSUME MaxCrashes = 0, ~UnlinkFails PROVE LockSpec => []LockInv
  <1>1. LockInv /\ [LockNext]_lockVars => LockInv'
    BY LockInvStep
  <1> QED
    BY <1>1, LockInvInit, PTL DEF LockSpec

\* The journal is one process's at a time, while no process dies and a lock can be removed.
THEOREM LockExcludes == ASSUME MaxCrashes = 0, ~UnlinkFails PROVE LockSpec => []MutualExclusion
  <1>1. LockInv => MutualExclusion
    BY LockNamesItsMaker DEF LockInv, HolderOwnsLock, MutualExclusion, InBody
  <1> QED
    BY <1>1, LockInvHolds, PTL

\* What a process read is still so when it appends, while no process dies and a lock can be removed.
THEOREM ReadStaysCurrent == ASSUME MaxCrashes = 0, ~UnlinkFails PROVE LockSpec => []SeenIsCurrent
  <1>1. LockInv => SeenIsCurrent
    BY DEF LockInv, RoomForTheHolder, SeenIsCurrent
  <1> QED
    BY <1>1, LockInvHolds, PTL

\* Initial states map to initial states of the counter.
LEMMA CounterInit == LockInit => Counter!Init
  BY DEF LockInit, Counter!Init

\* Appending takes a place, finding none turns away, and every other step is hidden.
LEMMA CounterStep ==
  ASSUME MaxCrashes = 0, ~UnlinkFails, LockInv, [LockNext]_lockVars
  PROVE  [Counter!Next]_Counter!vars
  <1> USE DEF LockInv, LockTypeOK, Goto, Counter!vars
  <1>1. ASSUME NEW p \in Procs, OpenLock(p) PROVE UNCHANGED <<places, answer>>
    BY <1>1 DEF OpenLock
  <1>2. ASSUME NEW p \in Procs, StatLock(p) PROVE UNCHANGED <<places, answer>>
    BY <1>2 DEF StatLock
  <1>3. ASSUME NEW p \in Procs, StealLock(p) \/ StealFails(p) PROVE UNCHANGED <<places, answer>>
    BY <1>3 DEF StealLock, StealFails
  <1>4. ASSUME NEW p \in Procs, ReadJournal(p)
        PROVE  Counter!TurnAway(p) \/ UNCHANGED <<places, answer>>
    BY <1>4, LockAssumption DEF ReadJournal, UnansweredUntilTheEnd, Counter!TurnAway
  <1>5. ASSUME NEW p \in Procs, AppendPlace(p) PROVE Counter!Take(p)
    BY <1>5 DEF AppendPlace, UnansweredUntilTheEnd, RoomForTheHolder, Counter!Take
  <1>6. ASSUME NEW p \in Procs, Unlock(p) PROVE UNCHANGED <<places, answer>>
    BY <1>6 DEF Unlock
  <1>7. CASE LockAges
    BY <1>7 DEF LockAges
  <1>8. CASE UNCHANGED lockVars
    BY <1>8 DEF lockVars
  <1> QED
    BY <1>1, <1>2, <1>3, <1>4, <1>5, <1>6, <1>7, <1>8, NoCrash DEF LockNext, LockStep, Counter!Next

\* Check-and-append under the lock file is one step of a counter of places, while no process dies and
\* a lock can be removed.
THEOREM LockImplementsCounter == ASSUME MaxCrashes = 0, ~UnlinkFails PROVE LockSpec => ImplementsCounter
  <1>1. LockInv /\ [LockNext]_lockVars => [Counter!Next]_Counter!vars
    BY CounterStep
  <1> QED
    BY <1>1, CounterInit, LockInvHolds, PTL DEF LockSpec, ImplementsCounter, Counter!Spec

-----------------------------------------------------------------------------
(* The login of `max serve`. *)

\* A login under way has its connection, a client of the server's was made, and no call of
\* #connect is yet to come.
LoginsAreOpen ==
  /\ \A i \in Ids : i > connects => phase[i] = "none"
  /\ \A i \in Ids : phase[i] = "login" => i \in alive
  /\ client # None => phase[client] = "made"

\* While the server runs, #up has settled exactly when it has a client, and waiting is for #up.
UpMeansClient ==
  /\ ~ stopped => (up <=> client # None)
  /\ \A c \in Commands : asked[c] = "waits" => ~ up /\ ~ stopped

ServerType ==
  /\ phase \in [Ids -> {"none", "login", "rest", "made", "over"}]
  /\ by \in [Ids -> {"start", "retry", "refresh"}]
  /\ asked \in [Commands -> {"idle", "waits", "answered", "unavailable", "cut"}]
  /\ connects \in Ids
  /\ client \in 0 .. connects
  /\ set \in Nat
  /\ up \in BOOLEAN /\ stopped \in BOOLEAN

ServerInv == ServerType /\ LoginsAreOpen /\ UpMeansClient

LEMMA InvInit == ServerInit => ServerInv
  <1> SUFFICES ASSUME ServerInit  PROVE  ServerInv
    OBVIOUS
  <1>1. 1 \in Ids
    BY ServerAssumption DEF Ids
  <1>2. ServerType
    <2>1. client \in 0 .. connects /\ connects \in Ids
      BY <1>1 DEF ServerInit, None
    <2>2. /\ phase \in [Ids -> {"none", "login", "rest", "made", "over"}]
          /\ by \in [Ids -> {"start", "retry", "refresh"}]
          /\ asked \in [Commands -> {"idle", "waits", "answered", "unavailable", "cut"}]
      BY DEF ServerInit
    <2> QED
      BY <2>1, <2>2 DEF ServerInit, ServerType
  <1>3. LoginsAreOpen
    BY <1>1, ServerAssumption DEF ServerInit, LoginsAreOpen, None, Ids
  <1>4. UpMeansClient
    BY DEF ServerInit, UpMeansClient
  <1> QED
    BY <1>2, <1>3, <1>4 DEF ServerInv

\* The first half of stop() leaves nobody waiting.
LEMMA StopKeeps ==
  ASSUME ServerType, UpMeansClient, StopBegins, client' = client
  PROVE  /\ asked' \in [Commands -> {"idle", "waits", "answered", "unavailable", "cut"}]
         /\ up' \in BOOLEAN /\ stopped' \in BOOLEAN
         /\ UpMeansClient'
  <1>1. CASE stopped
    BY <1>1 DEF StopBegins, ServerType, UpMeansClient
  <1>2. CASE ~ stopped
    BY <1>2 DEF StopBegins, ServerType, UpMeansClient
  <1> QED
    BY <1>1, <1>2

LEMMA InvNext == ServerInv /\ [ServerNext]_serverVars => ServerInv'
  <1> SUFFICES ASSUME ServerInv, [ServerNext]_serverVars  PROVE  ServerInv'
    OBVIOUS
  <1> USE DEF ServerInv
  <1>0. Ids = 1 .. MaxFailures + MaxStale + 1 /\ MaxFailures + MaxStale + 1 \in Nat
    BY ServerAssumption DEF Ids
  <1>1. ASSUME NEW i \in Ids, LoginAnswered(i)  PROVE  ServerInv'
    <2>1. ServerType'
      <3>1. CASE Made(i, alive)
        <4>1. i \in 0 .. connects
          BY <1>0, <1>1 DEF LoginAnswered, ServerType, LoginsAreOpen
        <4> QED
          BY <1>1, <3>1, <4>1 DEF LoginAnswered, Made, ServerType
      <3>2. CASE phase' = [phase EXCEPT ![i] = "rest"] /\ UNCHANGED <<alive, client, asked, up, refresh>>
        BY <1>1, <3>2 DEF LoginAnswered, ServerType
      <3> QED
        BY <1>1, <3>1, <3>2 DEF LoginAnswered
    <2>2. LoginsAreOpen'
      BY <1>0, <1>1 DEF LoginAnswered, Made, ServerType, LoginsAreOpen, None
    <2>3. UpMeansClient'
      BY <1>0, <1>1 DEF LoginAnswered, Made, ServerType, UpMeansClient, None
    <2> QED
      BY <2>1, <2>2, <2>3
  <1>2. ASSUME NEW i \in Ids, LoginFails(i)  PROVE  ServerInv'
    <2> USE <1>2 DEF LoginFails
    <2>1. ServerType' /\ UpMeansClient'
      <3>1. CASE by[i] = "start" /\ StopBegins /\ UNCHANGED <<set, retry>>
        BY <3>1, StopKeeps DEF ServerType
      <3>2. CASE ReconnectLater /\ UNCHANGED <<stopped, up, asked>>
        BY <3>2 DEF ReconnectLater, ServerType, UpMeansClient
      <3>3. CASE UNCHANGED <<stopped, up, asked, set, timers, retry>>
        BY <3>3 DEF ServerType, UpMeansClient
      <3> QED
        BY <3>1, <3>2, <3>3
    <2>2. LoginsAreOpen'
      BY DEF LoginsAreOpen, ServerType
    <2> QED
      BY <2>1, <2>2
  <1>3. ASSUME NEW i \in Ids, LoginRefused(i)  PROVE  ServerInv'
    <2>1. ServerType' /\ UpMeansClient'
      BY <1>3, StopKeeps DEF LoginRefused, ServerType
    <2>2. LoginsAreOpen'
      BY <1>3 DEF LoginRefused, LoginsAreOpen, ServerType
    <2> QED
      BY <2>1, <2>2
  <1>4. ASSUME NEW i \in Ids, RestAnswered(i) \/ RestLost(i)  PROVE  ServerInv'
    <2>0. PICK survivors : Made(i, survivors) /\ alive \ {i} \subseteq survivors
      BY <1>4 DEF RestAnswered, RestLost
    <2>1. phase[i] = "rest" /\ UNCHANGED <<connects, by, set, stopped>>
      BY <1>4 DEF RestAnswered, RestLost
    <2>2. ServerType'
      BY <1>0, <2>0, <2>1 DEF Made, ServerType, LoginsAreOpen
    <2>3. LoginsAreOpen'
      BY <1>0, <2>0, <2>1 DEF Made, ServerType, LoginsAreOpen, None
    <2>4. UpMeansClient'
      BY <1>0, <2>0, <2>1 DEF Made, ServerType, UpMeansClient, None
    <2> QED
      BY <2>2, <2>3, <2>4
  <1>6. ASSUME NEW who \in {"retry", "refresh"}, Connect(who),
               UNCHANGED <<client, set, up, asked, stopped>>
        PROVE  ServerInv'
    <2>1. ServerType'
      BY <1>0, <1>6 DEF Connect, ServerType
    <2>2. LoginsAreOpen'
      BY <1>0, <1>6 DEF Connect, ServerType, LoginsAreOpen, None
    <2>3. UpMeansClient'
      BY <1>6 DEF UpMeansClient
    <2> QED
      BY <2>1, <2>2, <2>3
  <1>7. ASSUME NEW c \in Commands, Ask(c)  PROVE  ServerInv'
    BY <1>7 DEF Ask, ServerType, LoginsAreOpen, UpMeansClient
  <1>8. CASE Lost
    <2>1. ServerType'
      <3>1. set' \in Nat
        <4>1. CASE stopped
          BY <1>8, <4>1 DEF Lost, ServerType
        <4>2. CASE ~ stopped
          BY <1>8, <4>2 DEF Lost, ReconnectLater, ServerType
        <4> QED
          BY <4>1, <4>2
      <3>2. client' \in 0 .. connects' /\ connects' \in Ids
        BY <1>0, <1>8 DEF Lost, ServerType, None
      <3> QED
        BY <1>8, <3>1, <3>2 DEF Lost, ServerType
    <2>2. LoginsAreOpen'
      BY <1>0, <1>8 DEF Lost, ServerType, LoginsAreOpen, None
    <2>3. UpMeansClient'
      BY <1>8 DEF Lost, UpMeansClient, ServerType, None
    <2> QED
      BY <2>1, <2>2, <2>3
  <1>9. CASE GoneStale
    BY <1>9 DEF GoneStale, ServerType, LoginsAreOpen, UpMeansClient
  <1>11. CASE Stop
    <2>1. ServerType' /\ UpMeansClient'
      BY <1>11, StopKeeps DEF Stop, ServerType
    <2>2. LoginsAreOpen'
      BY <1>11 DEF Stop, LoginsAreOpen
    <2> QED
      BY <2>1, <2>2
  <1>12. CASE StopEnds
    <2>1. ServerType'
      BY <1>0, <1>12 DEF StopEnds, ServerType, None
    <2>2. LoginsAreOpen'
      BY <1>0, <1>12 DEF StopEnds, ServerType, LoginsAreOpen, None
    <2>3. UpMeansClient'
      BY <1>12 DEF StopEnds, ServerType, UpMeansClient
    <2> QED
      BY <2>1, <2>2, <2>3
  <1>13. CASE UNCHANGED serverVars
    BY <1>13 DEF serverVars, ServerType, LoginsAreOpen, UpMeansClient
  <1> QED
    BY <1>1, <1>2, <1>3, <1>4, <1>6, <1>7, <1>8, <1>9, <1>11, <1>12, <1>13
    DEF ServerNext, LoginSettles, RestSettles, RetryFires, RefreshFires

LEMMA InvHolds == ServerSpec => []ServerInv
  BY InvInit, InvNext, PTL DEF ServerSpec

\* Nobody is left waiting by a server that has a connection, or told "not connected" by one that
\* still tries (#request, #lost, stop).
THEOREM CommandsWaitForLogin == ServerSpec => []WaitsForLogin
  <1>1. ServerInit => WaitsForLogin
    BY DEF ServerInit, WaitsForLogin
  <1>2. ServerInv /\ ServerInv' /\ WaitsForLogin /\ [ServerNext]_serverVars => WaitsForLogin'
    <2> SUFFICES ASSUME ServerInv, ServerInv', WaitsForLogin, [ServerNext]_serverVars, NEW d \in Commands
                 PROVE  /\ client' # None => asked'[d] # "waits"
                        /\ asked'[d] # "unavailable"
      BY DEF WaitsForLogin
    <2>1. client' # None => asked'[d] # "waits"
      BY DEF ServerInv, UpMeansClient
    <2>2. CASE asked' = asked
      BY <2>1, <2>2 DEF WaitsForLogin
    <2>3. ASSUME asked' = [c \in Commands |-> IF asked[c] = "waits" THEN "answered" ELSE asked[c]]
                 \/ asked' = [c \in Commands |-> IF asked[c] = "waits" THEN "cut" ELSE asked[c]]
          PROVE  asked'[d] # "unavailable"
      BY <2>3 DEF WaitsForLogin
    <2>4. ASSUME NEW c \in Commands, Ask(c)
          PROVE  asked'[d] # "unavailable"
      BY <2>4 DEF Ask, ServerInv, ServerType, UpMeansClient, WaitsForLogin
    <2>5. CASE UNCHANGED serverVars
      BY <2>2, <2>5 DEF serverVars
    <2> QED
      BY <2>1, <2>2, <2>3, <2>4, <2>5
      DEF ServerNext, LoginSettles, RestSettles, LoginAnswered, LoginFails, LoginRefused, RestAnswered,
          RestLost, RetryFires, RefreshFires, Lost, GoneStale, Stop, StopEnds, StopBegins, Made
  <1> QED
    BY <1>1, <1>2, InvHolds, PTL DEF ServerSpec

\* What keeps a running server from being left without a connection for good: a login whose end
\* is a retry or a stop.
OnTheWay(i) == phase[i] \in {"login", "rest"} /\ by[i] \in {"start", "retry"}

\* How many chats the account has is settled before the server starts.
LEMMA ListStays == [ServerNext]_serverVars => longList' = longList
  <1> SUFFICES ASSUME [ServerNext]_serverVars  PROVE  longList' = longList
    OBVIOUS
  <1>1. CASE \E i \in Ids : LoginSettles(i) \/ RestSettles(i)
    BY <1>1 DEF LoginSettles, RestSettles, LoginAnswered, LoginFails, LoginRefused,
                RestAnswered, RestLost
  <1>2. CASE \/ \E t \in timers : RetryFires(t)
             \/ RefreshFires \/ Stop \/ StopEnds \/ Lost \/ GoneStale
    BY <1>2 DEF RetryFires, RefreshFires, Stop, StopEnds, Lost, GoneStale
  <1>3. CASE \E c \in Commands : Ask(c)
    BY <1>3 DEF Ask
  <1>4. CASE UNCHANGED serverVars
    BY <1>4 DEF serverVars
  <1> QED
    BY <1>1, <1>2, <1>3, <1>4 DEF ServerNext

\* Only an account of many chats has chats to read after a login.
LEMMA RestIsLong == ServerSpec => [](~ longList => \A i \in Ids : phase[i] # "rest")
  <1>1. ServerInit => (~ longList => \A i \in Ids : phase[i] # "rest")
    BY DEF ServerInit
  <1>2. /\ ServerInv /\ [ServerNext]_serverVars
        /\ ~ longList => \A i \in Ids : phase[i] # "rest"
        => (~ longList => \A i \in Ids : phase[i] # "rest")'
    BY DEF ServerNext, serverVars, LoginSettles, RestSettles, LoginAnswered, LoginFails, LoginRefused,
       RestAnswered, RestLost, Made, RetryFires, RefreshFires, Connect, Lost, GoneStale, Stop,
       StopEnds, Ask, ServerInv, ServerType
  <1> QED
    BY <1>1, <1>2, InvHolds, PTL DEF ServerSpec

\* A running server of an account LOGIN answers every chat of always has a connection or one on
\* the way, however drops, failed logins and background logins interleave (#lost,
\* #reconnectLater, #goneStale).
THEOREM NeverStranded == ServerSpec => []WayBack
  <1>1. ServerInit => WayBack
    <2> SUFFICES ASSUME ServerInit  PROVE  client \in alive \/ (OnTheWay(1) /\ 1 \in Ids)
      BY DEF WayBack, OnTheWay
    <2> QED
      BY ServerAssumption DEF ServerInit, OnTheWay, Ids
  <1>2. /\ ServerInv /\ [ServerNext]_serverVars /\ WayBack
        /\ ~ longList => \A i \in Ids : phase[i] # "rest"
        => WayBack'
    <2> SUFFICES ASSUME ServerInv, [ServerNext]_serverVars, WayBack, ~ longList,
                        \A i \in Ids : phase[i] # "rest"
                 PROVE  WayBack'
      BY ListStays DEF WayBack
    <2> USE DEF ServerInv
    <2>0. Ids \subseteq Nat \ {0} /\ connects \in Nat
      BY ServerAssumption DEF Ids, ServerType
    <2>1. ASSUME NEW i \in Ids, LoginAnswered(i)  PROVE  WayBack'
      <3>1. Made(i, alive) /\ i \in alive
        BY <2>1 DEF LoginAnswered, LoginsAreOpen
      <3>2. i # client
        BY <2>0, <2>1 DEF LoginAnswered, LoginsAreOpen, None
      <3> QED
        BY <3>1, <3>2 DEF Made, WayBack
    <2>2. ASSUME NEW i \in Ids, LoginFails(i)  PROVE  WayBack'
      <3> USE <2>2 DEF LoginFails
      <3>1. CASE StopBegins
        <4>1. stopped'
          BY <3>1 DEF StopBegins
        <4> QED
          BY <4>1 DEF WayBack
      <3>2. CASE ReconnectLater
        <4>1. set + 1 \in timers'
          BY <3>2 DEF ReconnectLater
        <4> QED
          BY <4>1 DEF WayBack
      <3>3. CASE by[i] = "refresh" /\ UNCHANGED <<stopped, up, asked, set, timers, retry>>
        <4>1. i # client
          BY <2>0 DEF LoginsAreOpen, None
        <4>2. \A j \in Ids : OnTheWay(j) => OnTheWay(j)'
          BY <3>3 DEF OnTheWay, ServerType
        <4> QED
          BY <3>3, <4>1, <4>2 DEF WayBack, OnTheWay
      <3> QED
        BY <3>1, <3>2, <3>3
    <2>3. ASSUME NEW i \in Ids, LoginRefused(i)  PROVE  WayBack'
      BY <2>3 DEF LoginRefused, StopBegins, WayBack
    <2>4. ASSUME NEW t \in timers, RetryFires(t)  PROVE  WayBack'
      <3>1. PICK n \in Ids : n = connects + 1
        BY <2>4 DEF RetryFires, Connect
      <3>2. OnTheWay(n)'
        BY <2>4, <3>1 DEF RetryFires, Connect, OnTheWay, ServerType
      <3> QED
        BY <3>2 DEF WayBack, OnTheWay
    <2>5. CASE Lost
      <3>1. CASE stopped
        BY <2>5, <3>1 DEF Lost, WayBack
      <3>2. CASE ~ stopped
        BY <2>5, <3>2 DEF Lost, ReconnectLater, WayBack
      <3> QED
        BY <3>1, <3>2
    <2>6. CASE RefreshFires
      <3>1. \A i \in Ids : i # connects + 1 /\ OnTheWay(i) => OnTheWay(i)'
        BY <2>6 DEF RefreshFires, Connect, OnTheWay, ServerType
      <3>2. ~ OnTheWay(connects + 1)
        BY <2>0, <2>6 DEF RefreshFires, Connect, OnTheWay, LoginsAreOpen
      <3> QED
        BY <2>6, <3>1, <3>2 DEF RefreshFires, Connect, WayBack, OnTheWay
    <2>7. CASE Stop \/ StopEnds
      BY <2>7 DEF Stop, StopEnds, StopBegins, WayBack
    <2>8. CASE GoneStale \/ UNCHANGED serverVars \/ \E c \in Commands : Ask(c)
      BY <2>8 DEF GoneStale, serverVars, Ask, WayBack
    <2> QED
      BY <2>1, <2>2, <2>3, <2>4, <2>5, <2>6, <2>7, <2>8
      DEF ServerNext, LoginSettles, RestSettles, RestAnswered, RestLost
  <1> QED
    BY <1>1, <1>2, RestIsLong, InvHolds, PTL DEF ServerSpec

\* As long as no connection was lost with a background login due or under way, the server is at one
\* thing: a login, the timer of one while it has no connection, or the timer of a background login
\* beside its connection; and after a refusal it has stopped, with none of them.
Underway(i) == phase[i] \in {"login", "rest"}
NoneUnderway == \A i \in Ids : ~Underway(i)

OneTimer ==
  /\ timers \subseteq {retry}
  /\ timers # {} => NoneUnderway /\ client \notin alive /\ refresh = "none"

OneLogin ==
  /\ \A i, j \in Ids : Underway(i) /\ Underway(j) => i = j
  /\ \A i \in Ids : Underway(i) => IF by[i] = "refresh" THEN refresh = "login"
                                                       ELSE client \notin alive /\ refresh = "none"

AtOneThing ==
  /\ OneTimer
  /\ OneLogin
  /\ refresh = "timer" => client \in alive /\ ~stopped
  /\ refused => stopped /\ timers = {} /\ NoneUnderway

OneThingInv == None \notin alive /\ (~overlap => AtOneThing)

\* A login that comes to its end leaves none under way, and no timer.
LEMMA LastUnderway ==
  ASSUME AtOneThing, ServerType, NEW i \in Ids, Underway(i)
  PROVE  /\ timers = {} /\ ~refused /\ refresh # "timer"
         /\ by[i] = "refresh" \/ refresh = "none"
         /\ by[i] # "refresh" => client \notin alive
         /\ \A end \in {"made", "over"} : phase' = [phase EXCEPT ![i] = end] => NoneUnderway'
  <1>1. timers = {} /\ ~refused
    BY DEF AtOneThing, OneTimer, NoneUnderway
  <1>2. IF by[i] = "refresh" THEN refresh = "login" ELSE client \notin alive /\ refresh = "none"
    BY DEF AtOneThing, OneLogin
  <1>3. \A j \in Ids : Underway(j) => j = i
    BY DEF AtOneThing, OneLogin
  <1>4. ASSUME NEW end \in {"made", "over"}, phase' = [phase EXCEPT ![i] = end], NEW j \in Ids
        PROVE  ~Underway(j)'
    BY <1>3, <1>4 DEF Underway, ServerType
  <1> QED
    BY <1>1, <1>2, <1>4 DEF NoneUnderway

\* With none under way, no timer but the one #retry names and no background login due, the server is
\* at one thing.
LEMMA AtNothing ==
  ASSUME NoneUnderway', refresh' = "none", timers' \subseteq {retry'},
         timers' # {} => client' \notin alive', refused' => stopped' /\ timers' = {}
  PROVE  AtOneThing'
  <1>1. OneTimer'
    BY DEF OneTimer
  <1>2. OneLogin'
    BY DEF OneLogin, NoneUnderway
  <1> QED
    BY <1>1, <1>2 DEF AtOneThing

LEMMA OneThingNext == ServerInv /\ OneThingInv /\ [ServerNext]_serverVars => OneThingInv'
  <1> SUFFICES ASSUME ServerInv, OneThingInv, [ServerNext]_serverVars PROVE OneThingInv'
    OBVIOUS
  <1>0. ServerType /\ None \notin alive /\ client \in 0 .. connects /\ connects \in Nat
    BY ServerAssumption DEF ServerInv, ServerType, OneThingInv, Ids
  <1>1. ASSUME NEW i \in Ids, LoginAnswered(i) PROVE OneThingInv'
    <2>1. None \notin alive' /\ overlap' = overlap /\ Underway(i)
      BY <1>0, <1>1 DEF LoginAnswered, Made, Underway
    <2>2. ASSUME AtOneThing PROVE AtOneThing'
      <3>1. UNCHANGED << by, timers, retry, refused, stopped >>
        BY <1>1 DEF LoginAnswered
      <3>2. CASE Made(i, alive)
        <4>1. phase' = [phase EXCEPT ![i] = "made"] /\ refresh' = IF by[i] = "refresh" THEN "none" ELSE refresh
          BY <3>2 DEF Made
        <4>2. NoneUnderway' /\ timers' = {} /\ ~refused' /\ refresh' = "none"
          BY <1>0, <2>1, <2>2, <3>1, <4>1, LastUnderway
        <4> QED
          BY <4>2, AtNothing
      <3>3. CASE phase' = [phase EXCEPT ![i] = "rest"] /\ UNCHANGED << alive, client, asked, up, refresh >>
        <4>1. \A j \in Ids : Underway(j)' <=> Underway(j)
          BY <1>0, <1>1, <3>3 DEF LoginAnswered, Underway, ServerType
        <4>2. timers = {} /\ ~refused
          BY <1>0, <2>1, <2>2, LastUnderway
        <4>3. OneTimer' /\ OneLogin'
          BY <2>2, <3>1, <3>3, <4>1, <4>2 DEF AtOneThing, OneTimer, OneLogin
        <4> QED
          BY <2>2, <3>1, <3>3, <4>2, <4>3 DEF AtOneThing
      <3> QED
        BY <1>1, <3>2, <3>3 DEF LoginAnswered
    <2> QED
      BY <2>1, <2>2 DEF OneThingInv
  <1>2. ASSUME NEW i \in Ids, RestAnswered(i) \/ RestLost(i) PROVE OneThingInv'
    <2>0. PICK survivors : Made(i, survivors) /\ survivors \subseteq alive
      BY <1>2 DEF RestAnswered, RestLost
    <2>1. None \notin alive' /\ overlap' = overlap /\ Underway(i)
      BY <1>0, <1>2, <2>0 DEF RestAnswered, RestLost, Made, Underway
    <2>2. ASSUME AtOneThing PROVE AtOneThing'
      <3>1. UNCHANGED << by, timers, retry, refused >>
        BY <1>2 DEF RestAnswered, RestLost
      <3>2. phase' = [phase EXCEPT ![i] = "made"] /\ refresh' = IF by[i] = "refresh" THEN "none" ELSE refresh
        BY <2>0 DEF Made
      <3>3. NoneUnderway' /\ timers' = {} /\ ~refused' /\ refresh' = "none"
        BY <1>0, <2>1, <2>2, <3>1, <3>2, LastUnderway
      <3> QED
        BY <3>3, AtNothing
    <2> QED
      BY <2>1, <2>2 DEF OneThingInv
  <1>3. ASSUME NEW i \in Ids, LoginFails(i) \/ LoginRefused(i) PROVE OneThingInv'
    <2>0. alive' = alive \ {i} /\ phase' = [phase EXCEPT ![i] = "over"] /\ UNCHANGED << by, client, overlap >>
          /\ Underway(i) /\ refresh' = RefreshLeft(i)
      BY <1>3 DEF LoginFails, LoginRefused, Underway
    <2>2. ASSUME AtOneThing PROVE AtOneThing'
      <3>1. NoneUnderway' /\ timers = {} /\ ~refused /\ (by[i] # "refresh" => client' \notin alive')
        BY <1>0, <2>0, <2>2, LastUnderway
      <3>2. refresh' = "none"
        BY <1>0, <2>0, <2>2, LastUnderway DEF RefreshLeft
      <3>3. timers' \subseteq {retry'} /\ (timers' # {} => by[i] # "refresh") /\ (refused' => stopped' /\ timers' = {})
        <4>1. CASE StopBegins
          BY <3>1, <4>1 DEF StopBegins
        <4>2. CASE ReconnectLater /\ by[i] = "retry" /\ LoginFails(i)
          BY <3>1, <4>2 DEF ReconnectLater, LoginFails
        <4>3. CASE UNCHANGED timers /\ LoginFails(i)
          BY <3>1, <4>3 DEF LoginFails
        <4> QED
          BY <1>3, <4>1, <4>2, <4>3 DEF LoginFails, LoginRefused
      <3> QED
        BY <3>1, <3>2, <3>3, AtNothing
    <2> QED
      BY <1>0, <2>0, <2>2 DEF OneThingInv
  <1>4. ASSUME NEW t \in timers, RetryFires(t) PROVE OneThingInv'
    <2>0. connects + 1 \in Ids /\ alive' = alive \cup {connects + 1} /\ connects + 1 # None /\ connects + 1 # client
      BY <1>0, <1>4 DEF RetryFires, Connect, None
    <2>1. None \notin alive' /\ overlap' = overlap
      BY <1>0, <1>4, <2>0 DEF RetryFires
    <2>2. ASSUME AtOneThing PROVE AtOneThing'
      <3>1. timers' = {} /\ NoneUnderway /\ client \notin alive /\ ~refused /\ refresh = "none"
        BY <1>4, <2>2 DEF AtOneThing, OneTimer, RetryFires
      <3>2. client' \notin alive' /\ ~refused' /\ refresh' = "none"
        BY <1>4, <2>0, <3>1 DEF RetryFires
      <3>3. \A j \in Ids : Underway(j)' => j = connects + 1 /\ by'[j] = "retry"
        BY <1>0, <1>4, <2>0, <3>1 DEF RetryFires, Connect, NoneUnderway, Underway, ServerType
      <3>4. OneTimer' /\ OneLogin'
        BY <3>1, <3>2, <3>3 DEF OneTimer, OneLogin
      <3> QED
        BY <3>2, <3>4 DEF AtOneThing
    <2> QED
      BY <2>1, <2>2 DEF OneThingInv
  <1>5. ASSUME RefreshFires PROVE OneThingInv'
    <2>0. connects + 1 \in Ids /\ alive' = alive \cup {connects + 1} /\ connects + 1 # None
      BY <1>0, <1>5 DEF RefreshFires, Connect, None
    <2>1. None \notin alive' /\ overlap' = overlap
      BY <1>0, <1>5, <2>0 DEF RefreshFires
    <2>2. ASSUME AtOneThing PROVE AtOneThing'
      <3>1. refresh = "timer" /\ client \in alive /\ ~stopped /\ timers = {} /\ ~refused
        BY <1>5, <2>2 DEF AtOneThing, OneTimer, RefreshFires
      <3>2. NoneUnderway
        BY <2>2, <3>1 DEF AtOneThing, OneLogin, NoneUnderway
      <3>3. timers' = {} /\ ~refused' /\ refresh' = "login"
        BY <1>5, <3>1 DEF RefreshFires
      <3>4. \A j \in Ids : Underway(j)' => j = connects + 1 /\ by'[j] = "refresh"
        BY <1>0, <1>5, <2>0, <3>2 DEF RefreshFires, Connect, NoneUnderway, Underway, ServerType
      <3>5. OneTimer' /\ OneLogin'
        BY <3>3, <3>4 DEF OneTimer, OneLogin
      <3> QED
        BY <3>3, <3>5 DEF AtOneThing
    <2> QED
      BY <2>1, <2>2 DEF OneThingInv
  <1>6. ASSUME Lost PROVE OneThingInv'
    <2>1. None \notin alive' /\ overlap' = (overlap \/ refresh # "none")
      BY <1>0, <1>6 DEF Lost
    <2>2. ASSUME AtOneThing, refresh = "none" PROVE AtOneThing'
      <3>1. client \in alive /\ timers = {}
        BY <1>6, <2>2 DEF AtOneThing, OneTimer, Lost
      <3>2. NoneUnderway
        BY <2>2, <3>1 DEF AtOneThing, OneLogin, NoneUnderway
      <3>3. NoneUnderway' /\ refresh' = "none" /\ client' \notin alive' /\ UNCHANGED << refused, stopped >>
        BY <1>6, <2>1, <2>2, <3>2 DEF Lost, NoneUnderway, Underway
      <3>4. timers' \subseteq {retry'} /\ (stopped => timers' = {})
        BY <1>6, <3>1 DEF Lost, ReconnectLater
      <3>5. refused' => stopped' /\ timers' = {}
        BY <2>2, <3>3, <3>4 DEF AtOneThing
      <3> QED
        BY <3>3, <3>4, <3>5, AtNothing
    <2> QED
      BY <2>1, <2>2 DEF OneThingInv
  <1>7. ASSUME GoneStale PROVE OneThingInv'
    <2>1. /\ client \in alive /\ (refresh' = refresh \/ (refresh = "none" /\ ~stopped /\ refresh' = "timer"))
          /\ UNCHANGED << phase, by, alive, client, timers, retry, stopped, refused, overlap >>
      BY <1>7 DEF GoneStale
    <2>2. ASSUME AtOneThing PROVE AtOneThing'
      <3>1. timers = {} /\ timers' = {}
        BY <2>1, <2>2 DEF AtOneThing, OneTimer
      <3>2. \A j \in Ids : Underway(j)' <=> Underway(j)
        BY <2>1 DEF Underway
      <3>3. \A j \in Ids : Underway(j) => by[j] = "refresh" /\ refresh = "login"
        BY <2>1, <2>2 DEF AtOneThing, OneLogin
      <3>4. OneTimer' /\ OneLogin'
        BY <2>1, <2>2, <3>1, <3>2, <3>3 DEF AtOneThing, OneTimer, OneLogin
      <3>5. refused' => stopped' /\ timers' = {} /\ NoneUnderway'
        BY <2>1, <2>2, <3>1, <3>2 DEF AtOneThing, NoneUnderway
      <3> QED
        BY <2>1, <2>2, <3>4, <3>5 DEF AtOneThing
    <2> QED
      BY <1>0, <2>1, <2>2 DEF OneThingInv
  <1>8. ASSUME Stop \/ StopEnds PROVE OneThingInv'
    <2>1. None \notin alive' /\ alive' \subseteq alive /\ overlap' = overlap
      BY <1>0, <1>8 DEF Stop, StopEnds
    <2>2. timers' \subseteq timers /\ UNCHANGED << phase, by, retry, refused >> /\ client' \in {client, None} /\ stopped'
      BY <1>8 DEF Stop, StopEnds, StopBegins
    <2>3. ASSUME AtOneThing PROVE AtOneThing'
      <3>1. refresh' # "timer" /\ (refresh # "timer" => refresh' = refresh)
        BY <1>8, <2>3 DEF AtOneThing, Stop, StopEnds
      <3>2. client' \in alive' => client \in alive
        BY <2>1, <2>2
      <3>3. \A j \in Ids : Underway(j)' <=> Underway(j)
        BY <2>2 DEF Underway
      <3>4. OneTimer'
        BY <2>2, <2>3, <3>1, <3>2, <3>3 DEF AtOneThing, OneTimer, NoneUnderway
      <3>5. OneLogin'
        BY <2>2, <2>3, <3>1, <3>2, <3>3 DEF AtOneThing, OneLogin
      <3>6. refused' => stopped' /\ timers' = {} /\ NoneUnderway'
        BY <2>2, <2>3, <3>3 DEF AtOneThing, NoneUnderway
      <3> QED
        BY <3>1, <3>4, <3>5, <3>6 DEF AtOneThing
    <2> QED
      BY <2>1, <2>3 DEF OneThingInv
  <1>9. ASSUME UNCHANGED << phase, by, alive, client, timers, retry, refresh, stopped, refused, overlap >> PROVE OneThingInv'
    BY <1>9 DEF OneThingInv, AtOneThing, OneTimer, OneLogin, NoneUnderway, Underway
  <1>10. ASSUME NEW c \in Commands, Ask(c) PROVE OneThingInv'
    BY <1>9, <1>10 DEF Ask
  <1>11. CASE UNCHANGED serverVars
    BY <1>9, <1>11 DEF serverVars
  <1> QED
    BY <1>1, <1>2, <1>3, <1>4, <1>5, <1>6, <1>7, <1>8, <1>10, <1>11 DEF ServerNext, LoginSettles, RestSettles

LEMMA OneThingHolds == ServerSpec => [](ServerInv /\ OneThingInv)
  <1>1. ServerInit => OneThingInv
    BY DEF ServerInit, OneThingInv, AtOneThing, OneTimer, OneLogin, NoneUnderway, Underway, None
  <1> QED
    BY <1>1, OneThingNext, InvHolds, PTL DEF ServerSpec

\* Each login the server begins is the only one under way, none follows one MAX refused, and it is one
\* in the background exactly when a connection is there (refusedLogin, #goneStale, #reconnectLater):
\* with any number of drops, failed logins and pushes it cannot follow, until a connection is lost
\* with a background login due or under way.
THEOREM LoginsAreNeeded == ServerSpec => NoNeedlessLogin
  <1>1. ServerInv /\ OneThingInv /\ [ServerNext]_serverVars =>
          [connects' > connects /\ ~overlap =>
             /\ ~refused
             /\ \A i \in Ids : phase[i] \notin {"login", "rest"}
             /\ by'[connects'] = "refresh" <=> client \in alive]_serverVars
    <2> SUFFICES ASSUME ServerInv, OneThingInv, ServerNext, connects' > connects, ~overlap
                 PROVE  ~refused /\ NoneUnderway /\ (by'[connects'] = "refresh" <=> client \in alive)
      BY DEF NoneUnderway, Underway
    <2>1. AtOneThing
      BY DEF OneThingInv
    <2>2. ASSUME NEW t \in timers, RetryFires(t)
          PROVE  ~refused /\ NoneUnderway /\ (by'[connects'] = "refresh" <=> client \in alive)
      <3>1. ~refused /\ NoneUnderway /\ client \notin alive
        BY <2>1, <2>2 DEF AtOneThing, OneTimer
      <3>2. by'[connects'] = "retry"
        BY <2>2 DEF RetryFires, Connect, ServerInv, ServerType
      <3> QED
        BY <3>1, <3>2
    <2>3. ASSUME RefreshFires
          PROVE  ~refused /\ NoneUnderway /\ (by'[connects'] = "refresh" <=> client \in alive)
      <3>1. refresh = "timer" /\ client \in alive /\ ~refused
        BY <2>1, <2>3 DEF AtOneThing, RefreshFires
      <3>2. NoneUnderway
        BY <2>1, <3>1 DEF AtOneThing, OneLogin, NoneUnderway
      <3>3. by'[connects'] = "refresh"
        BY <2>3 DEF RefreshFires, Connect, ServerInv, ServerType
      <3> QED
        BY <3>1, <3>2, <3>3
    <2>4. connects' # connects
      BY ServerAssumption DEF ServerInv, ServerType, Ids
    <2> QED
      BY <2>2, <2>3, <2>4
      DEF ServerNext, LoginSettles, RestSettles, LoginAnswered, LoginFails, LoginRefused, RestAnswered,
          RestLost, Lost, GoneStale, Stop, StopEnds, Ask
  <1> QED
    BY <1>1, OneThingHolds, PTL DEF ServerSpec, NoNeedlessLogin
=============================================================================
