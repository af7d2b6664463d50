------------------------- MODULE SessionChildProofs -------------------------
(***************************************************************************)
(* Proofs about the tesla-session child, for any number of presence loops  *)
(* and links, any capacity and any set of requests: its types, that its    *)
(* critical sections exclude each other, that presence mode always belongs *)
(* to one presence loop, what may be cached when mu is free, who may open  *)
(* a link, and which link a responder answers on; then visits of the       *)
(* vehicle: what scans, what is announced, what ends a visit and what is   *)
(* left behind when presence mode ends.                                    *)
(***************************************************************************)
EXTENDS SessionChildProperties, TLAPS

-----------------------------------------------------------------------------
(* Type correctness.                                                       *)

\* What UNCHANGED means for each group of variables.
LEMMA GroupsUnchanged ==
    /\ UNCHANGED lockVars <=> UNCHANGED mu /\ UNCHANGED phase
    /\ UNCHANGED linkVars <=>
         UNCHANGED car /\ UNCHANGED linkUp /\ UNCHANGED sessions
    /\ UNCHANGED authVars <=> UNCHANGED queue /\ UNCHANGED responder
    /\ UNCHANGED visitVars <=>
         UNCHANGED settled /\ UNCHANGED vcsec /\ UNCHANGED insideEmitted
    /\ UNCHANGED modeVars <=>
         /\ UNCHANGED presence /\ UNCHANGED generation
         /\ UNCHANGED cancelled /\ UNCHANGED started
    /\ UNCHANGED scanVars <=>
         UNCHANGED watcher /\ UNCHANGED paused /\ UNCHANGED discovering
    /\ UNCHANGED loopVars <=>
         UNCHANGED pc /\ UNCHANGED snap /\ UNCHANGED seen
    /\ UNCHANGED sessionVars <=>
         /\ UNCHANGED bus /\ UNCHANGED linkVars /\ UNCHANGED links
         /\ UNCHANGED tap /\ UNCHANGED authVars /\ UNCHANGED visitVars
         /\ UNCHANGED idle /\ UNCHANGED fired
    /\ UNCHANGED presenceVars <=>
         /\ UNCHANGED modeVars /\ UNCHANGED beacon /\ UNCHANGED backoff
         /\ UNCHANGED scanVars
BY DEF lockVars, linkVars, authVars, visitVars, modeVars, scanVars, loopVars,
       sessionVars, presenceVars

\* A step that leaves the variables of a part of TypeOK alone keeps that part.
LEMMA TypeUnchanged ==
    ASSUME TypeOK
    PROVE  /\ UNCHANGED <<mu, phase, request>> => LockType'
           /\ UNCHANGED <<bus, car, linkUp, sessions, links, tap>> => LinkType'
           /\ UNCHANGED <<queue, responder>> => AuthType'
           /\ UNCHANGED <<settled, vcsec, insideEmitted, idle, fired>>
                => VisitType'
           /\ UNCHANGED <<presence, generation, cancelled, started, beacon,
                          backoff>> => ModeType'
           /\ UNCHANGED <<watcher, paused, discovering>> => ScanType'
           /\ UNCHANGED <<pc, snap, seen, told>> => LoopType'
<1> USE DEF TypeOK
<1>1. UNCHANGED <<mu, phase, request>> => LockType'
  BY DEF LockType
<1>2. UNCHANGED <<bus, car, linkUp, sessions, links, tap>> => LinkType'
  BY DEF LinkType
<1>3. UNCHANGED <<queue, responder>> => AuthType'
  BY DEF AuthType
<1>4. UNCHANGED <<settled, vcsec, insideEmitted, idle, fired>> => VisitType'
  BY DEF VisitType
<1>5. UNCHANGED <<presence, generation, cancelled, started, beacon, backoff>>
        => ModeType'
  BY DEF ModeType
<1>6. UNCHANGED <<watcher, paused, discovering>> => ScanType'
  BY DEF ScanType
<1>7. UNCHANGED <<pc, snap, seen, told>> => LoopType'
  BY DEF LoopType
<1> QED
  BY <1>1, <1>2, <1>3, <1>4, <1>5, <1>6, <1>7

LEMMA SessionDomainsType ==
    ASSUME NEW cmd
    PROVE  sessionDomains(cmd) \subseteq Domains
BY DEF sessionDomains, Domains, VCSEC, INFOTAINMENT

\* closeLink keeps the types of the link and of the visit.
LEMMA CloseLinkType ==
    ASSUME TypeOK, closeLink
    PROVE  /\ bus' \in BOOLEAN /\ UNCHANGED links => LinkType'
           /\ idle' \in BOOLEAN /\ fired' \in 0 .. MaxFired => VisitType'
<1>1. bus' \in BOOLEAN /\ UNCHANGED links => LinkType'
  BY DEF TypeOK, LinkType, closeLink
<1>2. idle' \in BOOLEAN /\ fired' \in 0 .. MaxFired => VisitType'
  BY DEF VisitType, closeLink
<1> QED
  BY <1>1, <1>2

LEMMA RequestLoopType ==
    ASSUME TypeOK, RequestLoop
    PROVE  TypeOK'
<1> USE TypeUnchanged, GroupsUnchanged DEF TypeOK
<1>1. ASSUME NEW cmd \in Requests, CommandOnLiveLink(cmd)
      PROVE  TypeOK'
  BY <1>1, SessionDomainsType
     DEF CommandOnLiveLink, Accept, ensureAuthTapLocked,
         resetIdleTimerLocked, LinkType, AuthType, VisitType
<1>2. ASSUME NEW cmd \in Requests, RequestConnect(cmd)
      PROVE  TypeOK'
  BY <1>2
     DEF RequestConnect, Accept, beginConnect, pauseWatcher, LockType,
         LinkType, ScanType, Phase, RequestKind, Constants
<1>3. CASE PairOnLiveLink
  BY <1>3, CloseLinkType
     DEF PairOnLiveLink, Accept, teardownLocked, LinkType, VisitType
<1>4. CASE NavigateOnLiveLink
  BY <1>4, SessionDomainsType
     DEF NavigateOnLiveLink, Accept, ensureAuthTapLocked, LockType, LinkType,
         AuthType, RequestKind
<1>5. CASE RequestGattFails
  BY <1>5
     DEF RequestGattFails, Unlock, LockType, Phase
<1>6. ASSUME NEW l \in Links, RequestGattUp(l)
      PROVE  TypeOK'
  BY <1>6
     DEF RequestGattUp, linkEstablished, ensureAuthTapLocked, LockType,
         LinkType, AuthType, Phase
<1>7. CASE RequestDropsLink
  BY <1>7, CloseLinkType
     DEF RequestDropsLink, teardownLocked, Unlock, LockType, LinkType,
         VisitType, Phase
<1>8. CASE RequestSessionUp
  BY <1>8, SessionDomainsType
     DEF RequestSessionUp, Unlock, resetIdleTimerLocked, LockType, LinkType,
         VisitType, Phase
<1>9. CASE NavigateExecute
  BY <1>9
     DEF NavigateExecute, resetIdleTimerLocked, LockType, VisitType
<1>10. CASE ForcedKeygen
  BY <1>10, CloseLinkType
     DEF ForcedKeygen, Accept, stopPresenceLocked, teardownLocked, LinkType,
         VisitType, ModeType, LoopType
<1>11. ASSUME NEW g \in Loops, PresenceStart(g)
       PROVE  TypeOK'
  BY <1>11
     DEF PresenceStart, Accept, Goto, ModeType, LoopType, Position
<1>12. CASE PresenceStop
  BY <1>12, CloseLinkType
     DEF PresenceStop, Accept, stopPresenceLocked, teardownLocked, LinkType,
         VisitType, ModeType, LoopType
<1>13. CASE Shutdown
  BY <1>13, CloseLinkType
     DEF Shutdown, stopPresenceLocked, teardownLocked, LockType, LinkType,
         VisitType, ModeType, LoopType
<1> QED
  BY <1>1, <1>2, <1>3, <1>4, <1>5, <1>6, <1>7, <1>8, <1>9, <1>10, <1>11,
     <1>12, <1>13 DEF RequestLoop

LEMMA ResponderType ==
    ASSUME TypeOK, NEW l \in Links, Responder(l)
    PROVE  TypeOK'
<1> USE TypeUnchanged, GroupsUnchanged DEF TypeOK
<1>1. CASE AuthTake(l)
  BY <1>1, Constants
     DEF AuthTake, AuthType, Constants
<1>2. CASE AuthReturns(l)
  BY <1>2
     DEF AuthReturns, AuthType
<1>3. CASE AuthAnswered(l)
  BY <1>3
     DEF AuthAnswered, AuthType
<1>4. CASE AuthDropsSession(l)
  BY <1>4, CloseLinkType
     DEF AuthDropsSession, teardownLocked, emitPresenceDisconnectedLocked,
         LinkType, AuthType, VisitType, LoopType
<1> QED
  BY <1>1, <1>2, <1>3, <1>4 DEF Responder

LEMMA ConnectFailedType ==
    ASSUME TypeOK, NEW g \in Loops, connectFailed(g),
           UNCHANGED <<modeVars, beacon, snap>>
    PROVE  /\ ModeType'
           /\ told' \in {"nothing", "near", "lost"} => LoopType'
           /\ UNCHANGED told => LoopType'
<1>1. ModeType'
  BY GroupsUnchanged DEF connectFailed, TypeOK, ModeType
<1>2. told' \in {"nothing", "near", "lost"} => LoopType'
  BY DEF connectFailed, Near, Goto, TypeOK, LoopType, Position
<1> QED
  BY <1>1, <1>2 DEF TypeOK, LoopType

\* Both outcomes of a connect attempt that got its session keep the types.
LEMMA SessionReadyType ==
    ASSUME TypeOK, NEW g \in Loops, NEW domains \in SUBSET Domains,
           sessionReady(g, domains),
           UNCHANGED <<bus, links, fired, modeVars, beacon, snap>>
    PROVE  LinkType' /\ VisitType' /\ ModeType' /\ LoopType'
<1> USE GroupsUnchanged
<1>1. ASSUME NEW status \in {"due", "absent", "present"},
             vcsec' = status, UNCHANGED <<settled, insideEmitted>>,
             sessions' = domains, UNCHANGED <<car, linkUp, tap>>,
             resetIdleTimerLocked, backoff' = FALSE,
             Goto(g, "near"), UNCHANGED <<seen, told>>
      PROVE  LinkType' /\ VisitType' /\ ModeType' /\ LoopType'
  <2>1. LinkType'
    BY <1>1 DEF TypeOK, LinkType
  <2>2. VisitType'
    BY <1>1 DEF TypeOK, VisitType, resetIdleTimerLocked
  <2>3. ModeType'
    BY <1>1 DEF TypeOK, ModeType
  <2>4. LoopType'
    BY <1>1 DEF TypeOK, LoopType, Goto, Position
  <2> QED
    BY <2>1, <2>2, <2>3, <2>4
<1>2. ASSUME primeDropped(g), emitPresenceDisconnectedLocked, connectFailed(g)
      PROVE  LinkType' /\ VisitType' /\ ModeType' /\ LoopType'
  <2>1. LinkType'
    BY <1>2, CloseLinkType DEF primeDropped, TypeOK, LinkType
  <2>2. VisitType'
    BY <1>2, CloseLinkType
       DEF primeDropped, resetIdleTimerLocked, TypeOK, VisitType
  <2>3. ModeType'
    BY <1>2, ConnectFailedType
  <2>4. LoopType'
    BY <1>2, ConnectFailedType
       DEF emitPresenceDisconnectedLocked, TypeOK, LoopType
  <2> QED
    BY <2>1, <2>2, <2>3, <2>4
<1> QED
  BY <1>1, <1>2 DEF sessionReady

LEMMA PresenceLoopType ==
    ASSUME TypeOK, NEW g \in Loops, Loop(g)
    PROVE  TypeOK'
<1> USE TypeUnchanged, GroupsUnchanged DEF TypeOK
<1>1. CASE LoopOpensBus(g)
  BY <1>1
     DEF LoopOpensBus, Goto, LinkType, LoopType, Position
<1>2. CASE LoopOpensWatcher(g)
  BY <1>2
     DEF LoopOpensWatcher, Goto, LoopType, Position
<1>3. CASE WatchStarts(g)
  BY <1>3
     DEF WatchStarts, Goto, LockType, ScanType, LoopType, Position, Phase
<1>4. CASE WatchStarted(g)
  BY <1>4
     DEF WatchStarted, Goto, Unlock, LockType, ScanType, LoopType, Position,
         Phase
<1>5. CASE WatchFails(g)
  BY <1>5
     DEF WatchFails, Goto, LoopType, Position
<1>6. CASE LoopRuns(g)
  BY <1>6
     DEF LoopRuns, Goto, ScanType, LoopType, Position
<1>7. CASE LoopTestsContext(g)
  BY <1>7
     DEF LoopTestsContext, Goto, LoopType, Position
<1>8. CASE LoopSnapshots(g)
  BY <1>8
     DEF LoopSnapshots, Goto, Near, LinkType, LoopType, Position
<1>9. CASE LoopFindsDropped(g)
  BY <1>9, CloseLinkType
     DEF LoopFindsDropped, teardownLocked, emitPresenceDisconnectedLocked,
         Goto, LinkType, VisitType, LoopType, Position
<1>10. CASE HoldPauses(g)
  BY <1>10
     DEF HoldPauses, Goto, ScanType, LoopType, Position
<1>11. CASE HeldLinkDropped(g)
  BY <1>11, CloseLinkType
     DEF HeldLinkDropped, teardownLocked, emitPresenceDisconnectedLocked,
         Goto, LinkType, VisitType, LoopType, Position
<1>12. CASE HeldTick(g)
  BY <1>12
     DEF HeldTick, Goto, LoopType, Position
<1>13. CASE HoldPrimes(g)
  BY <1>13, CloseLinkType
     DEF HoldPrimes, primed, emitInsideLocked, resetIdleTimerLocked,
         primeDropped, emitPresenceDisconnectedLocked, Goto, LinkType,
         VisitType, LoopType, Position
<1>14. CASE LoopLooks(g)
  <2>1. ScanType'
    BY <1>14 DEF LoopLooks, ScanType
  <2>2. LoopType'
    BY <1>14 DEF LoopLooks, Goto, LoopType, Position
  <2> QED
    BY <1>14, <2>1, <2>2 DEF LoopLooks
<1>15. CASE WaitDiscovers(g)
  BY <1>15
     DEF WaitDiscovers, ScanType
<1>16. CASE WaitReturns(g)
  BY <1>16
     DEF WaitReturns, Goto, LoopType, Position
<1>17. CASE WaitFails(g)
  BY <1>17
     DEF WaitFails, Goto, stopWatcher, ScanType, LoopType, Position
<1>18. CASE LoopSteps(g)
  BY <1>18
     DEF LoopSteps, Near, Goto, ModeType, LoopType, Position
<1>19. CASE LoopReadsBackoff(g)
  BY <1>19
     DEF LoopReadsBackoff, Goto, LoopType, Position
<1>20. CASE LoopAdoptsLink(g)
  <2>1. CASE sessionReady(g, sessions \cup {VCSEC})
    <3>1. sessions \cup {VCSEC} \in SUBSET Domains
      BY DEF LinkType, Domains
    <3> QED
      BY <1>20, <2>1, <3>1, SessionReadyType DEF LoopAdoptsLink
  <2>2. CASE /\ connectFailed(g)
             /\ UNCHANGED <<linkVars, tap, visitVars, idle, told>>
    BY <1>20, <2>2, ConnectFailedType DEF LoopAdoptsLink
  <2> QED
    BY <1>20, <2>1, <2>2 DEF LoopAdoptsLink
<1>21. CASE LoopRefused(g)
  BY <1>21, ConnectFailedType DEF LoopRefused
<1>22. CASE LoopConnects(g)
  <2>1. LockType' /\ LinkType' /\ ScanType'
    BY <1>22
       DEF LoopConnects, beginConnect, pauseWatcher, LockType, LinkType,
           ScanType, Phase
  <2>2. LoopType'
    BY <1>22 DEF LoopConnects, Goto, LoopType, Position
  <2> QED
    BY <1>22, <2>1, <2>2 DEF LoopConnects
<1>23. CASE LoopGattFails(g)
  BY <1>23, ConnectFailedType
     DEF LoopGattFails, Unlock, LockType, Phase
<1>24. ASSUME NEW l \in Links, LoopGattUp(g, l)
       PROVE  TypeOK'
  <2>1. LockType' /\ LinkType'
    BY <1>24
       DEF LoopGattUp, linkEstablished, ensureAuthTapLocked, LockType,
           LinkType, Phase
  <2>2. AuthType'
    BY <1>24
       DEF LoopGattUp, linkEstablished, ensureAuthTapLocked, AuthType
  <2> QED
    BY <1>24, <2>1, <2>2 DEF LoopGattUp
<1>25. CASE LoopSessionFails(g)
  <2>1. ModeType' /\ LoopType'
    BY <1>25, ConnectFailedType DEF LoopSessionFails
  <2>2. LinkType' /\ VisitType'
    BY <1>25, CloseLinkType
       DEF LoopSessionFails, teardownLocked, LinkType, VisitType
  <2> QED
    BY <1>25, <2>1, <2>2 DEF LoopSessionFails, Unlock, LockType, Phase
<1>26. CASE LoopSessionUp(g)
  <2>1. {VCSEC} \in SUBSET Domains
    BY DEF Domains
  <2>2. LinkType' /\ VisitType' /\ ModeType' /\ LoopType'
    BY <1>26, <2>1, SessionReadyType DEF LoopSessionUp
  <2> QED
    BY <1>26, <2>2 DEF LoopSessionUp, Unlock, LockType, Phase
<1>27. CASE LoopReports(g)
  BY <1>27
     DEF LoopReports, Goto, LoopType, Position
<1>28. CASE LoopDeparts(g)
  BY <1>28, CloseLinkType
     DEF LoopDeparts, teardownLocked, Goto, LinkType, VisitType, ModeType,
         LoopType, Position
<1>29. CASE LoopPaused(g)
  BY <1>29
     DEF LoopPaused, Goto, LoopType, Position
<1>30. CASE LoopLeaves(g)
  BY <1>30
     DEF LoopLeaves, stopWatcher, Near, Goto, ScanType, LoopType, Position
<1>31. CASE LoopExits(g)
  BY <1>31
     DEF LoopExits, Goto, ModeType, LoopType, Position
<1> QED
  BY <1>1, <1>2, <1>3, <1>4, <1>5, <1>6, <1>7, <1>8, <1>9, <1>10, <1>11,
     <1>12, <1>13, <1>14, <1>15, <1>16, <1>17, <1>18, <1>19, <1>20, <1>21,
     <1>22, <1>23, <1>24, <1>25, <1>26, <1>27, <1>28, <1>29, <1>30, <1>31 DEF Loop

LEMMA EnvironmentType ==
    ASSUME TypeOK, Environment
    PROVE  TypeOK'
<1> USE TypeUnchanged, GroupsUnchanged DEF TypeOK
<1>1. ASSUME NEW l \in Links, Datagram(l)
      PROVE  TypeOK'
  BY <1>1, Constants
     DEF Datagram, AuthType, Constants
<1>2. CASE LinkDrops
  BY <1>2
     DEF LinkDrops, LinkType
<1>3. CASE ConnectionSettles
  BY <1>3
     DEF ConnectionSettles, VisitType, Phase
<1>4. CASE StatusAges
  BY <1>4
     DEF StatusAges, VisitType
<1>5. CASE BeaconAges
  BY <1>5
     DEF BeaconAges, ModeType
<1>6. CASE BackoffExpires
  BY <1>6
     DEF BackoffExpires, ModeType
<1>7. ASSUME NEW g \in Loops, FarTimeoutPasses(g)
      PROVE  TypeOK'
  BY <1>7
     DEF FarTimeoutPasses, Near, LoopType
<1>8. CASE IdleTimerFires
  <2>1. fired \in 0 .. MaxFired /\ fired < MaxFired /\ fired' = fired + 1
    BY <1>8 DEF IdleTimerFires, VisitType
  <2>2. fired' \in 0 .. MaxFired
    BY <2>1, Constants DEF Constants
  <2>3. VisitType'
    BY <1>8, <2>2 DEF IdleTimerFires, VisitType
  <2> QED
    BY <1>8, <2>3 DEF IdleTimerFires
<1> QED
  BY <1>1, <1>2, <1>3, <1>4, <1>5, <1>6, <1>7, <1>8 DEF Environment

\* Every variable keeps its type: the inbox of a link stays within its
\* capacity (enqueueAuthDatagram) and every step leads to a known position.
THEOREM TypeCorrect == Spec => []TypeOK
<1>1. Init => TypeOK
  <2> SUFFICES ASSUME Init
               PROVE  TypeOK
    OBVIOUS
  <2> USE Constants DEF Init, Constants
  <2>1. LockType /\ LinkType
    BY DEF LockType, LinkType, Phase
  <2>2. AuthType
    <3>1. 0 \in 0 .. InboxCap
      OBVIOUS
    <3> QED
      BY <3>1 DEF AuthType
  <2>3. VisitType
    <3>1. 0 \in 0 .. MaxFired
      OBVIOUS
    <3> QED
      BY <3>1 DEF VisitType
  <2>4. ModeType /\ ScanType
    BY DEF ModeType, ScanType
  <2>5. LoopType
    BY DEF LoopType, Position
  <2> QED
    BY <2>1, <2>2, <2>3, <2>4, <2>5 DEF TypeOK
<1>2. TypeOK /\ [Next]_vars => TypeOK'
  <2> SUFFICES ASSUME TypeOK, [Next]_vars
               PROVE  TypeOK'
    OBVIOUS
  <2>1. CASE UNCHANGED vars
    BY <2>1, TypeUnchanged, GroupsUnchanged DEF vars, TypeOK
  <2>2. CASE IdleTeardown
    <3>1. fired \in 0 .. MaxFired /\ fired > 0 /\ fired' = fired - 1
      BY <2>2 DEF IdleTeardown, TypeOK, VisitType
    <3>2. fired' \in 0 .. MaxFired
      BY <3>1, Constants DEF Constants
    <3>3. idle' \in BOOLEAN
      BY <2>2 DEF IdleTeardown, teardownLocked
    <3>4. bus' \in BOOLEAN
      BY <2>2 DEF IdleTeardown, TypeOK, LinkType
    <3>5. LinkType' /\ VisitType'
      BY <2>2, <3>2, <3>3, <3>4, CloseLinkType
         DEF IdleTeardown, teardownLocked
    <3> QED
      BY <2>2, <3>5, TypeUnchanged, GroupsUnchanged DEF IdleTeardown, TypeOK
  <2>3. CASE Next
    BY <2>2, <2>3, RequestLoopType, ResponderType, PresenceLoopType, EnvironmentType
       DEF Next
  <2> QED
    BY <2>1, <2>3
<1> QED
  BY <1>1, <1>2, PTL DEF Spec

-----------------------------------------------------------------------------
(* Who holds mu.                                                           *)

\* A loop in the middle of starting a watcher, or of connecting, holds mu.
LockInv ==
    /\ mu = None => phase = "none"
    /\ \A g \in Loops :
         /\ pc[g] \in {"watching", "rewatching"} => mu = g /\ phase = "none"
         /\ mu = g /\ phase # "none" => pc[g] = "connect"

\* What a step of loop g leaves alone: the other loops, and the mode; only
\* LoopExits turns presence mode off or ends a running loop.
LEMMA LoopFootprint ==
    ASSUME TypeOK, LockInv, NEW g \in Loops, Loop(g)
    PROVE  /\ pc' \in [Loops -> Position]
           /\ \A h \in Loops \ {g} : pc'[h] = pc[h]
           /\ pc[g] # "new" /\ pc'[g] # "new"
           /\ UNCHANGED <<generation, cancelled, started>>
           /\ \/ LoopExits(g)
              \/ UNCHANGED presence /\ (Running(g) <=> Running(g)')
<1> DEFINE Footprint ==
      /\ pc' \in [Loops -> Position]
      /\ \A h \in Loops \ {g} : pc'[h] = pc[h]
      /\ pc[g] # "new" /\ pc'[g] # "new"
      /\ UNCHANGED <<generation, cancelled, started>>
      /\ \/ LoopExits(g)
         \/ UNCHANGED presence /\ (Running(g) <=> Running(g)')
<1> SUFFICES Footprint
  OBVIOUS
<1>a. pc \in [Loops -> Position]
  BY DEF TypeOK, LoopType
<1> USE <1>a DEF Running, Position
<1>1. CASE LoopOpensBus(g)
  BY <1>1
     DEF LoopOpensBus, Goto, loopVars, presenceVars, modeVars
<1>2. CASE LoopOpensWatcher(g)
  BY <1>2
     DEF LoopOpensWatcher, Goto, loopVars, presenceVars, modeVars
<1>3. CASE WatchStarts(g)
  BY <1>3
     DEF WatchStarts, Goto, Free, loopVars, presenceVars, modeVars
<1>4. CASE WatchStarted(g)
  BY <1>4
     DEF WatchStarted, Goto, Unlock, loopVars, presenceVars, modeVars
<1>5. CASE WatchFails(g)
  BY <1>5
     DEF WatchFails, Goto, loopVars, presenceVars, modeVars
<1>6. CASE LoopRuns(g)
  BY <1>6
     DEF LoopRuns, Goto, loopVars, presenceVars, modeVars
<1>7. CASE LoopTestsContext(g)
  BY <1>7
     DEF LoopTestsContext, Goto, loopVars, presenceVars, modeVars
<1>8. CASE LoopSnapshots(g)
  BY <1>8
     DEF LoopSnapshots, Goto, loopVars, presenceVars, modeVars
<1>9. CASE LoopFindsDropped(g)
  BY <1>9
     DEF LoopFindsDropped, Goto, loopVars, presenceVars, modeVars
<1>10. CASE HoldPauses(g)
  BY <1>10
     DEF HoldPauses, Goto, loopVars, presenceVars, modeVars
<1>11. CASE HeldLinkDropped(g)
  BY <1>11
     DEF HeldLinkDropped, Goto, loopVars, presenceVars, modeVars
<1>12. CASE HeldTick(g)
  BY <1>12
     DEF HeldTick, Goto, loopVars, presenceVars, modeVars
<1>13. CASE HoldPrimes(g)
  BY <1>13
     DEF HoldPrimes, Goto, loopVars, presenceVars, modeVars
<1>14. CASE LoopLooks(g)
  BY <1>14
     DEF LoopLooks, Goto, loopVars, presenceVars, modeVars
<1>15. CASE WaitDiscovers(g)
  BY <1>15
     DEF WaitDiscovers, Goto, loopVars, presenceVars, modeVars
<1>16. CASE WaitReturns(g)
  BY <1>16
     DEF WaitReturns, Goto, loopVars, presenceVars, modeVars
<1>17. CASE WaitFails(g)
  BY <1>17
     DEF WaitFails, Goto, loopVars, presenceVars, modeVars
<1>18. CASE LoopSteps(g)
  BY <1>18
     DEF LoopSteps, Goto, loopVars, presenceVars, modeVars
<1>19. CASE LoopReadsBackoff(g)
  BY <1>19
     DEF LoopReadsBackoff, Goto, loopVars, presenceVars, modeVars
<1>20. CASE LoopAdoptsLink(g)
  BY <1>20
     DEF LoopAdoptsLink, Goto, sessionReady, connectFailed, loopVars,
         presenceVars, modeVars
<1>21. CASE LoopRefused(g)
  BY <1>21
     DEF LoopRefused, Goto, connectFailed, loopVars, presenceVars, modeVars
<1>22. CASE LoopConnects(g)
  BY <1>22
     DEF LoopConnects, Goto, beginConnect, Free, loopVars, presenceVars,
         modeVars
<1>23. CASE LoopGattFails(g)
  BY <1>23
     DEF LoopGattFails, Goto, connectFailed, Unlock, LockInv, loopVars,
         presenceVars, modeVars
<1>24. ASSUME NEW l \in Links, LoopGattUp(g, l)
       PROVE  Footprint
  BY <1>24
     DEF LoopGattUp, Goto, linkEstablished, LockInv, loopVars, presenceVars,
         modeVars
<1>25. CASE LoopSessionFails(g)
  BY <1>25
     DEF LoopSessionFails, Goto, connectFailed, Unlock, LockInv, loopVars,
         presenceVars, modeVars
<1>26. CASE LoopSessionUp(g)
  BY <1>26
     DEF LoopSessionUp, Goto, sessionReady, connectFailed, Unlock, LockInv,
         loopVars, presenceVars, modeVars
<1>27. CASE LoopReports(g)
  BY <1>27
     DEF LoopReports, Goto, loopVars, presenceVars, modeVars
<1>28. CASE LoopDeparts(g)
  BY <1>28
     DEF LoopDeparts, Goto, loopVars, presenceVars, modeVars
<1>29. CASE LoopPaused(g)
  BY <1>29
     DEF LoopPaused, Goto, loopVars, presenceVars, modeVars
<1>30. CASE LoopLeaves(g)
  BY <1>30
     DEF LoopLeaves, Goto, loopVars, presenceVars, modeVars
<1>31. CASE LoopExits(g)
  BY <1>31
     DEF LoopExits, Goto, loopVars, presenceVars, modeVars
<1> QED
  BY <1>1, <1>2, <1>3, <1>4, <1>5, <1>6, <1>7, <1>8, <1>9, <1>10, <1>11,
     <1>12, <1>13, <1>14, <1>15, <1>16, <1>17, <1>18, <1>19, <1>20, <1>21,
     <1>22, <1>23, <1>24, <1>25, <1>26, <1>27, <1>28, <1>29, <1>30, <1>31
     DEF Loop

LEMMA RequestLoopLock ==
    ASSUME TypeOK, LockInv, RequestLoop
    PROVE  LockInv'
<1>a. /\ pc \in [Loops -> Position]
      /\ Requester \notin Loops \cup {None}
      /\ None \notin Loops
  BY Constants DEF TypeOK, LoopType, Constants
<1> USE <1>a DEF LockInv
<1>1. ASSUME NEW cmd \in Requests, CommandOnLiveLink(cmd)
      PROVE  LockInv'
  BY <1>1
     DEF CommandOnLiveLink, lockVars, loopVars
<1>2. ASSUME NEW cmd \in Requests, RequestConnect(cmd)
      PROVE  LockInv'
  BY <1>2
     DEF RequestConnect, beginConnect, Accept, Free, lockVars, loopVars
<1>3. CASE PairOnLiveLink
  BY <1>3
     DEF PairOnLiveLink, lockVars, loopVars
<1>4. CASE NavigateOnLiveLink
  BY <1>4
     DEF NavigateOnLiveLink, lockVars, loopVars
<1>5. CASE RequestGattFails
  BY <1>5
     DEF RequestGattFails, Unlock, lockVars, loopVars
<1>6. ASSUME NEW l \in Links, RequestGattUp(l)
      PROVE  LockInv'
  BY <1>6
     DEF RequestGattUp, linkEstablished, lockVars, loopVars
<1>7. CASE RequestDropsLink
  BY <1>7
     DEF RequestDropsLink, Unlock, lockVars, loopVars
<1>8. CASE RequestSessionUp
  BY <1>8
     DEF RequestSessionUp, Unlock, lockVars, loopVars
<1>9. CASE NavigateExecute
  BY <1>9
     DEF NavigateExecute, lockVars, loopVars
<1>10. CASE ForcedKeygen
  BY <1>10
     DEF ForcedKeygen, lockVars, loopVars
<1>11. ASSUME NEW g \in Loops, PresenceStart(g)
       PROVE  LockInv'
  BY <1>11
     DEF PresenceStart, Goto, Accept, Free, lockVars, loopVars
<1>12. CASE PresenceStop
  BY <1>12
     DEF PresenceStop, lockVars, loopVars
<1>13. CASE Shutdown
  BY <1>13
     DEF Shutdown, lockVars, loopVars
<1> QED
  BY <1>1, <1>2, <1>3, <1>4, <1>5, <1>6, <1>7, <1>8, <1>9, <1>10, <1>11,
     <1>12, <1>13
     DEF RequestLoop

LEMMA PresenceLoopLock ==
    ASSUME TypeOK, LockInv, NEW g \in Loops, Loop(g)
    PROVE  LockInv'
<1>a. pc \in [Loops -> Position] /\ None \notin Loops
  BY Constants DEF TypeOK, LoopType, Constants
<1> USE <1>a DEF LockInv
<1>1. CASE LoopOpensBus(g)
  BY <1>1
     DEF LoopOpensBus, Goto, lockVars, loopVars
<1>2. CASE LoopOpensWatcher(g)
  BY <1>2
     DEF LoopOpensWatcher, Goto, lockVars, loopVars
<1>3. CASE WatchStarts(g)
  BY <1>3
     DEF WatchStarts, Goto, Free, Free, lockVars, loopVars
<1>4. CASE WatchStarted(g)
  BY <1>4
     DEF WatchStarted, Goto, Unlock, lockVars, loopVars
<1>5. CASE WatchFails(g)
  BY <1>5
     DEF WatchFails, Goto, lockVars, loopVars
<1>6. CASE LoopRuns(g)
  BY <1>6
     DEF LoopRuns, Goto, lockVars, loopVars
<1>7. CASE LoopTestsContext(g)
  BY <1>7
     DEF LoopTestsContext, Goto, lockVars, loopVars
<1>8. CASE LoopSnapshots(g)
  BY <1>8
     DEF LoopSnapshots, Goto, lockVars, loopVars
<1>9. CASE LoopFindsDropped(g)
  BY <1>9
     DEF LoopFindsDropped, Goto, lockVars, loopVars
<1>10. CASE HoldPauses(g)
  BY <1>10
     DEF HoldPauses, Goto, lockVars, loopVars
<1>11. CASE HeldLinkDropped(g)
  BY <1>11
     DEF HeldLinkDropped, Goto, lockVars, loopVars
<1>12. CASE HeldTick(g)
  BY <1>12
     DEF HeldTick, Goto, lockVars, loopVars
<1>13. CASE HoldPrimes(g)
  BY <1>13
     DEF HoldPrimes, Goto, lockVars, loopVars
<1>14. CASE LoopLooks(g)
  BY <1>14
     DEF LoopLooks, Goto, lockVars, loopVars
<1>15. CASE WaitDiscovers(g)
  BY <1>15
     DEF WaitDiscovers, Goto, lockVars, loopVars
<1>16. CASE WaitReturns(g)
  BY <1>16
     DEF WaitReturns, Goto, lockVars, loopVars
<1>17. CASE WaitFails(g)
  BY <1>17
     DEF WaitFails, Goto, lockVars, loopVars
<1>18. CASE LoopSteps(g)
  BY <1>18
     DEF LoopSteps, Goto, lockVars, loopVars
<1>19. CASE LoopReadsBackoff(g)
  BY <1>19
     DEF LoopReadsBackoff, Goto, lockVars, loopVars
<1>20. CASE LoopAdoptsLink(g)
  BY <1>20
     DEF LoopAdoptsLink, Goto, sessionReady, connectFailed, lockVars,
         loopVars
<1>21. CASE LoopRefused(g)
  BY <1>21
     DEF LoopRefused, Goto, connectFailed, lockVars, loopVars
<1>22. CASE LoopConnects(g)
  BY <1>22
     DEF LoopConnects, Goto, beginConnect, Free, Free, lockVars, loopVars
<1>23. CASE LoopGattFails(g)
  BY <1>23
     DEF LoopGattFails, Goto, connectFailed, Unlock, lockVars, loopVars
<1>24. ASSUME NEW l \in Links, LoopGattUp(g, l)
       PROVE  LockInv'
  BY <1>24
     DEF LoopGattUp, Goto, linkEstablished, lockVars, loopVars
<1>25. CASE LoopSessionFails(g)
  BY <1>25
     DEF LoopSessionFails, Goto, connectFailed, Unlock, lockVars, loopVars
<1>26. CASE LoopSessionUp(g)
  BY <1>26
     DEF LoopSessionUp, Goto, sessionReady, connectFailed, Unlock, lockVars,
         loopVars
<1>27. CASE LoopReports(g)
  BY <1>27
     DEF LoopReports, Goto, lockVars, loopVars
<1>28. CASE LoopDeparts(g)
  BY <1>28
     DEF LoopDeparts, Goto, lockVars, loopVars
<1>29. CASE LoopPaused(g)
  BY <1>29
     DEF LoopPaused, Goto, lockVars, loopVars
<1>30. CASE LoopLeaves(g)
  BY <1>30
     DEF LoopLeaves, Goto, lockVars, loopVars
<1>31. CASE LoopExits(g)
  BY <1>31
     DEF LoopExits, Goto, lockVars, loopVars
<1> QED
  BY <1>1, <1>2, <1>3, <1>4, <1>5, <1>6, <1>7, <1>8, <1>9, <1>10, <1>11,
     <1>12, <1>13, <1>14, <1>15, <1>16, <1>17, <1>18, <1>19, <1>20, <1>21,
     <1>22, <1>23, <1>24, <1>25, <1>26, <1>27, <1>28, <1>29, <1>30, <1>31
     DEF Loop

LEMMA OthersLock ==
    ASSUME LockInv, UNCHANGED <<mu, phase, pc>>
    PROVE  LockInv'
BY DEF LockInv

\* The critical sections that span several steps exclude each other.
THEOREM LockCorrect == Spec => []LockInv
<1>1. Init => LockInv
  BY Constants DEF Init, LockInv, Constants
<1>2. TypeOK /\ LockInv /\ [Next]_vars => LockInv'
  <2> SUFFICES ASSUME TypeOK, LockInv, [Next]_vars
               PROVE  LockInv'
    OBVIOUS
  <2>1. CASE UNCHANGED vars
    BY <2>1, OthersLock DEF vars, lockVars, loopVars
  <2>2. CASE RequestLoop
    BY <2>2, RequestLoopLock
  <2>3. CASE IdleTeardown
    BY <2>3, OthersLock DEF IdleTeardown, lockVars, loopVars
  <2>4. ASSUME NEW l \in Links, Responder(l)
        PROVE  LockInv'
    BY <2>4, OthersLock
       DEF Responder, AuthTake, AuthReturns, AuthAnswered, AuthDropsSession,
           lockVars, loopVars
  <2>5. ASSUME NEW g \in Loops, Loop(g)
        PROVE  LockInv'
    BY <2>5, PresenceLoopLock
  <2>6. CASE Environment
    BY <2>6, OthersLock
       DEF Environment, Datagram, LinkDrops, ConnectionSettles, StatusAges,
           BeaconAges, BackoffExpires, FarTimeoutPasses, IdleTimerFires,
           lockVars, loopVars
  <2> QED
    BY <2>1, <2>2, <2>3, <2>4, <2>5, <2>6 DEF Next
<1> QED
  BY <1>1, <1>2, TypeCorrect, PTL DEF Spec

-----------------------------------------------------------------------------
(* Whose presence mode it is.                                              *)

\* OnePresenceLoop, strengthened by what the loops that were started and
\* cancelled so far have in common.
LoopInv ==
    /\ \A g \in Loops : pc[g] = "new" <=> g \notin started
    /\ \A g \in cancelled : g \in started /\ generation # g
    /\ OnePresenceLoop

LEMMA OthersMode ==
    ASSUME LoopInv, UNCHANGED <<modeVars, pc>>
    PROVE  LoopInv'
BY DEF LoopInv, OnePresenceLoop, Running, modeVars

LEMMA StopMode ==
    ASSUME LoopInv, TypeOK, stopPresenceLocked, UNCHANGED pc
    PROVE  LoopInv'
<1>1. presence \in Loops \cup {None} /\ None \notin Loops
        /\ cancelled \subseteq Loops
  BY Constants DEF TypeOK, ModeType, Constants
<1> QED
  BY <1>1 DEF LoopInv, OnePresenceLoop, Running, stopPresenceLocked

LEMMA RequestLoopMode ==
    ASSUME TypeOK, LoopInv, RequestLoop
    PROVE  LoopInv'
<1>a. /\ pc \in [Loops -> Position]
      /\ None \notin Loops
      /\ cancelled \subseteq Loops
  BY Constants DEF TypeOK, LoopType, ModeType, Constants
<1>1. ASSUME NEW cmd \in Requests, CommandOnLiveLink(cmd)
      PROVE  LoopInv'
  BY <1>1, OthersMode
     DEF CommandOnLiveLink, presenceVars, loopVars
<1>2. ASSUME NEW cmd \in Requests, RequestConnect(cmd)
      PROVE  LoopInv'
  BY <1>2, OthersMode
     DEF RequestConnect, presenceVars, loopVars
<1>3. CASE PairOnLiveLink
  BY <1>3, OthersMode
     DEF PairOnLiveLink, presenceVars, loopVars
<1>4. CASE NavigateOnLiveLink
  BY <1>4, OthersMode
     DEF NavigateOnLiveLink, presenceVars, loopVars
<1>5. CASE RequestGattFails
  BY <1>5, OthersMode
     DEF RequestGattFails, presenceVars, loopVars
<1>6. ASSUME NEW l \in Links, RequestGattUp(l)
      PROVE  LoopInv'
  BY <1>6, OthersMode
     DEF RequestGattUp, presenceVars, loopVars
<1>7. CASE RequestDropsLink
  BY <1>7, OthersMode
     DEF RequestDropsLink, presenceVars, loopVars
<1>8. CASE RequestSessionUp
  BY <1>8, OthersMode
     DEF RequestSessionUp, presenceVars, loopVars
<1>9. CASE NavigateExecute
  BY <1>9, OthersMode
     DEF NavigateExecute, presenceVars, loopVars
<1>10. CASE ForcedKeygen
  BY <1>10, StopMode
     DEF ForcedKeygen, loopVars
<1>11. ASSUME NEW g \in Loops, PresenceStart(g)
       PROVE  LoopInv'
  BY <1>11, <1>a
     DEF PresenceStart, Goto, LoopInv, OnePresenceLoop, Running
<1>12. CASE PresenceStop
  BY <1>12, StopMode
     DEF PresenceStop, loopVars
<1>13. CASE Shutdown
  BY <1>13, StopMode
     DEF Shutdown, loopVars
<1> QED
  BY <1>1, <1>2, <1>3, <1>4, <1>5, <1>6, <1>7, <1>8, <1>9, <1>10, <1>11,
     <1>12, <1>13
     DEF RequestLoop

LEMMA PresenceLoopMode ==
    ASSUME TypeOK, LockInv, LoopInv, NEW g \in Loops, Loop(g)
    PROVE  LoopInv'
<1>a. None \notin Loops /\ cancelled \subseteq Loops
  BY Constants DEF TypeOK, ModeType, Constants
<1>1. CASE LoopExits(g)
  <2>1. pc[g] = "exit" /\ pc'[g] \in {"stopped", "done"}
    BY <1>1 DEF LoopExits, Goto, TypeOK, LoopType
  <2>2. presence' = IF generation = g THEN None ELSE presence
    BY <1>1 DEF LoopExits, current
  <2> QED
    BY <1>a, <2>1, <2>2, LoopFootprint DEF LoopInv, OnePresenceLoop, Running
<1>2. CASE UNCHANGED presence /\ (Running(g) <=> Running(g)')
  BY <1>2, LoopFootprint DEF LoopInv, OnePresenceLoop, Running
<1> QED
  BY <1>1, <1>2, LoopFootprint

LEMMA ModeStep ==
    ASSUME TypeOK, LockInv, LoopInv, [Next]_vars
    PROVE  LoopInv'
<1>1. CASE UNCHANGED vars
  BY <1>1, OthersMode DEF vars, presenceVars, loopVars
<1>2. CASE RequestLoop
  BY <1>2, RequestLoopMode
<1>3. CASE IdleTeardown
  BY <1>3, OthersMode DEF IdleTeardown, presenceVars, loopVars
<1>4. ASSUME NEW l \in Links, Responder(l)
      PROVE  LoopInv'
  BY <1>4, OthersMode
     DEF Responder, AuthTake, AuthReturns, AuthAnswered, AuthDropsSession,
         presenceVars, loopVars
<1>5. ASSUME NEW g \in Loops, Loop(g)
      PROVE  LoopInv'
  BY <1>5, PresenceLoopMode
<1>6. CASE Environment
  BY <1>6, OthersMode
     DEF Environment, Datagram, LinkDrops, ConnectionSettles, StatusAges,
         BeaconAges, BackoffExpires, FarTimeoutPasses, IdleTimerFires,
         presenceVars, loopVars
<1> QED
  BY <1>1, <1>2, <1>3, <1>4, <1>5, <1>6 DEF Next

\* LoopInv holds throughout.
THEOREM LoopCorrect == Spec => []LoopInv
<1>1. Init => LoopInv
  BY Constants DEF Init, LoopInv, OnePresenceLoop, Running, Constants
<1> QED
  BY <1>1, ModeStep, TypeCorrect, LockCorrect, PTL DEF Spec

\* Presence mode is on exactly while the latest loop runs and nobody has
\* cancelled it, whatever cancelled loops that have not returned yet do: the
\* deferred cleanup of presenceLoop compares generations for this.
THEOREM PresenceModeHasItsLoop == Spec => []OnePresenceLoop
<1>1. LoopInv => OnePresenceLoop
  BY DEF LoopInv
<1> QED
  BY <1>1, LoopCorrect, PTL

\* A link is only cached together with its session and its auth tap, except
\* by the holder of mu that is still establishing them.  A pair request does
\* without a tap, and never releases mu with its link in place.
LinkInv ==
    /\ phase = "none" => tap = car /\ (car # None <=> sessions # {})
    /\ phase = "gatt" => car = None /\ tap = None /\ sessions = {}
    /\ phase = "handshake" =>
         /\ car # None /\ sessions = {}
         /\ tap = IF mu = Requester /\ request = "pair" THEN None ELSE car

-----------------------------------------------------------------------------
(* Which links there are.                                                  *)

LEMMA OthersLink ==
    ASSUME LinkInv, UNCHANGED <<lockVars, car, sessions, tap>>,
           phase = "none" \/ UNCHANGED request
    PROVE  LinkInv'
BY DEF LinkInv, lockVars

LEMMA CloseLink ==
    ASSUME closeLink, phase' = "none"
    PROVE  LinkInv'
BY DEF LinkInv, closeLink

\* Once a session is up, its link may be released to everybody.
LEMMA KeepLink ==
    ASSUME car # None, tap = car, UNCHANGED <<car, tap>>, sessions' # {},
           phase' = "none"
    PROVE  LinkInv'
BY DEF LinkInv

LEMMA EstablishLink ==
    ASSUME NEW l \in Links, NEW tapped, LinkInv, phase = "gatt",
           linkEstablished(l, tapped), UNCHANGED request,
           tapped = ~(mu = Requester /\ request = "pair")
    PROVE  LinkInv'
<1>1. car = None /\ tap = None /\ sessions = {} /\ l # None
  BY Constants DEF LinkInv, Constants
<1> QED
  BY <1>1 DEF LinkInv, linkEstablished, ensureAuthTapLocked

LEMMA SessionDomainsUp ==
    ASSUME NEW cmd
    PROVE  (IF sessionDomains(cmd) = {} THEN Domains
                                        ELSE sessionDomains(cmd)) # {}
BY DEF Domains

LEMMA RequestLoopLink ==
    ASSUME TypeOK, LockInv, LinkInv, RequestLoop
    PROVE  LinkInv'
<1>a. Free => phase = "none"
  BY DEF Free, LockInv
<1>b. phase = "none" /\ car # None => tap = car /\ sessions # {}
  BY DEF LinkInv
<1> USE <1>a
<1>1. ASSUME NEW cmd \in Requests, CommandOnLiveLink(cmd)
      PROVE  LinkInv'
  BY <1>1, <1>b, KeepLink
     DEF CommandOnLiveLink, Accept, ensureAuthTapLocked, lockVars
<1>2. ASSUME NEW cmd \in Requests, RequestConnect(cmd)
      PROVE  LinkInv'
  BY <1>2
     DEF RequestConnect, beginConnect, Accept, linkVars, LinkInv
<1>3. CASE PairOnLiveLink
  BY <1>3, CloseLink
     DEF PairOnLiveLink, Accept, teardownLocked, lockVars
<1>4. CASE NavigateOnLiveLink
  BY <1>4, <1>b, KeepLink
     DEF NavigateOnLiveLink, Accept, ensureAuthTapLocked, lockVars
<1>5. CASE RequestGattFails
  BY <1>5
     DEF RequestGattFails, Unlock, sessionVars, linkVars, LinkInv
<1>6. ASSUME NEW l \in Links, RequestGattUp(l)
      PROVE  LinkInv'
  BY <1>6, EstablishLink
     DEF RequestGattUp
<1>7. CASE RequestDropsLink
  BY <1>7, CloseLink
     DEF RequestDropsLink, Unlock, teardownLocked
<1>8. CASE RequestSessionUp
  BY <1>8, SessionDomainsUp, KeepLink
     DEF RequestSessionUp, Unlock, LinkInv
<1>9. CASE NavigateExecute
  BY <1>9, OthersLink
     DEF NavigateExecute, linkVars, lockVars
<1>10. CASE ForcedKeygen
  BY <1>10, CloseLink
     DEF ForcedKeygen, Accept, teardownLocked, lockVars
<1>11. ASSUME NEW g \in Loops, PresenceStart(g)
       PROVE  LinkInv'
  BY <1>11, OthersLink
     DEF PresenceStart, Accept, sessionVars, linkVars, lockVars
<1>12. CASE PresenceStop
  BY <1>12, CloseLink
     DEF PresenceStop, Accept, teardownLocked, lockVars
<1>13. CASE Shutdown
  BY <1>13, CloseLink
     DEF Shutdown, teardownLocked, lockVars
<1> QED
  BY <1>1, <1>2, <1>3, <1>4, <1>5, <1>6, <1>7, <1>8, <1>9, <1>10, <1>11,
     <1>12, <1>13
     DEF RequestLoop

LEMMA PresenceLoopLink ==
    ASSUME TypeOK, LockInv, LinkInv, NEW g \in Loops, Loop(g)
    PROVE  LinkInv'
<1>a. /\ Free => phase = "none"
      /\ g # Requester
  BY Constants DEF Free, LockInv, Constants
<1>b. phase = "none" /\ car # None => tap = car /\ sessions # {}
  BY DEF LinkInv
<1> USE <1>a
<1>1. CASE LoopOpensBus(g)
  BY <1>1, OthersLink
     DEF LoopOpensBus, sessionVars, linkVars, lockVars
<1>2. CASE LoopOpensWatcher(g)
  BY <1>2, OthersLink
     DEF LoopOpensWatcher, sessionVars, linkVars, lockVars
<1>3. CASE WatchStarts(g)
  BY <1>3
     DEF WatchStarts, sessionVars, linkVars, LinkInv
<1>4. CASE WatchStarted(g)
  BY <1>4
     DEF WatchStarted, Unlock, sessionVars, linkVars, LockInv, LinkInv
<1>5. CASE WatchFails(g)
  BY <1>5, OthersLink
     DEF WatchFails, sessionVars, linkVars, lockVars
<1>6. CASE LoopRuns(g)
  BY <1>6, OthersLink
     DEF LoopRuns, sessionVars, linkVars, lockVars
<1>7. CASE LoopTestsContext(g)
  BY <1>7, OthersLink
     DEF LoopTestsContext, sessionVars, linkVars, lockVars
<1>8. CASE LoopSnapshots(g)
  BY <1>8, OthersLink
     DEF LoopSnapshots, sessionVars, linkVars, lockVars
<1>9. CASE LoopFindsDropped(g)
  BY <1>9, CloseLink
     DEF LoopFindsDropped, teardownLocked, lockVars
<1>10. CASE HoldPauses(g)
  BY <1>10, OthersLink
     DEF HoldPauses, sessionVars, linkVars, lockVars
<1>11. CASE HeldLinkDropped(g)
  BY <1>11, CloseLink, OthersLink
     DEF HeldLinkDropped, teardownLocked, lockVars, linkVars
<1>12. CASE HeldTick(g)
  BY <1>12, OthersLink
     DEF HeldTick, sessionVars, linkVars, lockVars
<1>13. CASE HoldPrimes(g)
  BY <1>13, CloseLink, OthersLink
     DEF HoldPrimes, primeDropped, lockVars, linkVars
<1>14. CASE LoopLooks(g)
  BY <1>14, OthersLink
     DEF LoopLooks, sessionVars, linkVars, lockVars
<1>15. CASE WaitDiscovers(g)
  BY <1>15, OthersLink
     DEF WaitDiscovers, sessionVars, linkVars, lockVars
<1>16. CASE WaitReturns(g)
  BY <1>16, OthersLink
     DEF WaitReturns, sessionVars, linkVars, lockVars
<1>17. CASE WaitFails(g)
  BY <1>17, OthersLink
     DEF WaitFails, sessionVars, linkVars, lockVars
<1>18. CASE LoopSteps(g)
  BY <1>18, OthersLink
     DEF LoopSteps, sessionVars, linkVars, lockVars
<1>19. CASE LoopReadsBackoff(g)
  BY <1>19, OthersLink
     DEF LoopReadsBackoff, sessionVars, linkVars, lockVars
<1>20. CASE LoopAdoptsLink(g)
  BY <1>20, <1>b, CloseLink, KeepLink, OthersLink
     DEF LoopAdoptsLink, sessionReady, primeDropped, lockVars, linkVars
<1>21. CASE LoopRefused(g)
  BY <1>21, OthersLink
     DEF LoopRefused, sessionVars, linkVars, lockVars
<1>22. CASE LoopConnects(g)
  BY <1>22
     DEF LoopConnects, beginConnect, linkVars, LinkInv
<1>23. CASE LoopGattFails(g)
  BY <1>23
     DEF LoopGattFails, Unlock, sessionVars, linkVars, LinkInv
<1>24. ASSUME NEW l \in Links, LoopGattUp(g, l)
       PROVE  LinkInv'
  BY <1>24, EstablishLink
     DEF LoopGattUp
<1>25. CASE LoopSessionFails(g)
  BY <1>25, CloseLink
     DEF LoopSessionFails, teardownLocked, Unlock
<1>26. CASE LoopSessionUp(g)
  BY <1>26, CloseLink, KeepLink
     DEF LoopSessionUp, sessionReady, primeDropped, Unlock, LinkInv
<1>27. CASE LoopReports(g)
  BY <1>27, OthersLink
     DEF LoopReports, sessionVars, linkVars, lockVars
<1>28. CASE LoopDeparts(g)
  BY <1>28, CloseLink
     DEF LoopDeparts, teardownLocked, lockVars
<1>29. CASE LoopPaused(g)
  BY <1>29, OthersLink
     DEF LoopPaused, sessionVars, linkVars, lockVars
<1>30. CASE LoopLeaves(g)
  BY <1>30, OthersLink
     DEF LoopLeaves, sessionVars, linkVars, lockVars
<1>31. CASE LoopExits(g)
  BY <1>31, OthersLink
     DEF LoopExits, sessionVars, linkVars, lockVars
<1> QED
  BY <1>1, <1>2, <1>3, <1>4, <1>5, <1>6, <1>7, <1>8, <1>9, <1>10, <1>11,
     <1>12, <1>13, <1>14, <1>15, <1>16, <1>17, <1>18, <1>19, <1>20, <1>21,
     <1>22, <1>23, <1>24, <1>25, <1>26, <1>27, <1>28, <1>29, <1>30, <1>31
     DEF Loop

LEMMA LinkStep ==
    ASSUME TypeOK, LockInv, LinkInv, [Next]_vars
    PROVE  LinkInv'
<1>a. Free => phase = "none"
  BY DEF Free, LockInv
<1>1. CASE UNCHANGED vars
  BY <1>1, OthersLink DEF vars, sessionVars, linkVars
<1>2. CASE RequestLoop
  BY <1>2, RequestLoopLink
<1>3. CASE IdleTeardown
  BY <1>a, <1>3, CloseLink DEF IdleTeardown, teardownLocked, lockVars
<1>4. ASSUME NEW l \in Links, Responder(l)
      PROVE  LinkInv'
  <2>1. CASE AuthDropsSession(l)
    BY <1>a, <2>1, CloseLink
       DEF AuthDropsSession, authAnswering, teardownLocked, lockVars
  <2> QED
    BY <1>4, <2>1, OthersLink
       DEF Responder, AuthTake, AuthReturns, AuthAnswered, linkVars
<1>5. ASSUME NEW g \in Loops, Loop(g)
      PROVE  LinkInv'
  BY <1>5, PresenceLoopLink
<1>6. CASE Environment
  BY <1>6, OthersLink
     DEF Environment, Datagram, LinkDrops, ConnectionSettles, StatusAges,
         BeaconAges, BackoffExpires, FarTimeoutPasses, IdleTimerFires,
         sessionVars, linkVars
<1> QED
  BY <1>1, <1>2, <1>3, <1>4, <1>5, <1>6 DEF Next

\* LinkInv holds throughout.
THEOREM LinkCorrect == Spec => []LinkInv
<1>1. Init => LinkInv
  BY DEF Init, LinkInv
<1> QED
  BY <1>1, LinkStep, TypeCorrect, LockCorrect, PTL DEF Spec

\* Whoever locks mu finds either no link, or a link with an authenticated
\* session and a tap for AuthenticationRequests: ensureConnectedLocked may
\* reuse a cached link without asking how it came about.
THEOREM CachedLinksAreAuthenticated == Spec => []CachedLinkIsAuthenticated
<1>1. LockInv /\ LinkInv => CachedLinkIsAuthenticated
  BY DEF LockInv, LinkInv, CachedLinkIsAuthenticated, Free
<1> QED
  BY <1>1, LockCorrect, LinkCorrect, PTL

-----------------------------------------------------------------------------
(* Who opens links and answers on them.                                    *)

\* What a step may do to the set of links and to their responders.
Quiet == UNCHANGED <<links, responder>> /\ car' \in {car, None}
Opens(l) == RequestGattUp(l) \/ \E g \in Loops : LoopGattUp(g, l)
Taps == car # None /\ ensureAuthTapLocked(car) /\ UNCHANGED <<links, car>>

LEMMA LoopOpens ==
    ASSUME NEW g \in Loops, Loop(g)
    PROVE  Quiet \/ \E l \in Links : LoopGattUp(g, l)
<1> USE DEF Quiet, sessionVars, linkVars, authVars
<1>1. ASSUME \/ LoopOpensBus(g) \/ LoopOpensWatcher(g) \/ WatchStarts(g)
             \/ WatchStarted(g) \/ WatchFails(g) \/ LoopRuns(g)
             \/ LoopTestsContext(g) \/ LoopSnapshots(g) \/ HoldPauses(g)
             \/ HeldTick(g) \/ LoopLooks(g) \/ WaitDiscovers(g)
             \/ WaitReturns(g) \/ WaitFails(g) \/ LoopSteps(g)
      PROVE  Quiet
  BY <1>1
     DEF LoopOpensBus, LoopOpensWatcher, WatchStarts, WatchStarted,
         WatchFails, LoopRuns, LoopTestsContext, LoopSnapshots, HoldPauses,
         HeldTick, LoopLooks, WaitDiscovers, WaitReturns, WaitFails,
         LoopSteps
<1>2. ASSUME \/ LoopReadsBackoff(g) \/ LoopRefused(g) \/ LoopConnects(g)
             \/ LoopGattFails(g) \/ LoopReports(g) \/ LoopPaused(g)
             \/ LoopLeaves(g) \/ LoopExits(g)
      PROVE  Quiet
  BY <1>2
     DEF LoopReadsBackoff, LoopRefused, LoopConnects, LoopGattFails,
         LoopReports, LoopPaused, LoopLeaves, LoopExits
<1>3. ASSUME LoopFindsDropped(g) \/ HeldLinkDropped(g)
               \/ LoopSessionFails(g) \/ LoopDeparts(g)
      PROVE  Quiet
  BY <1>3
     DEF LoopFindsDropped, HeldLinkDropped, LoopSessionFails, LoopDeparts,
         teardownLocked, closeLink
<1>4. ASSUME HoldPrimes(g)
      PROVE  Quiet
  BY <1>4 DEF HoldPrimes, primeDropped, closeLink
<1>5. ASSUME LoopAdoptsLink(g) \/ LoopSessionUp(g)
      PROVE  Quiet
  BY <1>5
     DEF LoopAdoptsLink, LoopSessionUp, sessionReady, primeDropped, closeLink
<1> QED
  BY <1>1, <1>2, <1>3, <1>4, <1>5 DEF Loop

LEMMA RequestLoopOpens ==
    ASSUME RequestLoop
    PROVE  Quiet \/ Taps \/ \E l \in Links : RequestGattUp(l)
<1> USE DEF Quiet, Taps, sessionVars, linkVars, authVars
<1>1. ASSUME NEW cmd \in Requests, CommandOnLiveLink(cmd)
      PROVE  Taps
  BY <1>1 DEF CommandOnLiveLink
<1>2. ASSUME NavigateOnLiveLink
      PROVE  Taps
  BY <1>2 DEF NavigateOnLiveLink
<1>3. ASSUME NEW cmd \in Requests, RequestConnect(cmd)
      PROVE  Quiet
  BY <1>3 DEF RequestConnect
<1>4. ASSUME NEW g \in Loops, PresenceStart(g)
      PROVE  Quiet
  BY <1>4 DEF PresenceStart
<1>5. ASSUME RequestGattFails \/ RequestSessionUp \/ NavigateExecute
      PROVE  Quiet
  BY <1>5 DEF RequestGattFails, RequestSessionUp, NavigateExecute
<1>6. ASSUME \/ PairOnLiveLink \/ RequestDropsLink \/ ForcedKeygen
             \/ PresenceStop \/ Shutdown
      PROVE  Quiet
  BY <1>6
     DEF PairOnLiveLink, RequestDropsLink, ForcedKeygen, PresenceStop,
         Shutdown, teardownLocked, closeLink
<1> QED
  BY <1>1, <1>2, <1>3, <1>4, <1>5, <1>6 DEF RequestLoop

LEMMA StepOpens ==
    ASSUME [Next]_vars
    PROVE  \/ Quiet \/ Taps
           \/ \E l \in Links : Responder(l) \/ Opens(l)
<1>1. CASE UNCHANGED vars
  BY <1>1 DEF Quiet, vars, sessionVars, linkVars, authVars
<1>2. CASE RequestLoop
  BY <1>2, RequestLoopOpens DEF Opens
<1>3. CASE IdleTeardown
  BY <1>3 DEF Quiet, IdleTeardown, teardownLocked, closeLink, authVars
<1>4. ASSUME NEW g \in Loops, Loop(g)
      PROVE  Quiet \/ \E l \in Links : Opens(l)
  BY <1>4, LoopOpens DEF Opens
<1>5. CASE Environment
  BY <1>5
     DEF Quiet, Environment, Datagram, LinkDrops, ConnectionSettles,
         StatusAges, BeaconAges, BackoffExpires, FarTimeoutPasses,
         IdleTimerFires, sessionVars, linkVars, authVars
<1> QED
  BY <1>1, <1>2, <1>3, <1>4, <1>5 DEF Next

\* A link that was never opened has no responder and is not cached.
ResponderInv ==
    /\ car \in links \cup {None}
    /\ \A l \in Links : l \notin links => responder[l] = "none"

LEMMA ResponderStep ==
    ASSUME TypeOK, ResponderInv, [Next]_vars
    PROVE  ResponderInv'
<1>a. responder \in [Links -> {"none", "listen", "hold", "done"}]
  BY DEF TypeOK, AuthType
<1>1. CASE Quiet
  BY <1>1 DEF Quiet, ResponderInv
<1>2. CASE Taps
  BY <1>a, <1>2 DEF Taps, ensureAuthTapLocked, ResponderInv
<1>3. ASSUME NEW l \in Links, Responder(l)
      PROVE  ResponderInv'
  BY <1>a, <1>3
     DEF Responder, AuthTake, AuthReturns, AuthAnswered, AuthDropsSession,
         authAnswering, teardownLocked, closeLink, linkVars, ResponderInv
<1>4. ASSUME NEW l \in Links, Opens(l)
      PROVE  ResponderInv'
  BY <1>a, <1>4
     DEF Opens, RequestGattUp, LoopGattUp, linkEstablished,
         ensureAuthTapLocked, ResponderInv
<1> QED
  BY <1>1, <1>2, <1>3, <1>4, StepOpens

THEOREM RespondersAreOfLinks == Spec => []ResponderInv
<1>1. Init => ResponderInv
  BY DEF Init, ResponderInv
<1> QED
  BY <1>1, ResponderStep, TypeCorrect, PTL DEF Spec

\* However long a responder waited for mu, it answers on the link its request
\* came in on (authResponderLoop compares the inbox once it has mu).
THEOREM AnswersStayOnTheirLink == Spec => AnswersOnOwnLink
<1>1. ASSUME TypeOK, LockInv, LinkInv, ResponderInv, [Next]_vars,
             NEW l \in Links, responder[l] = "hold", responder'[l] = "listen"
      PROVE  car = l
  <2>a. responder \in [Links -> {"none", "listen", "hold", "done"}]
    BY <1>1 DEF TypeOK, AuthType
  <2>1. CASE Quiet
    BY <1>1, <2>1 DEF Quiet
  <2>2. CASE Taps
    BY <1>1, <2>a, <2>2 DEF Taps, ensureAuthTapLocked
  <2>3. ASSUME NEW k \in Links, Responder(k)
        PROVE  car = l
    <3>1. k = l /\ authAnswering(l)
      BY <1>1, <2>a, <2>3
         DEF Responder, AuthTake, AuthReturns, AuthAnswered,
             AuthDropsSession
    <3> QED
      BY <1>1, <3>1 DEF authAnswering, Free, LockInv, LinkInv
  <2>4. ASSUME NEW k \in Links, Opens(k)
        PROVE  car = l
    BY <1>1, <2>a, <2>4
       DEF Opens, RequestGattUp, LoopGattUp, linkEstablished,
           ensureAuthTapLocked, ResponderInv
  <2> QED
    BY <1>1, <2>1, <2>2, <2>3, <2>4, StepOpens
<1>2. TypeOK /\ LockInv /\ LinkInv /\ ResponderInv /\ [Next]_vars =>
        [\A l \in Links :
           responder[l] = "hold" /\ responder'[l] = "listen" => car = l]_vars
  BY <1>1
<1> QED
  BY <1>2, TypeCorrect, LockCorrect, LinkCorrect, RespondersAreOfLinks, PTL
     DEF Spec, AnswersOnOwnLink

\* Only the request being served and the loop of the current presence mode
\* open links: presence-stop is final for the loop it cancels, which may be
\* inside bluez.Connect with mu locked until it notices.
THEOREM OnlyTheCurrentLoopConnects == Spec => CancelledLoopNeverConnects
<1>1. ASSUME LockInv, LoopInv, [Next]_vars, links' # links
      PROVE  mu \in {Requester, presence}
  <2>1. CASE Quiet \/ Taps
    BY <1>1, <2>1 DEF Quiet, Taps
  <2>2. ASSUME NEW l \in Links, Responder(l)
        PROVE  mu \in {Requester, presence}
    BY <1>1, <2>2
       DEF Responder, AuthTake, AuthReturns, AuthAnswered, AuthDropsSession
  <2>3. ASSUME NEW l \in Links, Opens(l)
        PROVE  mu \in {Requester, presence}
    <3>1. CASE RequestGattUp(l)
      BY <3>1 DEF RequestGattUp
    <3>2. ASSUME NEW g \in Loops, LoopGattUp(g, l)
          PROVE  mu = presence
      <4>1. mu = g /\ phase = "gatt" /\ g \notin cancelled
        BY <3>2 DEF LoopGattUp, ctxErr
      <4>2. Running(g)
        BY <1>1, <4>1 DEF LockInv, Running
      <4> QED
        BY <1>1, <4>1, <4>2 DEF LoopInv, OnePresenceLoop
    <3> QED
      BY <2>3, <3>1, <3>2 DEF Opens
  <2> QED
    BY <1>1, <2>1, <2>2, <2>3, StepOpens
<1>2. LockInv /\ LoopInv /\ [Next]_vars =>
        [links' # links => mu \in {Requester, presence}]_vars
  BY <1>1
<1> QED
  BY <1>2, LockCorrect, LoopCorrect, PTL DEF Spec, CancelledLoopNeverConnects

-----------------------------------------------------------------------------
(* Steps that are neither of a loop nor of the request loop.               *)

Bystander ==
    \/ UNCHANGED vars
    \/ IdleTeardown
    \/ \E l \in Links : Responder(l)
    \/ Environment

\* They may close the link and let time pass, but start nothing.
LEMMA BystanderStep ==
    ASSUME Bystander
    PROVE  /\ UNCHANGED <<mu, phase, request, bus, presence, generation>>
           /\ UNCHANGED <<cancelled, started, watcher, paused, pc>>
           /\ UNCHANGED discovering
           /\ beacon' \in {beacon, None}
           /\ \/ UNCHANGED <<car, insideEmitted, idle, fired>>
                   /\ (settled => settled')
              \/ /\ UNCHANGED <<car, insideEmitted, settled>>
                 /\ IdleTimerFires
              \/ closeLink
<1> USE DEF lockVars, sessionVars, linkVars, visitVars, presenceVars, modeVars,
            scanVars, loopVars
<1>1. CASE UNCHANGED vars
  BY <1>1 DEF vars
<1>2. CASE IdleTeardown
  BY <1>2 DEF IdleTeardown, teardownLocked
<1>3. ASSUME NEW l \in Links, AuthTake(l) \/ AuthReturns(l) \/ AuthAnswered(l)
      PROVE  /\ UNCHANGED <<lockVars, request, bus, car, visitVars, idle>>
             /\ UNCHANGED <<fired, presenceVars, pc>>
  BY <1>3 DEF AuthTake, AuthReturns, AuthAnswered
<1>4. ASSUME NEW l \in Links, AuthDropsSession(l)
      PROVE  /\ UNCHANGED <<lockVars, request, bus, presenceVars, pc>>
             /\ closeLink
  BY <1>4 DEF AuthDropsSession, teardownLocked
<1>5. ASSUME NEW l \in Links, Datagram(l)
      PROVE  /\ UNCHANGED <<lockVars, request, bus, car, visitVars, idle>>
             /\ UNCHANGED <<fired, presenceVars, pc>>
  BY <1>5 DEF Datagram
<1>6. CASE LinkDrops \/ ConnectionSettles \/ StatusAges
  BY <1>6 DEF LinkDrops, ConnectionSettles, StatusAges
<1>7. CASE BeaconAges \/ BackoffExpires
  BY <1>7 DEF BeaconAges, BackoffExpires
<1>8. ASSUME NEW g \in Loops, FarTimeoutPasses(g)
      PROVE  UNCHANGED <<lockVars, request, sessionVars, presenceVars, pc>>
  BY <1>8 DEF FarTimeoutPasses
<1>9. CASE IdleTimerFires
  BY <1>9 DEF IdleTimerFires
<1> QED
  BY <1>1, <1>2, <1>3, <1>4, <1>5, <1>6, <1>7, <1>8, <1>9
     DEF Bystander, Responder, Environment

LEMMA WhoSteps ==
    ASSUME [Next]_vars
    PROVE  RequestLoop \/ (\E g \in Loops : Loop(g)) \/ Bystander
BY DEF Next, Bystander

\* The request loop only moves a loop that it starts, and never scans.
LEMMA RequestLoopScans ==
    ASSUME RequestLoop
    PROVE  /\ UNCHANGED watcher
           /\ discovering' \in {FALSE, discovering}
           /\ \/ UNCHANGED pc
              \/ \E g \in Loops : PresenceStart(g)
<1> USE DEF presenceVars, scanVars, loopVars
<1>1. ASSUME NEW cmd \in Requests, CommandOnLiveLink(cmd) \/ RequestConnect(cmd)
      PROVE  UNCHANGED <<pc, watcher>> /\ discovering' \in {FALSE, discovering}
  BY <1>1 DEF CommandOnLiveLink, RequestConnect, beginConnect, pauseWatcher
<1>2. ASSUME \/ PairOnLiveLink \/ NavigateOnLiveLink \/ RequestGattFails
             \/ (\E l \in Links : RequestGattUp(l)) \/ RequestDropsLink
             \/ RequestSessionUp \/ NavigateExecute
      PROVE  UNCHANGED <<pc, watcher, discovering>>
  BY <1>2
     DEF PairOnLiveLink, NavigateOnLiveLink, RequestGattFails, RequestGattUp,
         RequestDropsLink, RequestSessionUp, NavigateExecute
<1>3. ASSUME ForcedKeygen \/ PresenceStop \/ Shutdown
      PROVE  UNCHANGED <<pc, watcher, discovering>>
  BY <1>3 DEF ForcedKeygen, PresenceStop, Shutdown
<1>4. ASSUME NEW g \in Loops, PresenceStart(g)
      PROVE  UNCHANGED <<watcher, discovering>>
  BY <1>4 DEF PresenceStart
<1> QED
  BY <1>1, <1>2, <1>3, <1>4 DEF RequestLoop

-----------------------------------------------------------------------------
(* Who scans.                                                              *)

\* A loop that has asked BlueZ for a watcher and not stopped it yet.
Scanning(g) ==
    pc[g] \notin {"new", "init", "watch", "opening", "exit", "stopped", "done"}

\* ScannerNeedsLoop, without the loops that are about to open a watcher: one
\* of them may fail to, while the adapter still scans for nobody.
ScanInv == discovering => \E g \in Loops : Scanning(g)

\* A loop that stops its watcher stops the discovery with it.
LEMMA LoopScans ==
    ASSUME TypeOK, LockInv, NEW g \in Loops, Loop(g), discovering'
    PROVE  Scanning(g)' \/ (discovering /\ ~Scanning(g))
<1> DEFINE Kept == Scanning(g)' \/ (discovering /\ ~Scanning(g))
<1>a. pc \in [Loops -> Position]
  BY DEF TypeOK, LoopType
<1> USE <1>a DEF Scanning, Goto, presenceVars, scanVars, loopVars
<1>1. ASSUME \/ LoopOpensBus(g) \/ LoopOpensWatcher(g) \/ WatchStarts(g)
             \/ WatchFails(g) \/ LoopTestsContext(g) \/ LoopReports(g)
             \/ LoopExits(g)
      PROVE  Kept
  BY <1>1
     DEF LoopOpensBus, LoopOpensWatcher, WatchStarts, WatchFails,
         LoopTestsContext, LoopReports, LoopExits
<1>2. ASSUME \/ WatchStarted(g) \/ LoopRuns(g) \/ LoopSnapshots(g)
             \/ LoopFindsDropped(g) \/ HoldPauses(g) \/ HeldLinkDropped(g)
             \/ HeldTick(g) \/ HoldPrimes(g) \/ LoopLooks(g)
      PROVE  Kept
  BY <1>2
     DEF WatchStarted, LoopRuns, LoopSnapshots, LoopFindsDropped, HoldPauses,
         HeldLinkDropped, HeldTick, HoldPrimes, LoopLooks
<1>3. ASSUME \/ WaitDiscovers(g) \/ WaitReturns(g) \/ WaitFails(g)
             \/ LoopSteps(g) \/ LoopReadsBackoff(g) \/ LoopDeparts(g)
             \/ LoopPaused(g)
      PROVE  Kept
  BY <1>3
     DEF WaitDiscovers, WaitReturns, WaitFails, LoopSteps, LoopReadsBackoff,
         LoopDeparts, LoopPaused
<1>4. ASSUME \/ LoopAdoptsLink(g) \/ LoopRefused(g) \/ LoopConnects(g)
             \/ LoopGattFails(g) \/ (\E l \in Links : LoopGattUp(g, l))
             \/ LoopSessionFails(g) \/ LoopSessionUp(g)
      PROVE  Kept
  BY <1>4
     DEF LoopAdoptsLink, LoopRefused, LoopConnects, LoopGattFails, LoopGattUp,
         LoopSessionFails, LoopSessionUp, sessionReady, connectFailed, LockInv
<1>5. CASE LoopLeaves(g)
  BY <1>5 DEF LoopLeaves, stopWatcher
<1> QED
  BY <1>1, <1>2, <1>3, <1>4, <1>5 DEF Loop

LEMMA ScanStep ==
    ASSUME TypeOK, LockInv, LoopInv, ScanInv, [Next]_vars
    PROVE  ScanInv'
<1>1. CASE RequestLoop
  <2>1. \A g \in Loops : PresenceStart(g) =>
          \A h \in Loops : Scanning(h) => Scanning(h)'
    BY DEF PresenceStart, Goto, Scanning, TypeOK, LoopType, LoopInv
  <2> QED
    BY <1>1, <2>1, RequestLoopScans DEF ScanInv, Scanning
<1>2. ASSUME NEW g \in Loops, Loop(g)
      PROVE  ScanInv'
  BY <1>2, LoopScans, LoopFootprint DEF ScanInv, Scanning
<1>3. CASE Bystander
  BY <1>3, BystanderStep DEF ScanInv, Scanning
<1> QED
  BY <1>1, <1>2, <1>3, WhoSteps

\* The adapter only scans while some presence loop has a watcher to stop: it
\* is not left scanning once the loops have returned (Watcher.Stop).
THEOREM ScannerHasItsLoop == Spec => []ScannerNeedsLoop
<1>1. Init => ScanInv
  BY DEF Init, ScanInv
<1>2. ScanInv => ScannerNeedsLoop
  BY DEF ScanInv, ScannerNeedsLoop, Scanning, Watching
<1> QED
  BY <1>1, <1>2, ScanStep, TypeCorrect, LockCorrect, LoopCorrect, PTL DEF Spec
-----------------------------------------------------------------------------
(* What a loop does before it has a watcher, and after.                    *)

LEMMA DormantLoop ==
    ASSUME TypeOK, LockInv, NEW g \in Loops, Loop(g), ~Watching(g)
    PROVE  /\ UNCHANGED <<mu, phase, request, car, beacon, watcher>>
           /\ \/ LoopOpensBus(g)
              \/ /\ pc[g] = "watch" /\ UNCHANGED bus
                 /\ pc'[g] = IF g \in cancelled THEN "exit" ELSE "opening"
              \/ pc[g] = "stopped" /\ UNCHANGED bus /\ pc'[g] = "done"
              \/ LoopExits(g)
<1>a. pc \in [Loops -> Position]
  BY DEF TypeOK, LoopType
<1> USE <1>a DEF Watching
<1>1. \/ LoopOpensBus(g) \/ LoopOpensWatcher(g) \/ LoopTestsContext(g)
      \/ LoopReports(g) \/ LoopExits(g)
  <2>1. ~(\/ WatchStarts(g) \/ WatchStarted(g) \/ WatchFails(g) \/ LoopRuns(g)
          \/ LoopSnapshots(g) \/ LoopFindsDropped(g) \/ HoldPauses(g)
          \/ HeldLinkDropped(g) \/ HeldTick(g) \/ HoldPrimes(g)
          \/ LoopLooks(g) \/ WaitDiscovers(g) \/ WaitReturns(g))
    BY DEF WatchStarts, WatchStarted, WatchFails, LoopRuns, LoopSnapshots,
           LoopFindsDropped, HoldPauses, HeldLinkDropped, HeldTick,
           HoldPrimes, LoopLooks, WaitDiscovers, WaitReturns
  <2>2. ~(\/ WaitFails(g) \/ LoopSteps(g) \/ LoopReadsBackoff(g)
          \/ LoopAdoptsLink(g) \/ LoopRefused(g) \/ LoopConnects(g)
          \/ LoopDeparts(g) \/ LoopPaused(g) \/ LoopLeaves(g))
    BY DEF WaitFails, LoopSteps, LoopReadsBackoff, LoopAdoptsLink,
           LoopRefused, LoopConnects, LoopDeparts, LoopPaused, LoopLeaves
  <2>3. ~(\/ LoopGattFails(g) \/ (\E l \in Links : LoopGattUp(g, l))
          \/ LoopSessionFails(g) \/ LoopSessionUp(g))
    BY DEF LoopGattFails, LoopGattUp, LoopSessionFails, LoopSessionUp, LockInv
  <2> QED
    BY <2>1, <2>2, <2>3 DEF Loop
<1> QED
  BY <1>1
     DEF LoopOpensBus, LoopOpensWatcher, LoopTestsContext, LoopReports,
         LoopExits, Goto, ctxErr, lockVars, linkVars, sessionVars,
         presenceVars, scanVars

\* A loop that has a watcher does not return without leaving it first.
LEMMA WatchingStays ==
    ASSUME TypeOK, LockInv, NEW g \in Loops, Loop(g), Watching(g)
    PROVE  pc'[g] # "exit"
<1>a. pc \in [Loops -> Position]
  BY DEF TypeOK, LoopType
<1> USE <1>a DEF Watching, Goto, loopVars
<1>1. ASSUME \/ LoopOpensBus(g) \/ LoopOpensWatcher(g) \/ WatchStarts(g)
             \/ WatchStarted(g) \/ WatchFails(g) \/ LoopRuns(g)
             \/ LoopTestsContext(g) \/ LoopSnapshots(g) \/ HoldPauses(g)
             \/ HeldTick(g) \/ LoopLooks(g) \/ WaitDiscovers(g)
             \/ WaitReturns(g) \/ WaitFails(g) \/ LoopSteps(g)
      PROVE  pc'[g] # "exit"
  BY <1>1
     DEF LoopOpensBus, LoopOpensWatcher, WatchStarts, WatchStarted,
         WatchFails, LoopRuns, LoopTestsContext, LoopSnapshots, HoldPauses,
         HeldTick, LoopLooks, WaitDiscovers, WaitReturns, WaitFails,
         LoopSteps
<1>2. ASSUME \/ LoopReadsBackoff(g) \/ LoopRefused(g) \/ LoopConnects(g)
             \/ LoopGattFails(g) \/ LoopReports(g) \/ LoopPaused(g)
             \/ LoopLeaves(g) \/ LoopExits(g) \/ LoopFindsDropped(g)
             \/ HeldLinkDropped(g) \/ LoopSessionFails(g) \/ LoopDeparts(g)
      PROVE  pc'[g] # "exit"
  BY <1>2
     DEF LoopReadsBackoff, LoopRefused, LoopConnects, LoopGattFails,
         LoopReports, LoopPaused, LoopLeaves, LoopExits, LoopFindsDropped,
         HeldLinkDropped, LoopSessionFails, LoopDeparts, connectFailed
<1>3. ASSUME \/ HoldPrimes(g) \/ LoopAdoptsLink(g) \/ LoopSessionUp(g)
             \/ (\E l \in Links : LoopGattUp(g, l))
      PROVE  pc'[g] # "exit"
  BY <1>3
     DEF HoldPrimes, LoopAdoptsLink, LoopSessionUp, LoopGattUp, sessionReady,
         connectFailed
<1> QED
  BY <1>1, <1>2, <1>3 DEF Loop

\* Without a bus there is no link, none is being opened, and until the parent
\* has gone no loop has got any further than opening the bus.
Dormant == {"new", "init", "exit", "stopped", "done"}
BusInv ==
    /\ car # None \/ phase # "none" => bus
    /\ request = "closed" => presence = None
    /\ ~bus /\ request # "closed" =>
         beacon = None /\ \A g \in Loops : pc[g] \in Dormant

LEMMA RequestLoopBus ==
    ASSUME TypeOK, LockInv, BusInv, RequestLoop
    PROVE  BusInv'
<1>a. /\ pc \in [Loops -> Position]
      /\ Free => phase = "none"
      /\ Requests \subseteq RequestKind
  BY Constants DEF TypeOK, LoopType, LockInv, Free, Constants
<1> USE <1>a
    DEF BusInv, lockVars, linkVars, sessionVars, modeVars, presenceVars,
        loopVars, teardownLocked, closeLink, stopPresenceLocked, Accept
<1>1. ASSUME NEW cmd \in Requests, CommandOnLiveLink(cmd)
      PROVE  BusInv'
  BY <1>1 DEF CommandOnLiveLink
<1>2. ASSUME NEW cmd \in Requests, RequestConnect(cmd)
      PROVE  BusInv'
  BY <1>2 DEF RequestConnect, beginConnect, RequestKind, Commands
<1>3. CASE PairOnLiveLink
  BY <1>3 DEF PairOnLiveLink
<1>4. CASE NavigateOnLiveLink
  BY <1>4 DEF NavigateOnLiveLink
<1>5. CASE RequestGattFails
  BY <1>5 DEF RequestGattFails, Unlock
<1>6. ASSUME NEW l \in Links, RequestGattUp(l)
      PROVE  BusInv'
  BY <1>6 DEF RequestGattUp, linkEstablished
<1>7. CASE RequestDropsLink
  BY <1>7 DEF RequestDropsLink, Unlock
<1>8. CASE RequestSessionUp
  BY <1>8 DEF RequestSessionUp, Unlock
<1>9. CASE NavigateExecute
  BY <1>9 DEF NavigateExecute
<1>10. CASE ForcedKeygen
  BY <1>10 DEF ForcedKeygen
<1>11. ASSUME NEW g \in Loops, PresenceStart(g)
       PROVE  BusInv'
  BY <1>11 DEF PresenceStart, Goto, Dormant
<1>12. CASE PresenceStop
  BY <1>12 DEF PresenceStop
<1>13. CASE Shutdown
  BY <1>13 DEF Shutdown
<1> QED
  BY <1>1, <1>2, <1>3, <1>4, <1>5, <1>6, <1>7, <1>8, <1>9, <1>10, <1>11,
     <1>12, <1>13
     DEF RequestLoop

\* A loop with a watcher uses the bus that is open.
LEMMA WatchingLoopBus ==
    ASSUME TypeOK, LockInv, BusInv, NEW g \in Loops, Loop(g), Watching(g)
    PROVE  /\ UNCHANGED request
           /\ bus => bus'
           /\ car' # None \/ phase' # "none" => bus'
<1> DEFINE Safe == /\ UNCHANGED request
                   /\ bus => bus'
                   /\ car' # None \/ phase' # "none" => bus'
<1>a. pc \in [Loops -> Position]
  BY DEF TypeOK, LoopType
<1> USE <1>a DEF Watching, lockVars, linkVars, sessionVars, BusInv
<1>1. ASSUME \/ LoopOpensBus(g) \/ LoopOpensWatcher(g) \/ WatchFails(g)
             \/ LoopRuns(g) \/ LoopTestsContext(g) \/ LoopSnapshots(g)
             \/ HoldPauses(g) \/ HeldTick(g) \/ LoopLooks(g)
             \/ WaitDiscovers(g) \/ WaitReturns(g) \/ WaitFails(g)
             \/ LoopSteps(g) \/ LoopReadsBackoff(g) \/ LoopRefused(g)
      PROVE  Safe
  BY <1>1
     DEF LoopOpensBus, LoopOpensWatcher, WatchFails, LoopRuns,
         LoopTestsContext, LoopSnapshots, HoldPauses, HeldTick, LoopLooks,
         WaitDiscovers, WaitReturns, WaitFails, LoopSteps, LoopReadsBackoff,
         LoopRefused
<1>2. ASSUME \/ WatchStarts(g) \/ WatchStarted(g) \/ LoopConnects(g)
             \/ LoopGattFails(g) \/ LoopReports(g) \/ LoopPaused(g)
             \/ LoopLeaves(g) \/ LoopExits(g)
      PROVE  Safe
  BY <1>2
     DEF WatchStarts, WatchStarted, LoopConnects, beginConnect,
         LoopGattFails, LoopReports, LoopPaused, LoopLeaves, LoopExits, Unlock
<1>3. ASSUME \/ LoopFindsDropped(g) \/ HeldLinkDropped(g) \/ HoldPrimes(g)
             \/ LoopDeparts(g)
      PROVE  Safe
  BY <1>3
     DEF LoopFindsDropped, HeldLinkDropped, HoldPrimes, LoopDeparts,
         teardownLocked, primeDropped, closeLink
<1>4. ASSUME LoopAdoptsLink(g) \/ LoopSessionFails(g) \/ LoopSessionUp(g)
      PROVE  Safe
  BY <1>4
     DEF LoopAdoptsLink, LoopSessionFails, LoopSessionUp, sessionReady,
         teardownLocked, primeDropped, closeLink, Unlock
<1>5. ASSUME NEW l \in Links, LoopGattUp(g, l)
      PROVE  Safe
  BY <1>5 DEF LoopGattUp, linkEstablished
<1> QED
  BY <1>1, <1>2, <1>3, <1>4, <1>5 DEF Loop

LEMMA PresenceLoopBus ==
    ASSUME TypeOK, LockInv, BusInv, NEW g \in Loops, Loop(g)
    PROVE  BusInv'
<1>a. presence' \in {presence, None}
  BY LoopFootprint DEF LoopExits
<1>1. CASE Watching(g)
  <2>1. bus \/ request = "closed"
    BY <1>1 DEF BusInv, Watching, Dormant
  <2> QED
    BY <1>a, <1>1, <2>1, WatchingLoopBus DEF BusInv
<1>2. CASE ~Watching(g)
  <2>1. CASE LoopOpensBus(g)
    BY <1>a, <1>2, <2>1, DormantLoop, LoopFootprint
       DEF LoopOpensBus, Goto, TypeOK, LoopType, BusInv, Dormant
  <2>2. CASE LoopExits(g)
    BY <1>a, <1>2, <2>2, DormantLoop, LoopFootprint
       DEF LoopExits, Goto, TypeOK, LoopType, BusInv, Dormant, sessionVars
  <2> QED
    BY <1>a, <1>2, <2>1, <2>2, DormantLoop, LoopFootprint DEF BusInv, Dormant
<1> QED
  BY <1>1, <1>2

LEMMA BusStep ==
    ASSUME TypeOK, LockInv, BusInv, [Next]_vars
    PROVE  BusInv'
<1>1. CASE Bystander
  BY <1>1, BystanderStep DEF BusInv, closeLink
<1> QED
  BY <1>1, WhoSteps, RequestLoopBus, PresenceLoopBus

\* BusInv holds throughout.
THEOREM BusCorrect == Spec => []BusInv
<1>1. Init => BusInv
  BY DEF Init, BusInv, Dormant
<1> QED
  BY <1>1, BusStep, TypeCorrect, LockCorrect, PTL DEF Spec

-----------------------------------------------------------------------------
(* How presence mode ends by itself.                                       *)

\* The loop of the current mode only returns because it found no bus: there
\* is no link then, nobody is opening one, and while presence mode is on
\* nobody may, for want of a beacon.
ExitInv ==
    \A g \in Loops :
      pc[g] = "exit" /\ presence = g =>
        /\ mu = None /\ car = None /\ beacon = None
        /\ \A h \in Loops : ~Watching(h)

\* While presence mode is on, the request loop opens no link without a beacon.
LEMMA NobodyConnects ==
    ASSUME RequestLoop, UNCHANGED presence, presence # None,
           mu = None, car = None, beacon = None
    PROVE  UNCHANGED <<mu, car, beacon>>
<1>a. None \notin Loops /\ Requester # None
  BY Constants DEF Constants
<1>1. ~(ForcedKeygen \/ PresenceStop \/ Shutdown)
  BY DEF ForcedKeygen, PresenceStop, Shutdown, stopPresenceLocked
<1>2. ~(\/ (\E cmd \in Requests : RequestConnect(cmd)) \/ RequestGattFails
        \/ (\E l \in Links : RequestGattUp(l)) \/ RequestDropsLink
        \/ RequestSessionUp)
  BY <1>a
     DEF RequestConnect, targetReady, RequestGattFails, RequestGattUp,
         RequestDropsLink, RequestSessionUp
<1> QED
  BY <1>1, <1>2
     DEF RequestLoop, CommandOnLiveLink, PairOnLiveLink, NavigateOnLiveLink,
         NavigateExecute, PresenceStart, lockVars, linkVars, presenceVars,
         sessionVars

LEMMA RequestLoopExit ==
    ASSUME TypeOK, LoopInv, ExitInv, RequestLoop
    PROVE  ExitInv'
<1> SUFFICES ASSUME NEW g \in Loops, pc'[g] = "exit", presence' = g
             PROVE  /\ mu' = None /\ car' = None /\ beacon' = None
                    /\ \A h \in Loops : ~Watching(h)'
  BY DEF ExitInv
<1>a. g # None /\ pc \in [Loops -> Position]
  BY Constants DEF Constants, TypeOK, LoopType
<1>1. ASSUME ForcedKeygen \/ PresenceStop \/ Shutdown
      PROVE  FALSE
  BY <1>1, <1>a DEF ForcedKeygen, PresenceStop, Shutdown, stopPresenceLocked
<1>2. ASSUME NEW h \in Loops, PresenceStart(h)
      PROVE  FALSE
  BY <1>2, <1>a DEF PresenceStart, Goto
<1>3. UNCHANGED <<pc, presence>>
  BY <1>1, <1>2
     DEF RequestLoop, CommandOnLiveLink, RequestConnect, PairOnLiveLink,
         NavigateOnLiveLink, RequestGattFails, RequestGattUp,
         RequestDropsLink, RequestSessionUp, NavigateExecute, loopVars,
         presenceVars, modeVars
<1>4. /\ mu = None /\ car = None /\ beacon = None
      /\ \A h \in Loops : ~Watching(h)
  BY <1>3 DEF ExitInv
<1>5. UNCHANGED <<mu, car, beacon>>
  BY <1>a, <1>3, <1>4, NobodyConnects
<1> QED
  BY <1>3, <1>4, <1>5 DEF Watching

LEMMA PresenceLoopExit ==
    ASSUME TypeOK, LockInv, LoopInv, BusInv, ExitInv, NEW h \in Loops, Loop(h)
    PROVE  ExitInv'
<1> SUFFICES ASSUME NEW g \in Loops, pc'[g] = "exit", presence' = g
             PROVE  /\ mu' = None /\ car' = None /\ beacon' = None
                    /\ \A k \in Loops : ~Watching(k)'
  BY DEF ExitInv
<1>a. /\ g # None /\ presence = g
      /\ pc \in [Loops -> Position]
  BY Constants, LoopFootprint
     DEF Constants, TypeOK, LoopType, LoopExits
<1>1. CASE pc[g] = "exit"
  <2>1. /\ mu = None /\ car = None /\ beacon = None
        /\ \A k \in Loops : ~Watching(k)
    BY <1>a, <1>1 DEF ExitInv
  <2>2. (h # g /\ h \in cancelled) \/ ~Running(h)
    <3>1. CASE h = g
      BY <1>1, <1>a, <2>1, <3>1, DormantLoop
         DEF LoopOpensBus, LoopExits, Goto
    <3> QED
      BY <1>a, <3>1 DEF LoopInv, OnePresenceLoop
  <2>3. ~Watching(h)'
    BY <1>a, <2>1, <2>2, DormantLoop
       DEF LoopOpensBus, LoopExits, Goto, Watching, Running
  <2> QED
    BY <2>1, <2>3, DormantLoop, LoopFootprint DEF Watching
<1>2. CASE pc[g] # "exit"
  <2>1. h = g
    BY <1>2, LoopFootprint
  <2>2. Running(g) /\ g \notin cancelled
    BY <1>a DEF LoopInv, OnePresenceLoop
  <2>3. LoopOpensBus(g)
    <3>1. CASE Watching(g)
      BY <1>a, <2>1, <2>2, <3>1, WatchingStays
    <3>2. CASE ~Watching(g)
      BY <1>2, <2>1, <2>2, <3>2, DormantLoop DEF LoopExits
    <3> QED
      BY <3>1, <3>2
  <2>4. mu = None /\ ~bus
    BY <1>a, <1>2, <2>3 DEF LoopOpensBus, Free, Goto
  <2>5. /\ car = None /\ beacon = None
        /\ \A k \in Loops : pc[k] \in Dormant
    BY <1>a, <2>4 DEF BusInv
  <2> QED
    BY <2>1, <2>4, <2>5, DormantLoop, LoopFootprint DEF Watching, Dormant
<1> QED
  BY <1>1, <1>2
LEMMA ExitStep ==
    ASSUME TypeOK, LockInv, LoopInv, BusInv, ExitInv, [Next]_vars
    PROVE  ExitInv'
<1>1. CASE Bystander
  BY <1>1, BystanderStep DEF ExitInv, closeLink, Watching
<1> QED
  BY <1>1, WhoSteps, RequestLoopExit, PresenceLoopExit

\* ExitInv holds throughout.
THEOREM ExitCorrect == Spec => []ExitInv
<1>1. Init => ExitInv
  BY DEF Init, ExitInv
<1> QED
  BY <1>1, ExitStep, TypeCorrect, LockCorrect, LoopCorrect, BusCorrect, PTL
     DEF Spec

-----------------------------------------------------------------------------
(* What a step does to the visit: nothing, unless it closes the link,      *)
(* establishes it, or serves somebody over it.                             *)

LeavesVisit ==
    /\ UNCHANGED <<car, settled, insideEmitted, presence, idle, fired>>
    /\ phase' = "none" => phase # "handshake"
OpensVisit ==
    /\ phase = "gatt" /\ phase' = "handshake" /\ car' # None
    /\ UNCHANGED <<settled, insideEmitted, presence>>
ServesVisit ==
    /\ car # None
    /\ UNCHANGED <<car, settled, presence, fired>>
    /\ resetIdleTimerLocked
    /\ insideEmitted' => insideEmitted \/ (presence # None /\ settled)
\* navigate goes on without mu, and without having restarted the idle timer.
EntersNavigate ==
    /\ request = "navigate" /\ mu = Requester /\ phase = "handshake"
    /\ UNCHANGED <<car, settled, insideEmitted, presence>>

LEMMA LoopVisit ==
    ASSUME LockInv, LinkInv, NEW g \in Loops, Loop(g)
    PROVE  LeavesVisit \/ OpensVisit \/ ServesVisit \/ closeLink \/ LoopExits(g)
<1>a. None \notin Links /\ (Free => phase = "none")
  BY Constants DEF Constants, LockInv, Free
<1> USE <1>a DEF lockVars, linkVars, visitVars, sessionVars, presenceVars,
                 modeVars
<1>1. ASSUME \/ LoopOpensBus(g) \/ LoopOpensWatcher(g) \/ WatchStarts(g)
             \/ WatchStarted(g) \/ WatchFails(g) \/ LoopRuns(g)
             \/ LoopTestsContext(g) \/ LoopSnapshots(g) \/ HoldPauses(g)
             \/ HeldTick(g) \/ LoopLooks(g) \/ WaitDiscovers(g)
             \/ WaitReturns(g) \/ WaitFails(g) \/ LoopSteps(g)
      PROVE  LeavesVisit
  BY <1>1
     DEF LeavesVisit, LoopOpensBus, LoopOpensWatcher, WatchStarts,
         WatchStarted, WatchFails, LoopRuns, LoopTestsContext, LoopSnapshots,
         HoldPauses, HeldTick, LoopLooks, WaitDiscovers, WaitReturns,
         WaitFails, LoopSteps, LockInv
<1>2. ASSUME \/ LoopReadsBackoff(g) \/ LoopRefused(g) \/ LoopConnects(g)
             \/ LoopGattFails(g) \/ LoopReports(g) \/ LoopPaused(g)
             \/ LoopLeaves(g)
      PROVE  LeavesVisit
  BY <1>2
     DEF LeavesVisit, LoopReadsBackoff, LoopRefused, LoopConnects,
         beginConnect, LoopGattFails, LoopReports, LoopPaused, LoopLeaves
<1>3. ASSUME LoopFindsDropped(g) \/ LoopSessionFails(g) \/ LoopDeparts(g)
      PROVE  closeLink
  BY <1>3 DEF LoopFindsDropped, LoopSessionFails, LoopDeparts, teardownLocked
<1>4. CASE HeldLinkDropped(g)
  BY <1>4 DEF HeldLinkDropped, teardownLocked, LeavesVisit
<1>5. CASE HoldPrimes(g)
  BY <1>5 DEF HoldPrimes, primeDropped, emitInsideLocked, LeavesVisit,
              ServesVisit
<1>6. CASE LoopAdoptsLink(g)
  BY <1>6 DEF LoopAdoptsLink, sessionReady, primeDropped, LeavesVisit,
              ServesVisit
<1>7. CASE LoopSessionUp(g)
  BY <1>7 DEF LoopSessionUp, sessionReady, primeDropped, ServesVisit, LinkInv
<1>8. ASSUME NEW l \in Links, LoopGattUp(g, l)
      PROVE  OpensVisit
  BY <1>8 DEF LoopGattUp, linkEstablished, OpensVisit
<1> QED
  BY <1>1, <1>2, <1>3, <1>4, <1>5, <1>6, <1>7, <1>8 DEF Loop

LEMMA RequestLoopVisit ==
    ASSUME LockInv, LinkInv, RequestLoop
    PROVE  \/ LeavesVisit \/ OpensVisit \/ ServesVisit \/ closeLink
           \/ EntersNavigate
           \/ \E g \in Loops : PresenceStart(g)
<1>a. None \notin Links /\ (Free => phase = "none")
  BY Constants DEF Constants, LockInv, Free
<1> USE <1>a DEF lockVars, linkVars, visitVars, sessionVars, presenceVars,
                 modeVars, Accept
<1>1. ASSUME NEW cmd \in Requests, CommandOnLiveLink(cmd)
      PROVE  ServesVisit
  BY <1>1 DEF CommandOnLiveLink, ServesVisit
<1>2. ASSUME NEW cmd \in Requests, RequestConnect(cmd)
      PROVE  LeavesVisit
  BY <1>2 DEF RequestConnect, beginConnect, LeavesVisit
<1>3. ASSUME NavigateOnLiveLink \/ RequestGattFails
      PROVE  LeavesVisit
  BY <1>3 DEF NavigateOnLiveLink, RequestGattFails, LeavesVisit
<1>4. ASSUME NEW l \in Links, RequestGattUp(l)
      PROVE  OpensVisit
  BY <1>4 DEF RequestGattUp, linkEstablished, OpensVisit
<1>5. CASE RequestSessionUp
  BY <1>5 DEF RequestSessionUp, EntersNavigate, ServesVisit, LinkInv
<1>6. CASE NavigateExecute
  BY <1>6 DEF NavigateExecute, LeavesVisit, ServesVisit
<1>7. ASSUME \/ PairOnLiveLink \/ RequestDropsLink \/ ForcedKeygen
             \/ PresenceStop \/ Shutdown
      PROVE  closeLink
  BY <1>7
     DEF PairOnLiveLink, RequestDropsLink, ForcedKeygen, PresenceStop,
         Shutdown, teardownLocked
<1> QED
  BY <1>1, <1>2, <1>3, <1>4, <1>5, <1>6, <1>7 DEF RequestLoop

LEMMA InsideStep ==
    ASSUME TypeOK, LockInv, LoopInv, LinkInv, ExitInv, InsideBelongsToVisit,
           [Next]_vars
    PROVE  InsideBelongsToVisit'
<1> USE DEF InsideBelongsToVisit
<1>1. CASE LeavesVisit \/ EntersNavigate
  BY <1>1 DEF LeavesVisit, EntersNavigate
<1>2. CASE OpensVisit
  BY <1>2 DEF OpensVisit, LinkInv
<1>3. CASE ServesVisit
  BY <1>3 DEF ServesVisit
<1>4. CASE closeLink
  BY <1>4 DEF closeLink
<1>5. ASSUME NEW g \in Loops, LoopExits(g)
      PROVE  InsideBelongsToVisit'
  <2>1. UNCHANGED <<car, settled, insideEmitted>>
    BY <1>5 DEF LoopExits, sessionVars, linkVars, visitVars
  <2>2. CASE current(g)
    <3>1. presence = g /\ pc[g] = "exit"
      BY <1>5, <2>2
         DEF LoopExits, current, LoopInv, OnePresenceLoop, Running
    <3> QED
      BY <2>1, <3>1 DEF ExitInv
  <2>3. CASE ~current(g)
    BY <1>5, <2>1, <2>3 DEF LoopExits
  <2> QED
    BY <2>2, <2>3
<1>6. ASSUME NEW g \in Loops, PresenceStart(g)
      PROVE  InsideBelongsToVisit'
  BY <1>6 DEF PresenceStart, sessionVars, visitVars
<1>7. CASE Bystander
  BY <1>7, BystanderStep
     DEF closeLink, TypeOK, VisitType, IdleTimerFires, visitVars
<1> QED
  BY <1>1, <1>2, <1>3, <1>4, <1>5, <1>6, <1>7, WhoSteps, LoopVisit,
     RequestLoopVisit

\* presence_inside is only ever announced for a visit that has settled and
\* still goes on, so that the next visit is announced again: everything that
\* ends a visit forgets it, also when presence mode ends by itself.
THEOREM InsideIsOfTheVisit == Spec => []InsideBelongsToVisit
<1>1. Init => InsideBelongsToVisit
  BY DEF Init, InsideBelongsToVisit
<1> QED
  BY <1>1, InsideStep, TypeCorrect, LockCorrect, LoopCorrect, LinkCorrect,
     ExitCorrect, PTL
     DEF Spec

-----------------------------------------------------------------------------
(* What is left behind without presence mode.                              *)

\* IdleTimerGuardsLink also while mu is held: the requests that hold it reset
\* the timer before they release it.
IdleInv ==
    phase = "none" /\ car # None /\ presence = None => idle \/ fired > 0

\* The request being served is one the core sends.
RequestInv == request \in Requests \cup {"idle", "closed"}

LEMMA RequestStep ==
    ASSUME RequestInv, [Next]_vars
    PROVE  RequestInv'
<1> USE DEF RequestInv
<1>1. CASE RequestLoop
  BY <1>1
     DEF RequestLoop, CommandOnLiveLink, RequestConnect, PairOnLiveLink,
         NavigateOnLiveLink, RequestGattFails, RequestGattUp,
         RequestDropsLink, RequestSessionUp, NavigateExecute, ForcedKeygen,
         PresenceStart, PresenceStop, Shutdown, Accept
<1>2. ASSUME NEW g \in Loops, Loop(g)
      PROVE  UNCHANGED request
  BY <1>2
     DEF Loop, LoopOpensBus, LoopOpensWatcher, WatchStarts, WatchStarted,
         WatchFails, LoopRuns, LoopTestsContext, LoopSnapshots,
         LoopFindsDropped, HoldPauses, HeldLinkDropped, HeldTick, HoldPrimes,
         LoopLooks, WaitDiscovers, WaitReturns, WaitFails, LoopSteps,
         LoopReadsBackoff, LoopAdoptsLink, LoopRefused, LoopConnects,
         LoopGattFails, LoopGattUp, LoopSessionFails, LoopSessionUp,
         LoopReports, LoopDeparts, LoopPaused, LoopLeaves, LoopExits
<1>3. CASE Bystander
  BY <1>3, BystanderStep
<1> QED
  BY <1>1, <1>2, <1>3, WhoSteps

LEMMA IdleStep ==
    ASSUME TypeOK, LockInv, LoopInv, LinkInv, ExitInv, RequestInv, IdleInv,
           "navigate" \notin Requests, [Next]_vars
    PROVE  IdleInv'
<1>a. fired \in Nat
  BY Constants DEF TypeOK, VisitType, Constants
<1> USE <1>a DEF IdleInv
<1>1. CASE LeavesVisit
  <2>1. phase' = "none" /\ car # None => phase = "none"
    BY <1>1 DEF LeavesVisit, TypeOK, LockType, Phase, LinkInv
  <2> QED
    BY <1>1, <2>1 DEF LeavesVisit
<1>2. CASE OpensVisit
  BY <1>2 DEF OpensVisit
<1>3. CASE ServesVisit
  BY <1>3 DEF ServesVisit, resetIdleTimerLocked
<1>4. CASE closeLink
  BY <1>4 DEF closeLink
<1>5. CASE EntersNavigate
  BY <1>5 DEF EntersNavigate, RequestInv
<1>6. ASSUME NEW g \in Loops, LoopExits(g)
      PROVE  IdleInv'
  <2>1. UNCHANGED <<phase, car, idle, fired>>
    BY <1>6 DEF LoopExits, lockVars, sessionVars, linkVars
  <2>2. CASE current(g)
    <3>1. presence = g /\ pc[g] = "exit"
      BY <1>6, <2>2
         DEF LoopExits, current, LoopInv, OnePresenceLoop, Running
    <3> QED
      BY <2>1, <3>1 DEF ExitInv
  <2>3. CASE ~current(g)
    BY <1>6, <2>1, <2>3 DEF LoopExits
  <2> QED
    BY <2>2, <2>3
<1>7. ASSUME NEW g \in Loops, PresenceStart(g)
      PROVE  IdleInv'
  BY <1>7, Constants DEF PresenceStart, Constants
<1>8. CASE Bystander
  <2>1. UNCHANGED <<phase, presence>>
    BY <1>8, BystanderStep
  <2>2. CASE UNCHANGED <<car, idle, fired>> \/ car' = None
    BY <2>1, <2>2
  <2>3. CASE IdleTimerFires
    <3>1. fired' = fired + 1
      BY <2>3 DEF IdleTimerFires
    <3> QED
      BY <3>1
  <2> QED
    BY <1>8, <2>2, <2>3, BystanderStep DEF closeLink
<1> QED
  BY <1>1, <1>2, <1>3, <1>4, <1>5, <1>6, <1>7, <1>8, WhoSteps, LoopVisit,
     RequestLoopVisit

\* Whatever commands, stopping loops and idle callbacks do, a link that is
\* cached without presence mode has a timer, or a callback that fired, to close
\* it: for a core that never sends navigate, which returns early when it fails.
THEOREM IdleTimerGuards ==
    ASSUME "navigate" \notin Requests
    PROVE  Spec => []IdleTimerGuardsLink
<1>1. Init => IdleInv /\ RequestInv
  BY DEF Init, IdleInv, RequestInv
<1>2. /\ TypeOK /\ LockInv /\ LoopInv /\ LinkInv /\ ExitInv
      /\ RequestInv /\ IdleInv /\ [Next]_vars
      => RequestInv' /\ IdleInv'
  BY RequestStep, IdleStep
<1>3. LockInv /\ IdleInv => IdleTimerGuardsLink
  BY DEF LockInv, IdleInv, IdleTimerGuardsLink, Free
<1> QED
  BY <1>1, <1>2, <1>3, TypeCorrect, LockCorrect, LoopCorrect, LinkCorrect,
     ExitCorrect, PTL
     DEF Spec
-----------------------------------------------------------------------------
(* What a departure finds.                                                 *)

\* A loop that is about to depart, or would if its Wait found nothing.
Departing(g) ==
    \/ pc[g] = "depart"
    \/ pc[g] \in {"wait", "sawNone"} /\ seen[g] = "far"

\* Once farTimeout has passed, the last beacon is too old to connect to; the
\* loop saw no link before it began to wait, and nobody may open one before
\* there is another beacon.
DepartInv ==
    /\ \A g \in Loops : pc[g] = "new" => seen[g] = "away"
    /\ \A g \in Loops :
         presence = g =>
           /\ seen[g] = "far" => beacon = None
           /\ Departing(g) => mu = None /\ car = None /\ beacon = None

\* A beacon that connects are aimed at is of the loop of the current mode, not
\* of a cancelled one that stored its result late (main.go:1169).
BeaconIsOwn == beacon # None /\ presence # None => beacon = presence

LEMMA RequestLoopDeparts ==
    ASSUME TypeOK, LoopInv, DepartInv, RequestLoop
    PROVE  DepartInv'
<1>a. None \notin Loops /\ pc \in [Loops -> Position]
  BY Constants DEF Constants, TypeOK, LoopType
<1>1. UNCHANGED seen /\ beacon' \in {beacon, None}
  BY DEF RequestLoop, CommandOnLiveLink, RequestConnect, PairOnLiveLink,
         NavigateOnLiveLink, RequestGattFails, RequestGattUp,
         RequestDropsLink, RequestSessionUp, NavigateExecute, ForcedKeygen,
         PresenceStart, PresenceStop, Shutdown, stopPresenceLocked, loopVars,
         presenceVars
<1>2. ASSUME NEW g \in Loops, PresenceStart(g)
      PROVE  DepartInv'
  <2>1. /\ pc[g] = "new" /\ pc'[g] = "init" /\ presence' = g
        /\ \A h \in Loops \ {g} : pc'[h] = pc[h]
    BY <1>a, <1>2 DEF PresenceStart, Goto, LoopInv
  <2> QED
    BY <1>1, <2>1 DEF DepartInv, Departing
<1>3. ASSUME NEW g \in Loops, UNCHANGED pc, presence' = g, presence = g,
             Departing(g)
      PROVE  UNCHANGED <<mu, car, beacon>>
  BY <1>a, <1>3, NobodyConnects DEF DepartInv
<1>4. CASE UNCHANGED pc
  <2>1. presence' \in {presence, None}
    BY <1>a, <1>4
       DEF RequestLoop, CommandOnLiveLink, RequestConnect, PairOnLiveLink,
           NavigateOnLiveLink, RequestGattFails, RequestGattUp,
           RequestDropsLink, RequestSessionUp, NavigateExecute, ForcedKeygen,
           PresenceStart, Goto, PresenceStop, Shutdown, stopPresenceLocked,
           presenceVars, modeVars, LoopInv
  <2> QED
    BY <1>a, <1>1, <1>3, <1>4, <2>1 DEF DepartInv, Departing
<1> QED
  BY <1>2, <1>4, RequestLoopScans

\* A loop only judges for itself how near the vehicle is.
LEMMA LoopSees ==
    ASSUME TypeOK, LockInv, NEW g \in Loops, Loop(g)
    PROVE  /\ \A h \in Loops \ {g} : seen'[h] = seen[h]
           /\ seen'[g] \in {seen[g], "away", "near"}
           /\ \/ beacon' \in {beacon, None}
              \/ beacon' = g /\ seen'[g] = "near"
           /\ Departing(g)' =>
                \/ LoopLooks(g) \/ WaitDiscovers(g) \/ WaitReturns(g)
                \/ LoopSteps(g)
<1> DEFINE Sees ==
      /\ \A h \in Loops \ {g} : seen'[h] = seen[h]
      /\ seen'[g] \in {seen[g], "away", "near"}
      /\ \/ beacon' \in {beacon, None}
         \/ beacon' = g /\ seen'[g] = "near"
<1> DEFINE Stays == pc'[g] \notin {"wait", "sawNone", "depart"}
<1>a. /\ pc \in [Loops -> Position]
      /\ seen \in [Loops -> {"away", "near", "far"}]
  BY DEF TypeOK, LoopType
<1> USE <1>a DEF Near, Goto, presenceVars, loopVars
<1>1. ASSUME \/ LoopOpensBus(g) \/ LoopOpensWatcher(g) \/ WatchStarts(g)
             \/ WatchStarted(g) \/ WatchFails(g) \/ LoopRuns(g)
             \/ LoopTestsContext(g) \/ LoopSnapshots(g) \/ LoopFindsDropped(g)
             \/ HoldPauses(g) \/ HeldLinkDropped(g) \/ HeldTick(g)
             \/ HoldPrimes(g) \/ WaitFails(g)
      PROVE  Sees /\ Stays
  BY <1>1
     DEF LoopOpensBus, LoopOpensWatcher, WatchStarts, WatchStarted,
         WatchFails, LoopRuns, LoopTestsContext, LoopSnapshots,
         LoopFindsDropped, HoldPauses, HeldLinkDropped, HeldTick, HoldPrimes,
         WaitFails
<1>2. ASSUME \/ LoopReadsBackoff(g) \/ LoopRefused(g) \/ LoopConnects(g)
             \/ LoopGattFails(g) \/ LoopSessionFails(g) \/ LoopReports(g)
             \/ LoopDeparts(g) \/ LoopPaused(g) \/ LoopLeaves(g)
             \/ LoopExits(g)
      PROVE  Sees /\ Stays
  BY <1>2
     DEF LoopReadsBackoff, LoopRefused, LoopConnects, LoopGattFails,
         LoopSessionFails, LoopReports, LoopDeparts, LoopPaused, LoopLeaves,
         LoopExits, connectFailed
<1>3. ASSUME \/ LoopAdoptsLink(g) \/ LoopSessionUp(g)
             \/ (\E l \in Links : LoopGattUp(g, l))
      PROVE  Sees /\ Stays
  BY <1>3
     DEF LoopAdoptsLink, LoopSessionUp, LoopGattUp, sessionReady,
         connectFailed, LockInv
<1>4. ASSUME LoopLooks(g) \/ WaitDiscovers(g) \/ WaitReturns(g) \/ LoopSteps(g)
      PROVE  Sees
  BY <1>4 DEF LoopLooks, WaitDiscovers, WaitReturns, LoopSteps
<1> QED
  BY <1>1, <1>2, <1>3, <1>4 DEF Loop, Departing

\* A cancelled loop opens no link while presence mode is on without a beacon.
LEMMA CancelledLoopWaits ==
    ASSUME TypeOK, LoopInv, NEW g \in Loops, Loop(g), presence # g,
           presence # None, mu = None, car = None, beacon = None
    PROVE  mu' = None /\ car' = None
<1>a. g # None /\ pc \in [Loops -> Position]
  BY Constants DEF Constants, TypeOK, LoopType
<1>b. g \in cancelled \/ ~Running(g)
  BY DEF LoopInv, OnePresenceLoop
<1> USE <1>a DEF lockVars, linkVars, sessionVars
<1>1. ASSUME \/ WatchStarts(g) \/ LoopConnects(g) \/ LoopGattFails(g)
             \/ (\E l \in Links : LoopGattUp(g, l)) \/ LoopSessionFails(g)
             \/ LoopSessionUp(g)
      PROVE  FALSE
  BY <1>b, <1>1
     DEF WatchStarts, ctxErr, LoopConnects, targetReady, LoopGattFails,
         LoopGattUp, LoopSessionFails, LoopSessionUp, Running
<1>2. ASSUME \/ LoopOpensBus(g) \/ LoopOpensWatcher(g) \/ WatchStarted(g)
             \/ WatchFails(g) \/ LoopRuns(g) \/ LoopTestsContext(g)
             \/ LoopSnapshots(g) \/ LoopFindsDropped(g) \/ HoldPauses(g)
             \/ HeldLinkDropped(g) \/ HeldTick(g) \/ HoldPrimes(g)
             \/ LoopLooks(g) \/ WaitDiscovers(g)
      PROVE  mu' = None /\ car' = None
  BY <1>2
     DEF LoopOpensBus, LoopOpensWatcher, WatchStarted, WatchFails, LoopRuns,
         LoopTestsContext, LoopSnapshots, LoopFindsDropped, HoldPauses,
         HeldLinkDropped, HeldTick, HoldPrimes, LoopLooks, WaitDiscovers,
         Unlock, teardownLocked, closeLink
<1>3. ASSUME \/ WaitReturns(g) \/ WaitFails(g) \/ LoopSteps(g)
             \/ LoopReadsBackoff(g) \/ LoopAdoptsLink(g) \/ LoopRefused(g)
             \/ LoopReports(g) \/ LoopDeparts(g) \/ LoopPaused(g)
             \/ LoopLeaves(g) \/ LoopExits(g)
      PROVE  mu' = None /\ car' = None
  BY <1>3
     DEF WaitReturns, WaitFails, LoopSteps, LoopReadsBackoff, LoopAdoptsLink,
         LoopRefused, LoopReports, LoopDeparts, LoopPaused, LoopLeaves,
         LoopExits, teardownLocked, closeLink
<1> QED
  BY <1>1, <1>2, <1>3 DEF Loop

LEMMA PresenceLoopDeparts ==
    ASSUME TypeOK, LockInv, LoopInv, DepartInv, BeaconIsOwn', NEW h \in Loops,
           Loop(h)
    PROVE  DepartInv'
<1>a. None \notin Loops
  BY Constants DEF Constants
<1>1. \A g \in Loops : pc'[g] = "new" => seen'[g] = "away"
  BY LoopFootprint, LoopSees DEF DepartInv
<1>2. ASSUME NEW g \in Loops, presence' = g
      PROVE  /\ seen'[g] = "far" => beacon' = None
             /\ Departing(g)' => mu' = None /\ car' = None /\ beacon' = None
  <2>1. presence = g
    BY <1>a, <1>2, LoopFootprint DEF LoopExits
  <2>2. CASE h # g
    <3>1. /\ pc'[g] = pc[g] /\ seen'[g] = seen[g]
          /\ beacon' \in {beacon, None}
      BY <1>a, <1>2, <2>2, LoopFootprint, LoopSees DEF BeaconIsOwn
    <3>2. Departing(g) => mu' = None /\ car' = None
      BY <1>a, <2>1, <2>2, CancelledLoopWaits DEF DepartInv
    <3> QED
      BY <2>1, <3>1, <3>2 DEF DepartInv, Departing
  <2>3. CASE h = g
    <3>1. seen'[g] = "far" => seen[g] = "far" /\ beacon' = None
      BY <2>1, <2>3, LoopSees DEF DepartInv
    <3>2. ASSUME Departing(g)'
          PROVE  mu' = None /\ car' = None /\ beacon' = None
      <4>a. /\ pc \in [Loops -> Position]
            /\ seen \in [Loops -> {"away", "near", "far"}]
        BY DEF TypeOK, LoopType
      <4>1. CASE LoopLooks(g)
        BY <2>1, <3>1, <3>2, <4>a, <4>1
           DEF LoopLooks, Free, Goto, Departing, lockVars, sessionVars,
               linkVars
      <4>2. CASE WaitDiscovers(g)
        BY <2>1, <3>2, <4>2
           DEF WaitDiscovers, DepartInv, Departing, lockVars, sessionVars,
               linkVars, loopVars
      <4>3. CASE WaitReturns(g)
        BY <2>1, <3>2, <4>a, <4>3
           DEF WaitReturns, Goto, DepartInv, Departing, lockVars,
               sessionVars, linkVars, presenceVars
      <4>4. CASE LoopSteps(g)
        BY <2>1, <3>2, <4>a, <4>4
           DEF LoopSteps, Goto, Near, DepartInv, Departing, lockVars,
               sessionVars, linkVars
      <4> QED
        BY <2>3, <3>2, <4>1, <4>2, <4>3, <4>4, LoopSees
    <3> QED
      BY <3>1, <3>2
  <2> QED
    BY <2>2, <2>3
<1> QED
  BY <1>1, <1>2 DEF DepartInv

LEMMA BystanderDeparts ==
    ASSUME TypeOK, DepartInv, BeaconIsOwn, Bystander
    PROVE  DepartInv'
<1>a. /\ UNCHANGED <<mu, presence, pc>>
      /\ beacon' \in {beacon, None} /\ car' \in {car, None}
  BY BystanderStep DEF closeLink
<1>1. CASE UNCHANGED seen
  BY <1>a, <1>1 DEF DepartInv, Departing
<1>2. ASSUME NEW g \in Loops, FarTimeoutPasses(g)
      PROVE  DepartInv'
  <2>1. /\ pc[g] \in {"top", "enter", "look", "pause"} /\ beacon # g
        /\ UNCHANGED <<mu, car, beacon>>
        /\ \A h \in Loops \ {g} : seen'[h] = seen[h]
    BY <1>2
       DEF FarTimeoutPasses, Near, TypeOK, LoopType, lockVars, sessionVars,
           linkVars, presenceVars
  <2>2. presence = g => beacon = None
    BY <2>1, Constants DEF BeaconIsOwn, Constants
  <2> QED
    BY <1>a, <2>1, <2>2 DEF DepartInv, Departing
<1> QED
  BY <1>1, <1>2
     DEF Bystander, vars, loopVars, IdleTeardown, Responder, AuthTake,
         AuthReturns, AuthAnswered, AuthDropsSession, Environment, Datagram,
         LinkDrops, ConnectionSettles, StatusAges, BeaconAges, BackoffExpires,
         IdleTimerFires

\* A departure never cuts off a link: whatever commands ask for while a loop
\* waits for a beacon after farTimeout, none of them connects.  With a second
\* loop it takes that a beacon is the current loop's own; one loop has no other.
THEOREM DeparturesSpareLinks ==
    Spec /\ []BeaconIsOwn => []DepartureSparesLinks
<1>1. Init => DepartInv
  BY Constants DEF Init, DepartInv, Departing, Constants
<1>2. /\ TypeOK /\ LockInv /\ LoopInv /\ DepartInv
      /\ BeaconIsOwn /\ BeaconIsOwn' /\ [Next]_vars
      => DepartInv'
  BY WhoSteps, RequestLoopDeparts, PresenceLoopDeparts, BystanderDeparts
<1>3. LoopInv /\ DepartInv => DepartureSparesLinks
  BY DEF LoopInv, OnePresenceLoop, Running, DepartInv, Departing,
         DepartureSparesLinks
<1> QED
  BY <1>1, <1>2, <1>3, TypeCorrect, LockCorrect, LoopCorrect, PTL DEF Spec
-----------------------------------------------------------------------------
(* What scans while bluez.Connect runs.                                    *)

\* A loop whose watcher is registered with the session for others to pause.
Registered(g) == Scanning(g) /\ pc[g] # "watching"

\* A connect pauses the registered watcher; a loop in Wait does not discover
\* while it is paused, and only resumes with mu.
QuietInv ==
    /\ phase = "gatt" =>
         ~discovering /\ \A g \in Loops : pc[g] = "wait" => paused[g]
    /\ \A g \in Loops : Registered(g) => watcher = g

\* No presence loop is started before the cancelled ones have returned.
NoOverlap == \A g, h \in Loops : Running(g) /\ Running(h) => g = h

\* What keeps a connect quiet, of a step that does not begin one.
KeepsQuiet ==
    /\ phase' = "gatt" => phase = "gatt"
    /\ discovering' => discovering
    /\ \A h \in Loops : /\ paused[h] => paused'[h]
                        /\ pc'[h] = "wait" => pc[h] = "wait"

LEMMA LoopQuiet ==
    ASSUME TypeOK, LockInv, QuietInv, NEW g \in Loops, Loop(g)
    PROVE  \/ KeepsQuiet
           \/ phase' # "gatt"
           \/ LoopConnects(g)
<1>a. /\ pc \in [Loops -> Position]
      /\ paused \in [Loops -> BOOLEAN]
      /\ Free => phase = "none"
  BY DEF TypeOK, LoopType, ScanType, LockInv, Free
<1> USE <1>a DEF KeepsQuiet, Goto, lockVars, presenceVars, scanVars, loopVars
<1>1. ASSUME \/ LoopOpensBus(g) \/ LoopOpensWatcher(g) \/ WatchFails(g)
             \/ LoopRuns(g) \/ LoopTestsContext(g) \/ LoopSnapshots(g)
             \/ LoopFindsDropped(g) \/ HeldLinkDropped(g) \/ HeldTick(g)
             \/ HoldPrimes(g)
      PROVE  KeepsQuiet
  BY <1>1
     DEF LoopOpensBus, LoopOpensWatcher, WatchFails, LoopRuns,
         LoopTestsContext, LoopSnapshots, LoopFindsDropped, HeldLinkDropped,
         HeldTick, HoldPrimes
<1>2. ASSUME \/ LoopSteps(g) \/ LoopReadsBackoff(g) \/ LoopAdoptsLink(g)
             \/ LoopRefused(g) \/ LoopReports(g) \/ LoopDeparts(g)
             \/ LoopPaused(g) \/ LoopExits(g)
      PROVE  KeepsQuiet
  BY <1>2
     DEF LoopSteps, LoopReadsBackoff, LoopAdoptsLink, sessionReady,
         LoopRefused, LoopReports, LoopDeparts, LoopPaused, LoopExits,
         connectFailed
<1>3. ASSUME WaitReturns(g) \/ WaitFails(g) \/ HoldPauses(g) \/ LoopLeaves(g)
      PROVE  KeepsQuiet
  <2>1. CASE WaitReturns(g)
    BY <2>1 DEF WaitReturns
  <2>2. CASE WaitFails(g)
    BY <2>2 DEF WaitFails, stopWatcher
  <2>3. CASE HoldPauses(g)
    BY <2>3 DEF HoldPauses
  <2>4. CASE LoopLeaves(g)
    BY <2>4 DEF LoopLeaves, stopWatcher
  <2> QED
    BY <1>3, <2>1, <2>2, <2>3, <2>4
<1>4. ASSUME WatchStarts(g) \/ WatchStarted(g) \/ LoopLooks(g)
      PROVE  phase' # "gatt"
  BY <1>4 DEF WatchStarts, WatchStarted, LoopLooks, Unlock
<1>5. CASE WaitDiscovers(g)
  BY <1>5 DEF WaitDiscovers, QuietInv
<1>6. ASSUME \/ LoopGattFails(g) \/ (\E l \in Links : LoopGattUp(g, l))
             \/ LoopSessionFails(g) \/ LoopSessionUp(g)
      PROVE  phase' # "gatt"
  BY <1>6
     DEF LoopGattFails, LoopGattUp, linkEstablished, LoopSessionFails,
         LoopSessionUp, Unlock
<1> QED
  BY <1>1, <1>2, <1>3, <1>4, <1>5, <1>6 DEF Loop

LEMMA LoopRegisters ==
    ASSUME TypeOK, LockInv, NEW g \in Loops, Loop(g)
    PROVE  /\ watcher' \in {watcher, g, None}
           /\ Registered(g)' => \/ watcher' = g
                                \/ Registered(g) /\ UNCHANGED watcher
<1> DEFINE Keeps == /\ UNCHANGED watcher
                    /\ Registered(g)' => Registered(g)
<1>a. pc \in [Loops -> Position]
  BY DEF TypeOK, LoopType
<1> USE <1>a DEF Registered, Scanning, Goto, presenceVars, scanVars, loopVars
<1>1. ASSUME \/ LoopOpensBus(g) \/ LoopOpensWatcher(g) \/ WatchStarts(g)
             \/ WatchFails(g) \/ LoopTestsContext(g) \/ LoopSnapshots(g)
             \/ LoopFindsDropped(g) \/ HoldPauses(g) \/ HeldLinkDropped(g)
             \/ HeldTick(g) \/ HoldPrimes(g) \/ LoopLooks(g)
             \/ WaitDiscovers(g) \/ WaitReturns(g)
      PROVE  Keeps
  BY <1>1
     DEF LoopOpensBus, LoopOpensWatcher, WatchStarts, WatchFails,
         LoopTestsContext, LoopSnapshots, LoopFindsDropped, HoldPauses,
         HeldLinkDropped, HeldTick, HoldPrimes, LoopLooks, WaitDiscovers,
         WaitReturns
<1>2. ASSUME \/ WaitFails(g) \/ LoopSteps(g) \/ LoopReadsBackoff(g)
             \/ LoopAdoptsLink(g) \/ LoopRefused(g) \/ LoopConnects(g)
             \/ LoopReports(g) \/ LoopDeparts(g) \/ LoopPaused(g)
             \/ LoopExits(g)
      PROVE  Keeps
  BY <1>2
     DEF WaitFails, LoopSteps, LoopReadsBackoff, LoopAdoptsLink,
         sessionReady, LoopRefused, LoopConnects, beginConnect, pauseWatcher,
         LoopReports, LoopDeparts, LoopPaused, LoopExits, connectFailed
<1>3. ASSUME \/ LoopGattFails(g) \/ (\E l \in Links : LoopGattUp(g, l))
             \/ LoopSessionFails(g) \/ LoopSessionUp(g)
      PROVE  Keeps
  BY <1>3
     DEF LoopGattFails, LoopGattUp, LoopSessionFails, LoopSessionUp,
         sessionReady, connectFailed, LockInv
<1>4. ASSUME WatchStarted(g) \/ LoopRuns(g)
      PROVE  watcher' = g
  BY <1>4 DEF WatchStarted, LoopRuns
<1>5. ASSUME LoopLeaves(g)
      PROVE  watcher' \in {watcher, None} /\ ~Registered(g)'
  BY <1>5 DEF LoopLeaves
<1> QED
  BY <1>1, <1>2, <1>3, <1>4, <1>5 DEF Loop

LEMMA RequestLoopQuiet ==
    ASSUME TypeOK, LoopInv, QuietInv, RequestLoop
    PROVE  QuietInv'
<1>a. /\ pc \in [Loops -> Position]
      /\ paused \in [Loops -> BOOLEAN]
  BY DEF TypeOK, LoopType, ScanType
<1>1. \A g \in Loops : Registered(g)' => watcher' = g
  <2>1. CASE UNCHANGED pc
    BY <2>1, RequestLoopScans DEF QuietInv, Registered, Scanning
  <2>2. ASSUME NEW h \in Loops, PresenceStart(h)
        PROVE  \A g \in Loops : Registered(g)' => Registered(g)
    BY <1>a, <2>2 DEF PresenceStart, Goto, Registered, Scanning
  <2> QED
    BY <2>1, <2>2, RequestLoopScans DEF QuietInv
<1>2. ASSUME NEW cmd \in Requests, RequestConnect(cmd)
      PROVE  ~discovering' /\ \A g \in Loops : pc'[g] = "wait" => paused'[g]
  <2>1. \A g \in Loops : pc[g] = "wait" => watcher = g
    BY DEF QuietInv, Registered, Scanning
  <2> QED
    BY <1>2, <2>1 DEF RequestConnect, beginConnect, pauseWatcher, loopVars
<1>3. ASSUME \/ (\E cmd \in Requests : CommandOnLiveLink(cmd))
             \/ PairOnLiveLink \/ NavigateOnLiveLink \/ NavigateExecute
             \/ ForcedKeygen \/ PresenceStop \/ Shutdown
      PROVE  UNCHANGED <<phase, scanVars, pc>>
  BY <1>3
     DEF CommandOnLiveLink, PairOnLiveLink, NavigateOnLiveLink,
         NavigateExecute, ForcedKeygen, PresenceStop, Shutdown, lockVars,
         presenceVars, loopVars
<1>4. ASSUME \/ RequestGattFails \/ (\E l \in Links : RequestGattUp(l))
             \/ RequestDropsLink \/ RequestSessionUp
      PROVE  phase' # "gatt"
  BY <1>4
     DEF RequestGattFails, RequestGattUp, linkEstablished, RequestDropsLink,
         RequestSessionUp, Unlock
<1>5. ASSUME NEW g \in Loops, PresenceStart(g)
      PROVE  /\ UNCHANGED <<phase, scanVars>>
             /\ \A h \in Loops : pc'[h] = "wait" => pc[h] = "wait"
  BY <1>a, <1>5 DEF PresenceStart, Goto, lockVars
<1> QED
  BY <1>1, <1>2, <1>3, <1>4, <1>5 DEF RequestLoop, QuietInv, scanVars

LEMMA PresenceLoopQuiet ==
    ASSUME TypeOK, LockInv, NoOverlap, QuietInv, NEW h \in Loops, Loop(h)
    PROVE  QuietInv'
<1>a. /\ pc \in [Loops -> Position]
      /\ paused \in [Loops -> BOOLEAN]
  BY DEF TypeOK, LoopType, ScanType
<1>1. ASSUME NEW g \in Loops, Registered(g)'
      PROVE  watcher' = g
  <2>1. CASE h = g
    BY <1>1, <2>1, LoopRegisters DEF QuietInv
  <2>2. CASE h # g
    <3>1. Registered(g) /\ Running(g)
      BY <1>1, <2>2, LoopFootprint DEF Registered, Scanning, Running
    <3>2. ~Running(h)
      BY <2>2, <3>1 DEF NoOverlap
    <3>3. UNCHANGED watcher
      BY <3>2, DormantLoop DEF Running, Watching
    <3> QED
      BY <3>1, <3>3 DEF QuietInv
  <2> QED
    BY <2>1, <2>2
<1>2. ASSUME phase' = "gatt"
      PROVE  ~discovering' /\ \A g \in Loops : pc'[g] = "wait" => paused'[g]
  <2>1. CASE KeepsQuiet
    BY <1>2, <2>1 DEF KeepsQuiet, QuietInv
  <2>2. CASE LoopConnects(h)
    <3>1. \A g \in Loops : pc[g] = "wait" => watcher = g
      BY DEF QuietInv, Registered, Scanning
    <3>2. \A g \in Loops : pc'[g] = "wait" => pc[g] = "wait"
      BY <1>a, <2>2 DEF LoopConnects, Goto
    <3> QED
      BY <2>2, <3>1, <3>2 DEF LoopConnects, beginConnect, pauseWatcher
  <2> QED
    BY <1>2, <2>1, <2>2, LoopQuiet
<1> QED
  BY <1>1, <1>2 DEF QuietInv

\* While bluez.Connect runs nothing scans, although the loop's watcher resumes
\* and rediscovers without mu: provided cancelled loops return before the next
\* one is started, since only one watcher is registered to be paused.
THEOREM ConnectsAreQuiet == Spec /\ []NoOverlap => []QuietConnect
<1>1. Init => QuietInv
  BY DEF Init, QuietInv, Registered, Scanning
<1>2. TypeOK /\ LockInv /\ LoopInv /\ NoOverlap /\ QuietInv /\ [Next]_vars
        => QuietInv'
  <2>1. Bystander /\ QuietInv => QuietInv'
    BY BystanderStep DEF QuietInv, Registered, Scanning
  <2> QED
    BY <2>1, WhoSteps, RequestLoopQuiet, PresenceLoopQuiet
<1>3. QuietInv => QuietConnect
  BY DEF QuietInv, QuietConnect
<1> QED
  BY <1>1, <1>2, <1>3, TypeCorrect, LockCorrect, LoopCorrect, PTL DEF Spec

\* Both hypotheses hold of a child that serves one presence-start: its connects
\* are quiet and its departures spare links, with no assumption on the rest.
COROLLARY OneLoopIsExact ==
    ASSUME \A g, h \in Loops : g = h
    PROVE  Spec => [](QuietConnect /\ DepartureSparesLinks)
<1>1. TypeOK => BeaconIsOwn
  BY DEF TypeOK, ModeType, BeaconIsOwn
<1>2. NoOverlap
  BY DEF NoOverlap
<1> QED
  BY <1>1, <1>2, TypeCorrect, ConnectsAreQuiet, DeparturesSpareLinks, PTL
=============================================================================
