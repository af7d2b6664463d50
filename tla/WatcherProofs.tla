---------------------------- MODULE WatcherProofs ----------------------------
(***************************************************************************)
(* Proofs about the inside of bluez.Watcher: why no wakeup is lost and     *)
(* nothing scans under a connect or a link, lock by lock.                  *)
(***************************************************************************)
EXTENDS Watcher, TLAPS

Thread == {"loop", "request"}
Place  == Serving \cup Stopping \cup Connecting \cup {"absent", "idle"}

TypeOK ==
    /\ mu \in {Free} \cup Thread
    /\ discoveryMu \in {Free} \cup Thread
    /\ pc \in [Thread -> Place]
    /\ pc["loop"] \in Serving \cup Stopping \cup {"absent"}
    /\ pc["request"] \in Connecting \cup {"idle"}
    /\ signals \subseteq {"adapter", "advert"}
    /\ pending \in Strength \cup {None}
    /\ observer \in Strength \cup {"idle", "reading", "waking", "done"}

\* The variables that are used as formulas.
FlagsOK ==
    /\ link \in BOOLEAN /\ discovering \in BOOLEAN
    /\ paused \in BOOLEAN
    /\ updates \in BOOLEAN /\ nearUpdate \in BOOLEAN /\ signalStop \in BOOLEAN

\* A step of each thread, and of neither.
LoopStep ==
    \/ PauseBegins("loop") \/ PauseEnds("loop")
    \/ Watch \/ FindsLink \/ Resumes
    \/ EnsureBegins \/ (\E ok \in BOOLEAN : EnsureEnds(ok))
    \/ Takes \/ Woken \/ TimesOut \/ Roused \/ Leaves
    \/ Stop
RequestStep ==
    \/ PauseBegins("request") \/ PauseEnds("request")
    \/ ConnectBegins \/ ScanBegins \/ ScanEnds \/ HasTarget \/ Quietens
    \/ Settles \/ Connected \/ AttemptFails \/ Retries \/ GivesUp
OtherStep == Observer \/ Advertises \/ DiscoveryLost \/ LinkLost

LEMMA WhoSteps == Next <=> LoopStep \/ RequestStep \/ OtherStep
BY DEF Next, LoopStep, RequestStep, OtherStep

-----------------------------------------------------------------------------
(* Type correctness.                                                       *)

LEMMA DiscoveryType ==
    ASSUME TypeOK,
           startDiscovery \/ stopDiscovery \/ UNCHANGED busVars
    PROVE  signals' \subseteq {"adapter", "advert"}
BY DEF TypeOK, startDiscovery, stopDiscovery, Discover, Sent, busVars

LEMMA LoopType ==
    ASSUME TypeOK, LoopStep
    PROVE  TypeOK'
<1> USE DEF TypeOK, Goto, At, Thread, Place, Serving, Stopping, Connecting,
            Strength, Free, None, Moves, busVars, beaconVars, channelVars
<1>1. CASE PauseBegins("loop")
  BY <1>1 DEF PauseBegins, PauseReturns
<1>2. CASE PauseEnds("loop")
  BY <1>2, DiscoveryType DEF PauseEnds, PauseReturns
<1>3. CASE Watch
  <2>1. signals' = {} /\ UNCHANGED discoveryMu
    BY <1>3 DEF Watch
  <2>2. \/ /\ observer' = "idle" /\ pending' = None
           /\ (Goto("loop", "pause") /\ mu' = "loop")
                \/ (Goto("loop", "tick") /\ mu' = Free)
        \/ UNCHANGED <<mu, pc, pending, observer>>
    BY <1>3 DEF Watch
  <2> QED
    BY <2>1, <2>2
<1>4. CASE FindsLink
  BY <1>4 DEF FindsLink
<1>5. CASE TimesOut
  BY <1>5 DEF TimesOut
<1>6. CASE Leaves
  BY <1>6 DEF Leaves
<1>7. CASE StopJoins
  BY <1>7 DEF StopJoins
<1>8. CASE Resumes
  BY <1>8 DEF Resumes, Resume
<1>9. CASE EnsureBegins
  BY <1>9 DEF EnsureBegins
<1>10. ASSUME NEW ok \in BOOLEAN, EnsureEnds(ok)
      PROVE  TypeOK'
  BY <1>10, DiscoveryType DEF EnsureEnds
<1>11. CASE Takes
  BY <1>11 DEF Takes
<1>12. CASE Woken
  BY <1>12 DEF Woken
<1>13. CASE Roused
  BY <1>13 DEF Roused
<1>14. CASE StopBegins
  BY <1>14 DEF StopBegins
<1>15. CASE StopCloses
  BY <1>15 DEF StopCloses
<1>16. CASE StopTurnsOff
  BY <1>16 DEF StopTurnsOff
<1>17. CASE StopEnds
  BY <1>17, DiscoveryType DEF StopEnds
<1> QED
  BY <1>1, <1>2, <1>3, <1>4, <1>5, <1>6, <1>7, <1>8, <1>9, <1>10, <1>11,
     <1>12, <1>13, <1>14, <1>15, <1>16, <1>17 DEF LoopStep, Stop

LEMMA RequestType ==
    ASSUME TypeOK, RequestStep
    PROVE  TypeOK'
<1> USE DEF TypeOK, Goto, At, Thread, Place, Serving, Stopping, Connecting,
            Strength, Free, None, Moves, busVars, beaconVars, channelVars
<1>1. CASE PauseBegins("request")
  BY <1>1 DEF PauseBegins, PauseReturns
<1>2. CASE PauseEnds("request")
  BY <1>2, DiscoveryType DEF PauseEnds, PauseReturns
<1>3. CASE ConnectBegins
  BY <1>3 DEF ConnectBegins
<1>4. CASE Connected
  BY <1>4 DEF Connected
<1>5. CASE GivesUp
  BY <1>5 DEF GivesUp
<1>6. CASE ScanBegins
  BY <1>6, DiscoveryType DEF ScanBegins
<1>7. CASE ScanEnds
  BY <1>7, DiscoveryType DEF ScanEnds
<1>8. CASE Quietens
  BY <1>8, DiscoveryType DEF Quietens
<1>9. CASE HasTarget
  BY <1>9 DEF HasTarget
<1>10. CASE Settles
  BY <1>10 DEF Settles
<1>11. CASE AttemptFails
  BY <1>11 DEF AttemptFails
<1>12. CASE Retries
  BY <1>12 DEF Retries
<1> QED
  BY <1>1, <1>2, <1>3, <1>4, <1>5, <1>6, <1>7, <1>8, <1>9, <1>10, <1>11,
     <1>12 DEF RequestStep

LEMMA OtherType ==
    ASSUME TypeOK, OtherStep
    PROVE  TypeOK'
<1> USE DEF TypeOK, Strength, None, busVars, beaconVars, channelVars
<1>1. CASE AdapterSignal \/ DeviceSignal
  BY <1>1 DEF AdapterSignal, DeviceSignal
<1>2. CASE Reads \/ Stores
  BY <1>2 DEF Reads, Stores
<1>3. CASE Wakes \/ ObserverReturns
  BY <1>3 DEF Wakes, ObserverReturns
<1>4. CASE Advertises \/ LinkLost
  BY <1>4 DEF Advertises, LinkLost
<1>5. CASE DiscoveryLost
  BY <1>5 DEF DiscoveryLost, Discover, Sent
<1> QED
  BY <1>1, <1>2, <1>3, <1>4, <1>5 DEF OtherStep, Observer

LEMMA FlagsStep ==
    ASSUME FlagsOK, [Next]_vars
    PROVE  FlagsOK'
<1> USE DEF FlagsOK, Moves, Discover, startDiscovery, stopDiscovery, wake,
            busVars, beaconVars, channelVars
<1>1. ASSUME NEW t \in {"loop", "request"}, PauseBegins(t) \/ PauseEnds(t)
      PROVE  FlagsOK'
  <2>1. CASE PauseBegins(t)
    BY <2>1, Zenon DEF PauseBegins
  <2>2. CASE PauseEnds(t)
    BY <2>2, Zenon DEF PauseEnds
  <2> QED
    BY <1>1, <2>1, <2>2
<1>2. CASE Watch
  BY <1>2, Zenon DEF Watch
<1>3. CASE FindsLink \/ TimesOut \/ Leaves \/ StopJoins
  BY <1>3, Zenon DEF FindsLink, TimesOut, Leaves, StopJoins
<1>4. CASE Resumes
  BY <1>4, Zenon DEF Resumes, Resume
<1>5. CASE EnsureBegins \/ Takes
  BY <1>5, Zenon DEF EnsureBegins, Takes
<1>6. ASSUME NEW ok \in BOOLEAN, EnsureEnds(ok)
      PROVE  FlagsOK'
  BY <1>6, Zenon DEF EnsureEnds
<1>7. CASE Woken \/ Roused
  BY <1>7, Zenon DEF Woken, Roused
<1>8. CASE StopBegins \/ StopCloses \/ StopTurnsOff
  BY <1>8, Zenon DEF StopBegins, StopCloses, StopTurnsOff
<1>9. CASE StopEnds
  BY <1>9, Zenon DEF StopEnds
<1>10. CASE AdapterSignal \/ DeviceSignal \/ Reads
  BY <1>10, Zenon DEF AdapterSignal, DeviceSignal, Reads
<1>11. CASE Stores
  BY <1>11, Zenon DEF Stores
<1>12. CASE Wakes \/ ObserverReturns
  BY <1>12, Zenon DEF Wakes, ObserverReturns
<1>13. CASE ConnectBegins \/ Connected \/ GivesUp
  BY <1>13, Zenon DEF ConnectBegins, Connected, GivesUp
<1>14. CASE ScanBegins \/ ScanEnds \/ Quietens
  BY <1>14, Zenon DEF ScanBegins, ScanEnds, Quietens
<1>15. CASE HasTarget \/ Settles \/ AttemptFails \/ Retries
  BY <1>15, Zenon DEF HasTarget, Settles, AttemptFails, Retries
<1>16. CASE Advertises \/ DiscoveryLost \/ LinkLost
  BY <1>16, Zenon DEF Advertises, DiscoveryLost, LinkLost
<1>17. CASE UNCHANGED vars
  BY <1>17 DEF vars
<1> QED
  BY <1>1, <1>2, <1>3, <1>4, <1>5, <1>6, <1>7, <1>8, <1>9, <1>10, <1>11,
     <1>12, <1>13, <1>14, <1>15, <1>16, <1>17 DEF Next, Stop, Observer

LEMMA TypeStep == TypeOK /\ [Next]_vars => TypeOK'
<1>1. TypeOK /\ UNCHANGED vars => TypeOK'
  BY DEF TypeOK, vars, busVars, beaconVars, channelVars
<1> QED
  BY <1>1, WhoSteps, LoopType, RequestType, OtherType

\* Every variable keeps its type.
THEOREM TypeCorrect == Spec => [](TypeOK /\ FlagsOK)
<1>1. Init => TypeOK
  <2>1. ASSUME Init  PROVE pc \in [Thread -> Place]
    <3>1. pc = [t \in Thread |-> IF t = "loop" THEN "absent" ELSE "idle"]
      BY <2>1 DEF Init, Thread
    <3> QED
      BY <3>1 DEF Place
  <2>2. ASSUME Init
        PROVE  pc["loop"] = "absent" /\ pc["request"] = "idle"
    BY <2>2 DEF Init
  <2> QED
    BY <2>1, <2>2 DEF Init, TypeOK, Free, None
<1>2. Init => FlagsOK
  BY Zenon DEF Init, FlagsOK
<1> QED
  BY <1>1, <1>2, TypeStep, FlagsStep, PTL DEF Spec

-----------------------------------------------------------------------------
(* The two locks.                                                          *)

\* A request holds mu from ConnectBegins to its end, the loop only while it
\* pauses a watcher it has just started over a link; discoveryMu is held by
\* whoever is in one of its critical sections, and by nobody else.
LockInv ==
    /\ mu = "request" <=> pc["request"] \in Connecting
    /\ mu = "loop" => pc["loop"] \in {"pause", "pausing"}
    /\ discoveryMu = "loop" <=> pc["loop"] \in {"pausing", "checking", "turningOff"}
    /\ discoveryMu = "request" <=> pc["request"] = "pausing"

LEMMA OtherFootprint ==
    ASSUME OtherStep \/ UNCHANGED vars
    PROVE  UNCHANGED <<mu, discoveryMu, pc>>
BY DEF OtherStep, Observer, AdapterSignal, DeviceSignal, Reads, Stores, Wakes,
       ObserverReturns, Advertises, DiscoveryLost, LinkLost, vars

LEMMA LoopLock ==
    ASSUME TypeOK, LockInv, LoopStep
    PROVE  LockInv'
<1> USE DEF TypeOK, LockInv, Goto, At, Moves, Thread, Serving,
            Stopping, Connecting, Free
<1>1. CASE PauseBegins("loop")
  BY <1>1 DEF PauseBegins, PauseReturns
<1>2. CASE PauseEnds("loop")
  BY <1>2 DEF PauseEnds, PauseReturns
<1>3. CASE Watch
  BY <1>3 DEF Watch
<1>4. CASE FindsLink
  BY <1>4 DEF FindsLink
<1>5. CASE Resumes
  BY <1>5 DEF Resumes, Resume
<1>6. CASE EnsureBegins
  BY <1>6 DEF EnsureBegins
<1>7. ASSUME NEW ok \in BOOLEAN, EnsureEnds(ok)
      PROVE  LockInv'
  BY <1>7 DEF EnsureEnds
<1>8. CASE Takes
  BY <1>8 DEF Takes
<1>9. CASE Woken
  BY <1>9 DEF Woken
<1>10. CASE TimesOut
  BY <1>10 DEF TimesOut
<1>11. CASE Roused
  BY <1>11 DEF Roused
<1>12. CASE Leaves
  BY <1>12 DEF Leaves
<1>13. CASE StopBegins
  BY <1>13 DEF StopBegins
<1>14. CASE StopCloses
  BY <1>14 DEF StopCloses
<1>15. CASE StopJoins
  BY <1>15 DEF StopJoins
<1>16. CASE StopTurnsOff
  BY <1>16 DEF StopTurnsOff
<1>17. CASE StopEnds
  BY <1>17 DEF StopEnds
<1> QED
  BY <1>1, <1>2, <1>3, <1>4, <1>5, <1>6, <1>7, <1>8, <1>9, <1>10, <1>11,
     <1>12, <1>13, <1>14, <1>15, <1>16, <1>17 DEF LoopStep, Stop

LEMMA RequestLock ==
    ASSUME TypeOK, LockInv, RequestStep
    PROVE  LockInv'
<1> USE DEF TypeOK, LockInv, Goto, At, Moves, Thread, Serving,
            Stopping, Connecting, Free
<1>1. CASE PauseBegins("request")
  BY <1>1 DEF PauseBegins, PauseReturns
<1>2. CASE PauseEnds("request")
  BY <1>2 DEF PauseEnds, PauseReturns
<1>3. CASE ConnectBegins
  BY <1>3 DEF ConnectBegins
<1>4. CASE ScanBegins
  BY <1>4 DEF ScanBegins
<1>5. CASE ScanEnds
  BY <1>5 DEF ScanEnds
<1>6. CASE HasTarget
  BY <1>6 DEF HasTarget
<1>7. CASE Quietens
  BY <1>7 DEF Quietens
<1>8. CASE Settles
  BY <1>8 DEF Settles
<1>9. CASE Connected
  BY <1>9 DEF Connected
<1>10. CASE AttemptFails
  BY <1>10 DEF AttemptFails
<1>11. CASE Retries
  BY <1>11 DEF Retries
<1>12. CASE GivesUp
  BY <1>12 DEF GivesUp
<1> QED
  BY <1>1, <1>2, <1>3, <1>4, <1>5, <1>6, <1>7, <1>8, <1>9, <1>10, <1>11,
     <1>12 DEF RequestStep

LEMMA LockStep == TypeOK /\ LockInv /\ [Next]_vars => LockInv'
<1>1. OtherStep \/ UNCHANGED vars => (LockInv => LockInv')
  BY OtherFootprint DEF LockInv
<1> QED
  BY <1>1, WhoSteps, LoopLock, RequestLock

\* session.mu and Watcher.discoveryMu are each held by one goroutine, and for
\* no longer than its critical section.
THEOREM LocksExclude == Spec => []LockInv
<1>1. Init => LockInv
  <2>1. ASSUME Init
        PROVE  pc["loop"] = "absent" /\ pc["request"] = "idle"
    BY <2>1 DEF Init
  <2> QED
    BY <2>1 DEF Init, LockInv, Free, Connecting
<1> QED
  BY <1>1, TypeCorrect, LockStep, PTL DEF Spec

-----------------------------------------------------------------------------
(* A paused watcher holds no advertisement.                                *)

LEMMA LoopPends ==
    ASSUME NothingPendsWhilePaused, LoopStep
    PROVE  NothingPendsWhilePaused'
<1> USE DEF NothingPendsWhilePaused, Moves, beaconVars
<1>1. CASE PauseBegins("loop")
  BY <1>1 DEF PauseBegins, PauseReturns
<1>2. CASE PauseEnds("loop")
  BY <1>2 DEF PauseEnds, PauseReturns
<1>3. CASE Watch
  BY <1>3 DEF Watch
<1>4. CASE FindsLink
  BY <1>4 DEF FindsLink
<1>5. CASE Resumes
  BY <1>5 DEF Resumes, Resume
<1>6. CASE EnsureBegins
  BY <1>6 DEF EnsureBegins
<1>7. ASSUME NEW ok \in BOOLEAN, EnsureEnds(ok)
      PROVE  NothingPendsWhilePaused'
  BY <1>7 DEF EnsureEnds
<1>8. CASE Takes
  BY <1>8 DEF Takes
<1>9. CASE Woken
  BY <1>9 DEF Woken
<1>10. CASE TimesOut
  BY <1>10 DEF TimesOut
<1>11. CASE Roused
  BY <1>11 DEF Roused
<1>12. CASE Leaves
  BY <1>12 DEF Leaves
<1>13. CASE StopBegins
  BY <1>13 DEF StopBegins
<1>14. CASE StopCloses
  BY <1>14 DEF StopCloses
<1>15. CASE StopJoins
  BY <1>15 DEF StopJoins
<1>16. CASE StopTurnsOff
  BY <1>16 DEF StopTurnsOff
<1>17. CASE StopEnds
  BY <1>17 DEF StopEnds
<1> QED
  BY <1>1, <1>2, <1>3, <1>4, <1>5, <1>6, <1>7, <1>8, <1>9, <1>10, <1>11,
     <1>12, <1>13, <1>14, <1>15, <1>16, <1>17 DEF LoopStep, Stop

LEMMA RequestPends ==
    ASSUME NothingPendsWhilePaused, RequestStep
    PROVE  NothingPendsWhilePaused'
<1> USE DEF NothingPendsWhilePaused, Moves, beaconVars
<1>1. CASE PauseBegins("request")
  BY <1>1 DEF PauseBegins, PauseReturns
<1>2. CASE PauseEnds("request")
  BY <1>2 DEF PauseEnds, PauseReturns
<1>3. CASE ConnectBegins
  BY <1>3 DEF ConnectBegins
<1>4. CASE ScanBegins
  BY <1>4 DEF ScanBegins
<1>5. CASE ScanEnds
  BY <1>5 DEF ScanEnds
<1>6. CASE HasTarget
  BY <1>6 DEF HasTarget
<1>7. CASE Quietens
  BY <1>7 DEF Quietens
<1>8. CASE Settles
  BY <1>8 DEF Settles
<1>9. CASE Connected
  BY <1>9 DEF Connected
<1>10. CASE AttemptFails
  BY <1>10 DEF AttemptFails
<1>11. CASE Retries
  BY <1>11 DEF Retries
<1>12. CASE GivesUp
  BY <1>12 DEF GivesUp
<1> QED
  BY <1>1, <1>2, <1>3, <1>4, <1>5, <1>6, <1>7, <1>8, <1>9, <1>10, <1>11,
     <1>12 DEF RequestStep

LEMMA OtherPends ==
    ASSUME NothingPendsWhilePaused, OtherStep
    PROVE  NothingPendsWhilePaused'
<1> USE DEF NothingPendsWhilePaused, beaconVars, channelVars
<1>1. CASE AdapterSignal
  BY <1>1 DEF AdapterSignal
<1>2. CASE DeviceSignal
  BY <1>2 DEF DeviceSignal
<1>3. CASE Reads
  BY <1>3 DEF Reads
<1>4. CASE Stores
  BY <1>4 DEF Stores
<1>5. CASE Wakes
  BY <1>5 DEF Wakes
<1>6. CASE ObserverReturns
  BY <1>6 DEF ObserverReturns
<1>7. CASE Advertises
  BY <1>7 DEF Advertises
<1>8. CASE DiscoveryLost
  BY <1>8 DEF DiscoveryLost
<1>9. CASE LinkLost
  BY <1>9 DEF LinkLost
<1> QED
  BY <1>1, <1>2, <1>3, <1>4, <1>5, <1>6, <1>7, <1>8, <1>9 DEF OtherStep,
     Observer

LEMMA PendsStep ==
    NothingPendsWhilePaused /\ [Next]_vars => NothingPendsWhilePaused'
<1>1. NothingPendsWhilePaused /\ UNCHANGED vars => NothingPendsWhilePaused'
  BY DEF NothingPendsWhilePaused, vars, beaconVars
<1> QED
  BY <1>1, WhoSteps, LoopPends, RequestPends, OtherPends

\* What the observer was still handling when a connect paused the watcher is
\* dropped, whichever of its two looks at the pause comes first (scan.go:286
\* and 307).
THEOREM PendsNothing == Spec => []NothingPendsWhilePaused
<1>1. Init => NothingPendsWhilePaused
  BY DEF Init, NothingPendsWhilePaused
<1> QED
  BY <1>1, PendsStep, PTL DEF Spec

-----------------------------------------------------------------------------
(* A connect is left alone, and so is a link.                              *)

\* While a request is past its Pause the watcher stays paused, since the loop
\* resumes it under mu only; a loop that serves a link has paused it or is
\* about to; and the loop is inside ensureDiscovering only of a watcher that
\* is not paused, since Pause needs discoveryMu.
QuietInv ==
    /\ pc["request"] # "idle" => ~link
    /\ pc["loop"] = "checking" => ~paused
    /\ pc["loop"] \in Serving =>
         /\ pc["request"] \in Connecting \ {"pause"} => paused
         /\ link => paused \/ pc["loop"] = "pause"
    /\ pc["request"] = "connect" => ~discovering

LEMMA LoopQuiet ==
    ASSUME TypeOK, LockInv, QuietInv, LoopStep
    PROVE  QuietInv'
<1> USE DEF TypeOK, LockInv, QuietInv, Goto, At, Moves, Thread,
            Serving, Stopping, Connecting, Free, startDiscovery,
            stopDiscovery, Discover, busVars, beaconVars, channelVars
<1>1. CASE PauseBegins("loop")
  BY <1>1 DEF PauseBegins, PauseReturns
<1>2. CASE PauseEnds("loop")
  BY <1>2 DEF PauseEnds, PauseReturns
<1>3. CASE Watch
  <2>1. pc["request"] = "idle" /\ UNCHANGED link
    BY <1>3 DEF Watch
  <2>2. \/ UNCHANGED <<pc, paused>>
        \/ Goto("loop", "tick") /\ ~link
        \/ Goto("loop", "pause")
    BY <1>3 DEF Watch
  <2>3. pc'["request"] = "idle"
    BY <2>1, <2>2
  <2> QED
    BY <2>1, <2>2, <2>3
<1>4. CASE FindsLink
  BY <1>4 DEF FindsLink
<1>5. CASE Resumes
  BY <1>5 DEF Resumes, Resume
<1>6. CASE EnsureBegins
  BY <1>6 DEF EnsureBegins
<1>7. ASSUME NEW ok \in BOOLEAN, EnsureEnds(ok)
      PROVE  QuietInv'
  BY <1>7 DEF EnsureEnds
<1>8. CASE Takes
  BY <1>8 DEF Takes
<1>9. CASE Woken
  BY <1>9 DEF Woken
<1>10. CASE TimesOut
  BY <1>10 DEF TimesOut
<1>11. CASE Roused
  BY <1>11 DEF Roused
<1>12. CASE Leaves
  BY <1>12 DEF Leaves
<1>13. CASE StopBegins
  BY <1>13 DEF StopBegins
<1>14. CASE StopCloses
  BY <1>14 DEF StopCloses
<1>15. CASE StopJoins
  BY <1>15 DEF StopJoins
<1>16. CASE StopTurnsOff
  BY <1>16 DEF StopTurnsOff
<1>17. CASE StopEnds
  BY <1>17 DEF StopEnds
<1> QED
  BY <1>1, <1>2, <1>3, <1>4, <1>5, <1>6, <1>7, <1>8, <1>9, <1>10, <1>11,
     <1>12, <1>13, <1>14, <1>15, <1>16, <1>17 DEF LoopStep, Stop

LEMMA RequestQuiet ==
    ASSUME TypeOK, LockInv, QuietInv, RequestStep
    PROVE  QuietInv'
<1> USE DEF TypeOK, LockInv, QuietInv, Goto, At, Moves, Thread,
            Serving, Stopping, Connecting, Free, startDiscovery,
            stopDiscovery, Discover, busVars, beaconVars, channelVars
<1>1. CASE PauseBegins("request")
  BY <1>1 DEF PauseBegins, PauseReturns
<1>2. CASE PauseEnds("request")
  BY <1>2 DEF PauseEnds, PauseReturns
<1>3. CASE ConnectBegins
  BY <1>3 DEF ConnectBegins
<1>4. CASE ScanBegins
  BY <1>4 DEF ScanBegins
<1>5. CASE ScanEnds
  BY <1>5 DEF ScanEnds
<1>6. CASE HasTarget
  BY <1>6 DEF HasTarget
<1>7. CASE Quietens
  BY <1>7 DEF Quietens
<1>8. CASE Settles
  BY <1>8 DEF Settles
<1>9. CASE Connected
  BY <1>9 DEF Connected
<1>10. CASE AttemptFails
  BY <1>10 DEF AttemptFails
<1>11. CASE Retries
  BY <1>11 DEF Retries
<1>12. CASE GivesUp
  BY <1>12 DEF GivesUp
<1> QED
  BY <1>1, <1>2, <1>3, <1>4, <1>5, <1>6, <1>7, <1>8, <1>9, <1>10, <1>11,
     <1>12 DEF RequestStep

LEMMA OtherQuiet ==
    ASSUME TypeOK, LockInv, QuietInv, OtherStep
    PROVE  QuietInv'
<1> USE DEF TypeOK, LockInv, QuietInv, Goto, At, Moves, Thread,
            Serving, Stopping, Connecting, Free, startDiscovery,
            stopDiscovery, Discover, busVars, beaconVars, channelVars
<1>1. CASE AdapterSignal
  BY <1>1 DEF AdapterSignal
<1>2. CASE DeviceSignal
  BY <1>2 DEF DeviceSignal
<1>3. CASE Reads
  BY <1>3 DEF Reads
<1>4. CASE Stores
  BY <1>4 DEF Stores
<1>5. CASE Wakes
  BY <1>5 DEF Wakes
<1>6. CASE ObserverReturns
  BY <1>6 DEF ObserverReturns
<1>7. CASE Advertises
  BY <1>7 DEF Advertises
<1>8. CASE DiscoveryLost
  BY <1>8 DEF DiscoveryLost
<1>9. CASE LinkLost
  BY <1>9 DEF LinkLost
<1> QED
  BY <1>1, <1>2, <1>3, <1>4, <1>5, <1>6, <1>7, <1>8, <1>9 DEF OtherStep,
     Observer

LEMMA QuietStep ==
    TypeOK /\ LockInv /\ QuietInv /\ [Next]_vars => QuietInv'
<1>1. QuietInv /\ UNCHANGED vars => QuietInv'
  BY DEF QuietInv, vars, busVars, beaconVars
<1> QED
  BY <1>1, WhoSteps, LoopQuiet, RequestQuiet, OtherQuiet

\* Nothing that the loop does reaches a connect: a request that is past its
\* Pause finds the watcher paused until it ends.
THEOREM ConnectsAreLeftAlone == Spec => []QuietInv
<1>1. Init => QuietInv
  <2>1. ASSUME Init
        PROVE  pc["loop"] = "absent" /\ pc["request"] = "idle"
    BY <2>1 DEF Init
  <2> QED
    BY <2>1 DEF Init, QuietInv, Serving
<1> QED
  BY <1>1, TypeCorrect, LocksExclude, QuietStep, PTL DEF Spec

LEMMA DiscoveryStarts ==
    ASSUME Next, ~discovering, discovering'
    PROVE  (\E ok \in BOOLEAN : EnsureEnds(ok)) \/ Watch \/ ScanBegins
<1> USE DEF Moves, Discover, stopDiscovery, busVars
<1>1. ~PauseBegins("loop") /\ ~PauseBegins("request")
  BY DEF PauseBegins
<1>2. ~PauseEnds("loop") /\ ~PauseEnds("request")
  BY DEF PauseEnds
<1>3. ~FindsLink /\ ~Resumes /\ ~EnsureBegins /\ ~Takes /\ ~Woken /\ ~TimesOut
  BY DEF FindsLink, Resumes, EnsureBegins, Takes, Woken, TimesOut
<1>4. ~Roused /\ ~Leaves /\ ~StopBegins /\ ~StopCloses /\ ~StopJoins
  BY DEF Roused, Leaves, StopBegins, StopCloses, StopJoins
<1>5. ~StopTurnsOff /\ ~StopEnds /\ ~AdapterSignal /\ ~DeviceSignal
  BY DEF StopTurnsOff, StopEnds, AdapterSignal, DeviceSignal
<1>6. ~Reads /\ ~Stores /\ ~Wakes /\ ~ObserverReturns /\ ~ConnectBegins
  BY DEF Reads, Stores, Wakes, ObserverReturns, ConnectBegins
<1>7. ~ScanEnds /\ ~HasTarget /\ ~Quietens /\ ~Settles /\ ~Connected
  BY DEF ScanEnds, HasTarget, Quietens, Settles, Connected
<1>8. ~AttemptFails /\ ~Retries /\ ~GivesUp
  BY DEF AttemptFails, Retries, GivesUp
<1>9. ~Advertises /\ ~DiscoveryLost /\ ~LinkLost
  BY DEF Advertises, DiscoveryLost, LinkLost
<1> QED
  BY <1>1, <1>2, <1>3, <1>4, <1>5, <1>6, <1>7, <1>8, <1>9
     DEF Next, Stop, Observer

LEMMA QuietLink ==
    ASSUME TypeOK, LockInv, QuietInv, Next, link, ~discovering, discovering'
    PROVE  At("loop", "absent")
<1>1. (\E ok \in BOOLEAN : EnsureEnds(ok)) \/ Watch \/ ScanBegins
  BY DiscoveryStarts
<1>2. ~ScanBegins
  BY DEF ScanBegins, QuietInv, At
<1>3. ASSUME NEW ok \in BOOLEAN, EnsureEnds(ok)
      PROVE  FALSE
  BY <1>3 DEF EnsureEnds, QuietInv, At, Serving
<1> QED
  BY <1>1, <1>2, <1>3 DEF Watch

\* Device1.Connect is not called over a running discovery, and over a link
\* none begins but the one of a watcher that is being started.
THEOREM GattLeftQuiet == Spec => GattIsLeftQuiet
<1>1. TypeOK /\ LockInv /\ QuietInv /\ QuietInv' /\ [Next]_vars =>
        [ /\ pc'["request"] = "connect" => ~discovering'
          /\ link /\ ~discovering /\ discovering' => At("loop", "absent") ]_vars
  BY QuietLink DEF QuietInv
<1> QED
  BY <1>1, TypeCorrect, LocksExclude, ConnectsAreLeftAlone, PTL
     DEF Spec, GattIsLeftQuiet

-----------------------------------------------------------------------------
(* No wakeup is lost.                                                      *)

\* What a Wait or a rest goes to sleep for has left its token, or a signal
\* that will, since before it looked: the tokens are sent after what they
\* announce, and taken before the loop looks again.
WakeInv ==
    /\ pc["loop"] \in {"take", "select"} /\ ~paused /\ ~discovering =>
          updates \/ "adapter" \in signals
    /\ pc["loop"] = "select" /\ pending # None => updates \/ observer = "waking"
    /\ pc["loop"] = "rest" /\ pending = "strong" => nearUpdate

LEMMA LoopWakes ==
    ASSUME TypeOK, WakeInv, LoopStep
    PROVE  WakeInv'
<1> USE DEF TypeOK, WakeInv, Goto, At, Moves, Thread, Serving,
            Stopping, Connecting, Strength, Free, None, startDiscovery,
            stopDiscovery, Discover, Sent, subscribed, wake, busVars,
            beaconVars, channelVars
<1>1. CASE PauseBegins("loop")
  BY <1>1 DEF PauseBegins, PauseReturns
<1>2. CASE PauseEnds("loop")
  BY <1>2 DEF PauseEnds, PauseReturns
<1>3. CASE Watch
  BY <1>3 DEF Watch
<1>4. CASE FindsLink
  BY <1>4 DEF FindsLink
<1>5. CASE Resumes
  BY <1>5 DEF Resumes, Resume
<1>6. CASE EnsureBegins
  BY <1>6 DEF EnsureBegins
<1>7. ASSUME NEW ok \in BOOLEAN, EnsureEnds(ok)
      PROVE  WakeInv'
  BY <1>7 DEF EnsureEnds
<1>8. CASE Takes
  BY <1>8 DEF Takes
<1>9. CASE Woken
  BY <1>9 DEF Woken
<1>10. CASE TimesOut
  BY <1>10 DEF TimesOut
<1>11. CASE Roused
  BY <1>11 DEF Roused
<1>12. CASE Leaves
  BY <1>12 DEF Leaves
<1>13. CASE StopBegins
  BY <1>13 DEF StopBegins
<1>14. CASE StopCloses
  BY <1>14 DEF StopCloses
<1>15. CASE StopJoins
  BY <1>15 DEF StopJoins
<1>16. CASE StopTurnsOff
  BY <1>16 DEF StopTurnsOff
<1>17. CASE StopEnds
  BY <1>17 DEF StopEnds
<1> QED
  BY <1>1, <1>2, <1>3, <1>4, <1>5, <1>6, <1>7, <1>8, <1>9, <1>10, <1>11,
     <1>12, <1>13, <1>14, <1>15, <1>16, <1>17 DEF LoopStep, Stop

LEMMA RequestWakes ==
    ASSUME TypeOK, WakeInv, RequestStep
    PROVE  WakeInv'
<1> USE DEF TypeOK, WakeInv, Goto, At, Moves, Thread, Serving,
            Stopping, Connecting, Strength, Free, None, startDiscovery,
            stopDiscovery, Discover, Sent, subscribed, wake, busVars,
            beaconVars, channelVars
<1>1. CASE PauseBegins("request")
  BY <1>1 DEF PauseBegins, PauseReturns
<1>2. CASE PauseEnds("request")
  BY <1>2 DEF PauseEnds, PauseReturns
<1>3. CASE ConnectBegins
  BY <1>3 DEF ConnectBegins
<1>4. CASE ScanBegins
  BY <1>4 DEF ScanBegins
<1>5. CASE ScanEnds
  BY <1>5 DEF ScanEnds
<1>6. CASE HasTarget
  BY <1>6 DEF HasTarget
<1>7. CASE Quietens
  BY <1>7 DEF Quietens
<1>8. CASE Settles
  BY <1>8 DEF Settles
<1>9. CASE Connected
  BY <1>9 DEF Connected
<1>10. CASE AttemptFails
  BY <1>10 DEF AttemptFails
<1>11. CASE Retries
  BY <1>11 DEF Retries
<1>12. CASE GivesUp
  BY <1>12 DEF GivesUp
<1> QED
  BY <1>1, <1>2, <1>3, <1>4, <1>5, <1>6, <1>7, <1>8, <1>9, <1>10, <1>11,
     <1>12 DEF RequestStep

LEMMA OtherWakes ==
    ASSUME TypeOK, WakeInv, OtherStep
    PROVE  WakeInv'
<1> USE DEF TypeOK, WakeInv, Goto, At, Moves, Thread, Serving,
            Stopping, Connecting, Strength, Free, None, startDiscovery,
            stopDiscovery, Discover, Sent, subscribed, wake, busVars,
            beaconVars, channelVars
<1>1. CASE AdapterSignal
  BY <1>1 DEF AdapterSignal
<1>2. CASE DeviceSignal
  BY <1>2 DEF DeviceSignal
<1>3. CASE Reads
  BY <1>3 DEF Reads
<1>4. CASE Stores
  BY <1>4 DEF Stores
<1>5. CASE Wakes
  BY <1>5 DEF Wakes
<1>6. CASE ObserverReturns
  BY <1>6 DEF ObserverReturns
<1>7. CASE Advertises
  BY <1>7 DEF Advertises
<1>8. CASE DiscoveryLost
  BY <1>8 DEF DiscoveryLost
<1>9. CASE LinkLost
  BY <1>9 DEF LinkLost
<1> QED
  BY <1>1, <1>2, <1>3, <1>4, <1>5, <1>6, <1>7, <1>8, <1>9 DEF OtherStep,
     Observer

LEMMA WakeStep ==
    TypeOK /\ WakeInv /\ [Next]_vars => WakeInv'
<1>1. WakeInv /\ UNCHANGED vars => WakeInv'
  BY DEF WakeInv, vars, busVars, beaconVars, channelVars
<1> QED
  BY <1>1, WhoSteps, LoopWakes, RequestWakes, OtherWakes

\* A Wait asleep in its select will be woken for an advertisement it may
\* return and for a discovery that stopped; a rest for a strong one.
THEOREM WakesForAll == Spec => []NoWakeupIsLost
<1>1. Init => WakeInv
  <2>1. ASSUME Init
        PROVE  pc["loop"] = "absent"
    BY <2>1 DEF Init
  <2> QED
    BY <2>1 DEF Init, WakeInv
<1>2. WakeInv => NoWakeupIsLost
  BY DEF WakeInv, NoWakeupIsLost, At
<1> QED
  BY <1>1, <1>2, TypeCorrect, WakeStep, PTL DEF Spec

=============================================================================
