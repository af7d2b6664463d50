----------------------- MODULE SessionChildProperties -----------------------
(***************************************************************************)
(* What the tesla-session child promises, and one place where a comment    *)
(* promises more than the code keeps.                                      *)
(***************************************************************************)
EXTENDS SessionChild

-----------------------------------------------------------------------------
(* Safety.                                                                 *)

\* Whenever mu is free, a cached link carries an established session and its
\* auth tap, and no other link has one: a link that never authenticated (that
\* of a pair request) is not left for a later command (ensureConnectedLocked).
CachedLinkIsAuthenticated ==
    Free => /\ tap = car
            /\ car # None <=> sessions # {}

\* A responder only answers an AuthenticationRequest while the link the
\* request came in on is the live one, never on its replacement, however long
\* it waited for mu behind a reconnect (authResponderLoop).
AnswersOnOwnLink ==
    [][\A l \in Links :
         responder[l] = "hold" /\ responder'[l] = "listen" => car = l]_vars

\* Presence mode is on exactly while a loop that nobody cancelled runs, and it
\* is the latest one: the deferred cleanup of a cancelled loop never turns off
\* the mode that a later presence-start turned on (presenceLoop).
Running(g) == pc[g] \notin {"new", "stopped", "done"}
OnePresenceLoop ==
    \A g \in Loops :
      /\ presence = g => generation = g
      /\ presence = g <=> Running(g) /\ g \notin cancelled

\* A link is only ever opened for the request being served or by the loop of
\* the current presence mode, not by a loop presence-stop has cancelled.
CancelledLoopNeverConnects ==
    [][links' # links => mu \in {Requester, presence}]_vars

\* While bluez.Connect runs, nothing scans: not the loop's own watcher, which
\* resumes and rediscovers without mu (Watcher.Resume, Wait, ensureDiscovering).
QuietConnect == phase = "gatt" => ~discovering

\* Departure only ever ends a visit whose link is already gone: it cannot cut
\* off a link that a command opened while the loop was waiting for a beacon.
DepartureSparesLinks ==
    \A g \in Loops : pc[g] = "depart" /\ g \notin cancelled => car = None

\* presence_inside is announced for a visit that has settled, and that visit
\* is still going on: tearing its link down forgets it, so that the next visit
\* is announced again (emitInsideLocked, teardownLocked).
InsideBelongsToVisit ==
    insideEmitted => car # None /\ settled /\ presence # None

\* Without presence mode a cached link has its idle timer running, or an idle
\* callback waiting for mu: no interleaving of a stopping loop with commands
\* leaves a link open that nothing will ever close (resetIdleTimerLocked).
\* For the requests other than navigate, which returns early when it fails.
IdleTimerGuardsLink ==
    Free /\ car # None /\ presence = None => idle \/ fired > 0

\* The scanner runs only while some presence loop has a watcher: the adapter
\* is not left scanning once the loops have returned (Watcher.Stop).
Watching(g) == pc[g] \notin {"new", "init", "watch", "exit", "stopped", "done"}
ScannerNeedsLoop == discovering => \E g \in Loops : Watching(g)

-----------------------------------------------------------------------------
(* Liveness, under the fairness of FairSpec.                               *)

\* In presence mode a link that dropped is torn down, so that the car can be
\* connected to again (the Dropped() and Connected=false branches).
DroppedLinkIsReleased ==
    \A l \in Links :
      presence # None /\ car = l /\ ~linkUp ~> car # l \/ presence = None

\* The parent is not left believing in a session that is gone: some later
\* event corrects it, unless the car is reconnected or presence mode ends.
StatusIsCorrected ==
    \A g \in Loops :
      presence = g /\ told = "near" /\ car = None
        ~> told # "near" \/ car # None \/ presence # g

\* Every request is answered, whatever presence loop, responders and idle
\* callbacks do with mu.
RequestIsAnswered == request \in RequestKind ~> request \notin RequestKind

\* A cancelled presence loop returns.
CancelledLoopReturns ==
    \A g \in Loops :
      g \in cancelled ~> pc[g] = "done" \/ request = "closed"

\* The responder of a link that is gone returns, whether it was waiting for a
\* datagram or for mu with a request in hand.
ResponderReturns ==
    \A l \in Links :
      tap # l /\ responder[l] \in {"listen", "hold"} ~> responder[l] = "done"

-----------------------------------------------------------------------------
(* What a comment says, and the code does not keep.                        *)

\* main.go: presenceLoop "runs until ctx is cancelled by stopPresenceLocked".
\* A cancelled loop can still close the link of its successor.
Acts(g) == pc'[g] # pc[g]
CancelledLoopClosesNothing ==
    [][car # None /\ car' = None =>
         \A g \in cancelled : ~Acts(g)]_vars
=============================================================================
