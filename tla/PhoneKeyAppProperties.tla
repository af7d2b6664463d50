------------------------ MODULE PhoneKeyAppProperties -----------------------
(***************************************************************************)
(* What the application promises about the phone key.                      *)
(***************************************************************************)
EXTENDS PhoneKeyApp

\* Whenever the worker is free the phone is kept awake exactly while the core
\* counts the phone-key service as started: neither does it sleep with a service
\* it believes to run, nor stay awake for one that ended, whatever is in the
\* queue (onPhoneKeyStarted, onPhoneKeyEvent, KeepAlive).
AwakeWhileServing == up /\ Free => (keepAwake <=> started)

\* Nothing is under way or waiting to be told.
Settled ==
    /\ up /\ Free /\ events = <<>> /\ unsaid = {}
    /\ conn \notin {"gone", "closing"}

\* phone-key-events.md: presence_near means that "an authenticated phone-key
\* session was established"; "Phone key connected" is shown for it, and the
\* cover offers its commands by that text.  It is written once the lock is let
\* go, the loss of that session under the lock, so possibly before it.
ConnectedIsTrue == Settled /\ status = "connected" => mode = "near"

-----------------------------------------------------------------------------
(* Liveness.                                                               *)

\* The worker and its child go on.  Deadlines end every wait for the child.
\* Qt serves its timers among the other events, so the poll gets its turn.
\* A presence-start that is tried again and again succeeds: a child is
\* spawned, answers, and is heard.
StartSpawns  == SendSpawns /\ conn' = "up" /\ pc[gate] = "presence-start"
StartServed  == ChildServes /\ pc[gate] = "presence-start" /\ wire' = "ok"
StartReplied == StartEnds(Worker) /\ started'
AppFairness ==
    /\ WF_appVars(WorkerSteps)
    /\ WF_appVars(Launch)
    /\ SF_appVars(PollTick)
    /\ WF_appVars(conn = "gone" /\ ReaderHangsUp /\ UNCHANGED uiVars)
    /\ WF_appVars(ReaderReports /\ UNCHANGED uiVars)
    /\ WF_appVars(LoopReports /\ UNCHANGED uiVars)
    /\ WF_appVars(RetryComesDue /\ UNCHANGED uiVars)
    /\ SF_appVars(StartSpawns /\ UNCHANGED uiVars)
    /\ SF_appVars(StartServed /\ UNCHANGED uiVars)
    /\ SF_appVars(StartReplied /\ UNCHANGED uiVars)
FairAppSpec == AppSpec /\ AppFairness

\* A paired phone key comes up, and comes back after every failure, failed
\* pairing, change of settings, resume and restart: whatever the user calls,
\* there is an event, a retry or a refresh that starts it.
Undisturbed == <>[][~ChildDies]_appVars
PairedKeyRuns ==
    Undisturbed =>
        (up /\ cfg.paired /\ priv ~> started \/ ~cfg.paired \/ ~up)

\* When the child no longer maintains presence, because its loop ended, it died
\* or an operation stopped it, the phone is let go to sleep or a loop is back,
\* whether the core knows of the loss yet or not.
LossIsShown ==
    up /\ keepAwake /\ mode = "off" ~> ~keepAwake \/ mode # "off" \/ ~up
=============================================================================
