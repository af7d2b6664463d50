-------------------------- MODULE PhoneKeyAppProofs --------------------------
(***************************************************************************)
(* The application keeps the phone awake exactly while the core counts its *)
(* phone-key service as started.  The application only makes steps of the  *)
(* core, so that what PhoneKeyEventProofs says of the core holds of it.    *)
(***************************************************************************)
EXTENDS PhoneKeyAppProperties, PhoneKeyEventProofs

\* What the one caller of the core is at, doing, and about to return.
at     == pc[Worker]
doing  == op[Worker]
result == out[Worker]

\* Each operation passes through positions of its own.
OpAt ==
    /\ at = "idle" <=> doing = "none"
    /\ at \in {"stop", "presence-stop", "stopped"} =>
         doing \in {"set_config", "replace_key", "pair", "drop"}
    /\ at \in {"start", "presence-start"} =>
         doing \in {"start", "poll", "pair", "resume", "set_config"}
    /\ at = "pollGate" => doing = "poll"
    /\ at \in {"pair", "savePaired"} => doing = "pair"
    /\ at \in {"keygen", "writePub"} => doing \in {"generate_key", "replace_key"}
    /\ at = "command" => doing \in {"run", "share"}
    /\ at = "returned" => doing # "drop"

\* A service that was started is wanted, until its stop is under way, and has
\* no retry.
StartedWanted ==
    started => retry = "none" /\ (enabled \/ at = "presence-stop")

\* A request that was never sent leaves no child, nor does a process.
LeavesNoChild == wire = "failed" \/ ~up => conn = "none"

\* News in the queue, or about to be written, is that of a service that may
\* still be served.
News == NewsQueued \/ "near" \in unsaid
NewsEligible == up /\ News => Eligible

\* What the worker does next is what follows on its last call.
TodoFollows ==
    /\ todo = "refresh" => doing \in {"none", "start"}
    /\ todo = "poll" => doing \in {"none", "poll"}

\* An operation that a refresh follows, or nothing follows any more.
Refreshing ==
    \/ todo = "refresh" /\ at = "idle"
    \/ doing \in {"generate_key", "replace_key", "pair", "resume", "drop"}
    \/ doing = "set_config" /\ (at # "returned" \/ result = "ok")
Restarting == at \in {"start", "presence-start"}
Telling ==
    /\ at = "returned"
    /\ \/ doing = "start"
       \/ doing = "poll" /\ result \in {"stopped", "restarted"}

\* What start and poll return is what has become of the service.
ResultIsTrue ==
    at = "returned" =>
      /\ doing = "start" => (result = "ok" <=> started)
      /\ doing = "poll" /\ result \in {"near", "restarted"} => started
      /\ doing = "poll" /\ result = "stopped" => ~started

\* News is left in the queue only of a service that runs, or that is about to
\* be started again: "near" is not taken for one that ended, however late it is
\* written.
NewsIsServed == up /\ News /\ ~Refreshing /\ ~Restarting => started

\* TeslaClient knows of the service unless a refresh or an answer is to tell it.
ClientKnows ==
    up /\ ~Refreshing /\ ~Restarting /\ ~Telling => (keepAwake <=> started)

AInv ==
    /\ OpAt /\ StartedWanted /\ LeavesNoChild /\ NewsEligible
    /\ TodoFollows /\ ResultIsTrue /\ NewsIsServed /\ ClientKnows

-----------------------------------------------------------------------------
(* AInv is inductive: one lemma for each part.                             *)

\* There is but one caller.
LEMMA OnlyWorker == Worker \in Callers /\ \A c \in Callers : c = Worker
BY OneWorker

\* The steps of the application: a call, what goes on of one, the rest of the
\* core, and those of TeslaClient's own.
TakesCall ==
    /\ Free
    /\ \/ \E o \in {"run", "share"} : RunBegins(Worker, o)
       \/ GenerateKeyBegins(Worker) \/ ReplaceKeyBegins(Worker)
       \/ SetConfigBegins(Worker) \/ PairBegins(Worker)
    /\ UNCHANGED uiVars
Polls  == (Free \/ todo = "poll") /\ PollBegins(Worker) /\ UNCHANGED uiVars
Goes   == GoesOn(Worker) /\ UNCHANGED uiVars
Others == (Client \/ ChildSteps \/ RetryComesDue \/ Crash) /\ UNCHANGED uiVars

LEMMA AppSteps ==
    ASSUME TypeOK, AppNext
    PROVE  \/ TakesCall \/ Polls \/ Goes \/ Others
           \/ handleResume \/ shutdown \/ refreshPhoneKeyState \/ CallReturns
           \/ Launch \/ Suspends \/ Activates
<1>1. CASE UserCall
  <2>1. op'[Worker] \notin {"drop", "resume", "start"}
    BY <1>1 DEF UserCall, UserCalls
  <2>2. op \in [Callers -> Operation \cup {"none"}]
    BY DEF TypeOK, CallerType
  <2>3. ~DropBegins(Worker) /\ ~ResumeBegins(Worker) /\ ~StartBegins(Worker)
    BY <2>1, <2>2, OnlyWorker DEF DropBegins, Enter, ResumeBegins, StartBegins
  <2> QED
    BY <1>1, <2>3 DEF UserCall, Begins, TakesCall, Polls
<1>2. CASE PollTick \/ PollAgain
  BY <1>2 DEF PollTick, PollAgain, Polls
<1>3. CASE WorkerSteps
  <2>1. CASE PollAgain
    BY <2>1 DEF PollAgain, Polls
  <2> QED
    BY <1>3, <2>1 DEF WorkerSteps, Goes, Others
<1> QED
  BY <1>1, <1>2, <1>3 DEF AppNext, Others

\* Every operation goes through its own positions.
LEMMA OpAtKept ==
    ASSUME EInv, EInv', AInv, AppNext
    PROVE  OpAt'
<1>1. ASSUME Free, \E o \in {"run", "share"} : RunBegins(Worker, o),
             UNCHANGED uiVars
      PROVE  OpAt'
  BY <1>1, OnlyWorker, GroupsUnchanged DEF RunBegins, Enter, GoTo, Refuse,
     OpAt, EInv, IInv, AInv, at, doing, TypeOK, CallerType
<1>2. ASSUME Free, GenerateKeyBegins(Worker), UNCHANGED uiVars
      PROVE  OpAt'
  BY <1>2, OnlyWorker, GroupsUnchanged DEF GenerateKeyBegins, Refuse, GoTo,
     Enter, OpAt, EInv, IInv, AInv, at, doing, TypeOK, CallerType
<1>3. ASSUME Free, ReplaceKeyBegins(Worker), UNCHANGED uiVars
      PROVE  OpAt'
  BY <1>3, OnlyWorker, GroupsUnchanged DEF ReplaceKeyBegins, Enter, GoTo,
     Refuse, OpAt, EInv, IInv, AInv, at, doing, TypeOK, CallerType
<1>4. ASSUME Free, SetConfigBegins(Worker), UNCHANGED uiVars
      PROVE  OpAt'
  BY <1>4, OnlyWorker, GroupsUnchanged DEF SetConfigBegins, Enter, GoTo,
     Refuse, OpAt, EInv, IInv, AInv, at, doing, TypeOK, CallerType
<1>5. ASSUME Free, PairBegins(Worker), UNCHANGED uiVars
      PROVE  OpAt'
  BY <1>5, OnlyWorker, GroupsUnchanged DEF PairBegins, Refuse, GoTo, Enter,
     OpAt, EInv, IInv, AInv, at, doing, TypeOK, CallerType
<1>6. ASSUME Free \/ todo = "poll", PollBegins(Worker), UNCHANGED uiVars
      PROVE  OpAt'
  BY <1>6, OnlyWorker, GroupsUnchanged DEF PollBegins, GoTo, OpAt, EInv,
     IInv, AInv, at, doing, TypeOK, CallerType
<1>7. CASE handleResume \/ shutdown \/ refreshPhoneKeyState
  BY <1>7, OnlyWorker, GroupsUnchanged DEF handleResume, ResumeBegins, GoTo,
     shutdown, DropBegins, Enter, refreshPhoneKeyState, StartBegins, OpAt,
     EInv, IInv, AInv, at, doing, TypeOK, CallerType
<1>8. CASE CallReturns
  BY <1>8, OnlyWorker, GroupsUnchanged DEF CallReturns, Returns, GoTo, OpAt,
     EInv, IInv, AInv, at, doing, TypeOK, CallerType
<1>9. CASE Launch
  BY <1>9, OnlyWorker, GroupsUnchanged DEF Launch, Boot, OpAt, AInv, at,
     doing
<1>10. CASE Suspends \/ Activates
  <2>1. UNCHANGED <<up, cfg, priv, started, enabled, retry, wire, conn, events, unsaid>>
    BY <1>10 DEF Suspends, Activates, vars, diskVars, serviceVars, childVars
  <2>2. UNCHANGED <<pc, op, out, todo, keepAwake>>
    BY <1>10 DEF Suspends, Activates, vars, callerVars
  <2> QED
    BY <2>1, <2>2 DEF AInv, OpAt, at, doing
<1>11. CASE (RunEnds(Worker) \/ KeygenEnds(Worker) \/ PairAnswered(Worker))
           /\ UNCHANGED uiVars
  BY <1>11, OnlyWorker, GroupsUnchanged DEF RunEnds, Return, GoTo,
     KeygenEnds, PairAnswered, OpAt, EInv, IInv, AInv, at, doing, TypeOK,
     CallerType
<1>12. CASE (Stop(Worker) \/ StopEnds(Worker)) /\ UNCHANGED uiVars
  BY <1>12, OnlyWorker, GroupsUnchanged DEF Stop, GoTo, StopEnds, OpAt,
     EInv, IInv, AInv, at, doing, TypeOK, CallerType
<1>13. CASE (SetConfigStopped(Worker) \/ ReplaceKeyStopped(Worker) \/
           PairStopped(Worker)) /\ UNCHANGED uiVars
  BY <1>13, OnlyWorker, GroupsUnchanged DEF SetConfigStopped, GoTo, Return,
     ReplaceKeyStopped, PairStopped, OpAt, EInv, IInv, AInv, at, doing, TypeOK,
     CallerType
<1>14. CASE (WritePub(Worker) \/ SavePaired(Worker)) /\ UNCHANGED uiVars
  BY <1>14, OnlyWorker, GroupsUnchanged DEF WritePub, Return, GoTo,
     SavePaired, OpAt, EInv, IInv, AInv, at, doing, TypeOK, CallerType
<1>15. CASE StartChecks(Worker) /\ UNCHANGED uiVars
  BY <1>15, OnlyWorker, GroupsUnchanged DEF StartChecks, StartReturns,
     Return, GoTo, OpAt, EInv, IInv, AInv, at, doing, TypeOK, CallerType
<1>16. CASE StartEnds(Worker) /\ UNCHANGED uiVars
  BY <1>16, OnlyWorker, GroupsUnchanged DEF StartEnds, StartReturns, Return,
     GoTo, OpAt, EInv, IInv, AInv, at, doing, TypeOK, CallerType
<1>17. CASE PollRestarts(Worker) /\ UNCHANGED uiVars
  BY <1>17, OnlyWorker, GroupsUnchanged DEF PollRestarts, GoTo, Return,
     OpAt, EInv, IInv, AInv, at, doing, TypeOK, CallerType
<1>18. CASE (Dropped(Worker) \/ Crash) /\ UNCHANGED uiVars
  BY <1>18, OnlyWorker, GroupsUnchanged DEF Dropped, Forgets, Crash, OpAt,
     AInv, at, doing
<1>19. CASE (SendToChild \/ SendSpawns) /\ UNCHANGED uiVars
  BY <1>19, OnlyWorker, GroupsUnchanged DEF SendToChild, SendSpawns, OpAt,
     AInv, at, doing
<1>20. CASE (ReaderHangsUp \/ ReaderReports \/ ChildServes \/ ChildDies) /\
           UNCHANGED uiVars
  BY <1>20, OnlyWorker, GroupsUnchanged DEF ReaderHangsUp, ReaderReports,
     ChildServes, ChildDies, OpAt, AInv, at, doing
<1>21. CASE (LoopOpensBus \/ LoopGivesUp \/ LinkUp \/ LinkLost \/ LoopReports \/
           RetryComesDue) /\ UNCHANGED uiVars
  BY <1>21, OnlyWorker, GroupsUnchanged DEF LoopOpensBus, LoopGivesUp,
     LinkUp, LinkLost, LoopReports, RetryComesDue, OpAt, AInv, at, doing
<1> QED
  BY <1>1, <1>2, <1>3, <1>4, <1>5, <1>6, <1>7, <1>8, <1>9, <1>10, <1>11,
     <1>12, <1>13, <1>14, <1>15, <1>16, <1>17, <1>18, <1>19, <1>20, <1>21,
     AppSteps DEF TakesCall, Polls, Goes, Others, GoesOn, Client, ChildSteps,
     EInv, IInv

\* A started service is wanted and has no retry.
LEMMA StartedWantedKept ==
    ASSUME EInv, EInv', AInv, AppNext
    PROVE  StartedWanted'
<1>1. ASSUME Free,
             (\E o \in {"run", "share"} : RunBegins(Worker, o)) \/
             GenerateKeyBegins(Worker) \/ ReplaceKeyBegins(Worker) \/
             SetConfigBegins(Worker) \/ PairBegins(Worker), UNCHANGED uiVars
      PROVE  StartedWanted'
  BY <1>1, OnlyWorker DEF RunBegins, GenerateKeyBegins, ReplaceKeyBegins,
     SetConfigBegins, PairBegins, StartedWanted, AInv, at, Free, serviceVars
<1>2. ASSUME Free \/ todo = "poll", PollBegins(Worker), UNCHANGED uiVars
      PROVE  StartedWanted'
  BY <1>2, OnlyWorker DEF PollBegins, Idle, StartedWanted, AInv, at,
     serviceVars
<1>3. CASE handleResume \/ shutdown \/ refreshPhoneKeyState
  BY <1>3, OnlyWorker DEF handleResume, ResumeBegins, Idle, shutdown,
     DropBegins, refreshPhoneKeyState, StartBegins, StartedWanted, AInv, at,
     serviceVars
<1>4. CASE CallReturns
  BY <1>4, OnlyWorker DEF CallReturns, Returns, StartedWanted, AInv, at,
     serviceVars
<1>5. CASE Launch
  BY <1>5, OnlyWorker DEF Launch, Boot, StartedWanted, AInv, at,
     serviceVars, callerVars
<1>6. CASE Suspends \/ Activates
  <2>1. UNCHANGED <<up, cfg, priv, started, enabled, retry, wire, conn, events, unsaid>>
    BY <1>6 DEF Suspends, Activates, vars, diskVars, serviceVars, childVars
  <2>2. UNCHANGED <<pc, op, out, todo, keepAwake>>
    BY <1>6 DEF Suspends, Activates, vars, callerVars
  <2> QED
    BY <2>1, <2>2 DEF AInv, StartedWanted, at
<1>7. CASE (RunEnds(Worker) \/ KeygenEnds(Worker) \/ PairAnswered(Worker))
           /\ UNCHANGED uiVars
  BY <1>7, OnlyWorker DEF RunEnds, KeygenEnds, PairAnswered, StartedWanted,
     AInv, at, serviceVars
<1>8. CASE (Stop(Worker) \/ StopEnds(Worker)) /\ UNCHANGED uiVars
  BY <1>8, OnlyWorker DEF Stop, GoTo, StopEnds, StartedWanted, EInv, IInv,
     AInv, at, TypeOK, CallerType
<1>9. CASE (SetConfigStopped(Worker) \/ ReplaceKeyStopped(Worker) \/
           PairStopped(Worker)) /\ UNCHANGED uiVars
  BY <1>9, OnlyWorker DEF SetConfigStopped, ReplaceKeyStopped, PairStopped,
     StartedWanted, AInv, at, serviceVars
<1>10. CASE (WritePub(Worker) \/ SavePaired(Worker)) /\ UNCHANGED uiVars
  BY <1>10, OnlyWorker DEF WritePub, SavePaired, StartedWanted, AInv, at,
     serviceVars
<1>11. CASE StartChecks(Worker) /\ UNCHANGED uiVars
  <2>1. CASE started /\ IsPresenceActive
    <3>1. UNCHANGED <<started, enabled, retry>> /\ at = "start"
      BY <1>11, <2>1 DEF StartChecks, serviceVars, at
    <3> QED
      BY <3>1 DEF AInv, StartedWanted
  <2>2. CASE ~(started /\ IsPresenceActive)
    <3>1. ~started'
      BY <1>11, <2>2 DEF StartChecks
    <3> QED
      BY <3>1 DEF StartedWanted
  <2> QED
    BY <2>1, <2>2
<1>12. CASE StartEnds(Worker) /\ UNCHANGED uiVars
  <2>1. enabled' = enabled /\ enabled
    BY <1>12, OnlyWorker DEF StartEnds, EInv, StoppedIsOff
  <2>2. started' => retry' = "none"
    BY <1>12 DEF StartEnds
  <2> QED
    BY <2>1, <2>2 DEF StartedWanted
<1>13. CASE PollRestarts(Worker) /\ UNCHANGED uiVars
  BY <1>13, OnlyWorker DEF PollRestarts, StartedWanted, AInv
<1>14. CASE (Dropped(Worker) \/ Crash) /\ UNCHANGED uiVars
  BY <1>14, OnlyWorker DEF Dropped, Forgets, Crash, StartedWanted, AInv
<1>15. CASE (SendToChild \/ SendSpawns) /\ UNCHANGED uiVars
  BY <1>15, OnlyWorker DEF SendToChild, SendSpawns, StartedWanted, AInv, at,
     serviceVars, callerVars
<1>16. CASE (ReaderHangsUp \/ ReaderReports \/ ChildServes \/ ChildDies) /\
           UNCHANGED uiVars
  BY <1>16, OnlyWorker DEF ReaderHangsUp, ReaderReports, ChildServes,
     ChildDies, StartedWanted, AInv, at, serviceVars, callerVars
<1>17. CASE (LoopOpensBus \/ LoopGivesUp \/ LinkUp \/ LinkLost \/ LoopReports \/
           RetryComesDue) /\ UNCHANGED uiVars
  BY <1>17, OnlyWorker DEF LoopOpensBus, LoopGivesUp, LinkUp, LinkLost,
     LoopReports,
     RetryComesDue, StartedWanted, AInv, at, serviceVars, callerVars
<1> QED
  BY <1>1, <1>2, <1>3, <1>4, <1>5, <1>6, <1>7, <1>8, <1>9, <1>10, <1>11,
     <1>12, <1>13, <1>14, <1>15, <1>16, <1>17, AppSteps DEF TakesCall, Polls,
     Goes, Others, GoesOn, Client, ChildSteps, EInv, IInv

\* A request that is not sent leaves no child.
LEMMA LeavesNoChildKept ==
    ASSUME EInv, EInv', AInv, AppNext
    PROVE  LeavesNoChild'
<1>1. ASSUME Free,
             (\E o \in {"run", "share"} : RunBegins(Worker, o)) \/
             GenerateKeyBegins(Worker) \/ ReplaceKeyBegins(Worker) \/
             SetConfigBegins(Worker) \/ PairBegins(Worker), UNCHANGED uiVars
      PROVE  LeavesNoChild'
  BY <1>1, OnlyWorker, GroupsUnchanged DEF RunBegins, GenerateKeyBegins,
     ReplaceKeyBegins, SetConfigBegins, PairBegins, LeavesNoChild, AInv, Free
<1>2. ASSUME Free \/ todo = "poll", PollBegins(Worker), UNCHANGED uiVars
      PROVE  LeavesNoChild'
  BY <1>2, OnlyWorker, GroupsUnchanged DEF PollBegins, LeavesNoChild, AInv
<1>3. CASE handleResume \/ shutdown \/ refreshPhoneKeyState
  BY <1>3, OnlyWorker, GroupsUnchanged DEF handleResume, ResumeBegins,
     invalidate, kill, shutdown, DropBegins, refreshPhoneKeyState, StartBegins,
     LeavesNoChild, AInv
<1>4. CASE CallReturns
  BY <1>4, OnlyWorker, GroupsUnchanged DEF CallReturns, Returns,
     LeavesNoChild, AInv
<1>5. CASE Launch
  BY <1>5, OnlyWorker, GroupsUnchanged DEF Launch, Boot, LeavesNoChild, AInv
<1>6. CASE Suspends \/ Activates
  <2>1. UNCHANGED <<up, cfg, priv, started, enabled, retry, wire, conn, events, unsaid>>
    BY <1>6 DEF Suspends, Activates, vars, diskVars, serviceVars, childVars
  <2>2. UNCHANGED <<pc, op, out, todo, keepAwake>>
    BY <1>6 DEF Suspends, Activates, vars, callerVars
  <2> QED
    BY <2>1, <2>2 DEF AInv, LeavesNoChild
<1>7. CASE (RunEnds(Worker) \/ KeygenEnds(Worker) \/ PairAnswered(Worker))
           /\ UNCHANGED uiVars
  BY <1>7, OnlyWorker, GroupsUnchanged DEF RunEnds, Replied, Unsuccessful,
     NoReply, kill, KeygenEnds, PairAnswered, LeavesNoChild, AInv
<1>8. CASE (Stop(Worker) \/ StopEnds(Worker)) /\ UNCHANGED uiVars
  BY <1>8, OnlyWorker, GroupsUnchanged DEF Stop, StopEnds, Replied,
     invalidate, kill, LeavesNoChild, AInv
<1>9. CASE (SetConfigStopped(Worker) \/ ReplaceKeyStopped(Worker) \/
           PairStopped(Worker)) /\ UNCHANGED uiVars
  BY <1>9, OnlyWorker, GroupsUnchanged DEF SetConfigStopped, invalidate,
     kill, ReplaceKeyStopped, PairStopped, LeavesNoChild, AInv
<1>10. CASE (WritePub(Worker) \/ SavePaired(Worker)) /\ UNCHANGED uiVars
  BY <1>10, OnlyWorker, GroupsUnchanged DEF WritePub, invalidate, kill,
     SavePaired, LeavesNoChild, AInv
<1>11. CASE StartChecks(Worker) /\ UNCHANGED uiVars
  BY <1>11, OnlyWorker, GroupsUnchanged DEF StartChecks, invalidate, kill,
     LeavesNoChild, AInv
<1>12. CASE StartEnds(Worker) /\ UNCHANGED uiVars
  BY <1>12, OnlyWorker, GroupsUnchanged DEF StartEnds, Replied,
     Unsuccessful, NoReply, kill, LeavesNoChild, AInv
<1>13. CASE PollRestarts(Worker) /\ UNCHANGED uiVars
  BY <1>13, OnlyWorker, GroupsUnchanged DEF PollRestarts, invalidate, kill,
     LeavesNoChild, AInv
<1>14. CASE (Dropped(Worker) \/ Crash) /\ UNCHANGED uiVars
  BY <1>14, OnlyWorker, GroupsUnchanged DEF Dropped, Forgets, Crash,
     LeavesNoChild, AInv
<1>15. CASE (SendToChild) /\ UNCHANGED uiVars
  BY <1>15, OnlyWorker, GroupsUnchanged DEF SendToChild, kill,
     LeavesNoChild, AInv
<1>16. CASE (SendSpawns) /\ UNCHANGED uiVars
  BY <1>16, OnlyWorker, GroupsUnchanged DEF SendSpawns, LeavesNoChild, EInv,
     IInv, AInv, DownIsIdle
<1>17. CASE (ReaderHangsUp \/ ReaderReports \/ ChildServes \/ ChildDies) /\
           UNCHANGED uiVars
  BY <1>17, OnlyWorker, GroupsUnchanged DEF ReaderHangsUp, ReaderReports,
     ChildServes, ServesPresence, Replies, ServesKeygen, ServesPair,
     ServesCommand, ChildDies, LeavesNoChild, AInv
<1>18. CASE (LoopOpensBus \/ LoopGivesUp \/ LinkUp \/ LinkLost \/ LoopReports \/
           RetryComesDue) /\ UNCHANGED uiVars
  BY <1>18, OnlyWorker, GroupsUnchanged DEF LoopOpensBus, LoopGivesUp,
     LinkUp, LinkLost, LoopReports, RetryComesDue, LeavesNoChild, AInv
<1> QED
  BY <1>1, <1>2, <1>3, <1>4, <1>5, <1>6, <1>7, <1>8, <1>9, <1>10, <1>11,
     <1>12, <1>13, <1>14, <1>15, <1>16, <1>17, <1>18, AppSteps DEF TakesCall,
     Polls, Goes, Others, GoesOn, Client, ChildSteps, EInv, IInv

\* News is left only of a service that may be served.
LEMMA NewsEligibleKept ==
    ASSUME EInv, EInv', AInv, AppNext
    PROVE  NewsEligible'
<1>1. ASSUME Free, \E o \in {"run", "share"} : RunBegins(Worker, o),
             UNCHANGED uiVars
      PROVE  NewsEligible'
  BY <1>1, OnlyWorker, QueueSteps, GroupsUnchanged DEF RunBegins,
     NewsEligible, News, Eligible, EInv, IInv, AInv
<1>2. ASSUME Free, GenerateKeyBegins(Worker), UNCHANGED uiVars
      PROVE  NewsEligible'
  BY <1>2, OnlyWorker, QueueSteps, GroupsUnchanged DEF GenerateKeyBegins,
     NewsEligible, News, Eligible, EInv, IInv, AInv
<1>3. ASSUME Free, ReplaceKeyBegins(Worker), UNCHANGED uiVars
      PROVE  NewsEligible'
  BY <1>3, OnlyWorker, QueueSteps, GroupsUnchanged DEF ReplaceKeyBegins,
     NewsEligible, News, Eligible, EInv, IInv, AInv
<1>4. ASSUME Free, SetConfigBegins(Worker), UNCHANGED uiVars
      PROVE  NewsEligible'
  BY <1>4, OnlyWorker, QueueSteps, GroupsUnchanged DEF SetConfigBegins,
     NewsEligible, News, Eligible, EInv, IInv, AInv
<1>5. ASSUME Free, PairBegins(Worker), UNCHANGED uiVars
      PROVE  NewsEligible'
  BY <1>5, OnlyWorker, QueueSteps, GroupsUnchanged DEF PairBegins,
     NewsEligible, News, Eligible, EInv, IInv, AInv
<1>6. ASSUME Free \/ todo = "poll", PollBegins(Worker), UNCHANGED uiVars
      PROVE  NewsEligible'
  BY <1>6, OnlyWorker, QueueSteps, GroupsUnchanged DEF PollBegins,
     NewsEligible, News, Eligible, EInv, IInv, AInv
<1>7. CASE handleResume
  BY <1>7, OnlyWorker, GroupsUnchanged DEF handleResume, ResumeBegins,
     invalidate, kill, NewsEligible, News, NewsIsFresh, EInv, AInv
<1>8. CASE shutdown
  BY <1>8, OnlyWorker, QueueSteps, GroupsUnchanged DEF shutdown, DropBegins,
     NewsEligible, News, Eligible, EInv, IInv, AInv
<1>9. CASE refreshPhoneKeyState
  BY <1>9, OnlyWorker, QueueSteps, GroupsUnchanged DEF refreshPhoneKeyState,
     StartBegins, NewsEligible, News, Eligible, EInv, IInv, AInv
<1>10. CASE CallReturns
  BY <1>10, OnlyWorker, QueueSteps, GroupsUnchanged DEF CallReturns,
     Returns, NewsEligible, News, Eligible, EInv, IInv, AInv
<1>11. CASE Launch
  BY <1>11, OnlyWorker, GroupsUnchanged DEF Launch, Boot, NewsEligible, News,
     NewsIsFresh, UnsaidIsHeard, LeavesNoChild, EInv, AInv
<1>12. CASE Suspends \/ Activates
  <2>1. UNCHANGED <<up, cfg, priv, started, enabled, retry, wire, conn, events, unsaid>>
    BY <1>12 DEF Suspends, Activates, vars, diskVars, serviceVars, childVars
  <2>2. UNCHANGED <<pc, op, out, todo, keepAwake>>
    BY <1>12 DEF Suspends, Activates, vars, callerVars
  <2> QED
    BY <2>1, <2>2 DEF AInv, NewsEligible, News, Eligible, NewsQueued
<1>13. CASE RunEnds(Worker) /\ UNCHANGED uiVars
  BY <1>13, OnlyWorker, QueueSteps, GroupsUnchanged DEF RunEnds, Replied,
     Unsuccessful, NoReply, kill, transport_failed, NewsEligible, News,
     Eligible, EInv,
     IInv, AInv
<1>14. CASE KeygenEnds(Worker) /\ UNCHANGED uiVars
  BY <1>14, OnlyWorker, QueueSteps, GroupsUnchanged DEF KeygenEnds, Replied,
     Unsuccessful, NoReply, kill, transport_failed, NewsEligible, News,
     Eligible, EInv,
     IInv, AInv
<1>15. CASE PairAnswered(Worker) /\ UNCHANGED uiVars
  BY <1>15, OnlyWorker, QueueSteps, GroupsUnchanged DEF PairAnswered,
     Replied, Unsuccessful, NoReply, kill, transport_failed, NewsEligible,
     News, Eligible,
     EInv, IInv, AInv
<1>16. CASE Stop(Worker) /\ UNCHANGED uiVars
  BY <1>16, OnlyWorker, QueueSteps, GroupsUnchanged DEF Stop, NewsEligible,
     News,
     Eligible, EInv, IInv, AInv
<1>17. CASE StopEnds(Worker) /\ UNCHANGED uiVars
  BY <1>17, OnlyWorker, QueueSteps, GroupsUnchanged DEF StopEnds, Replied,
     invalidate, kill, NewsEligible, News, Eligible, EInv, IInv, AInv
<1>18. CASE SetConfigStopped(Worker) /\ UNCHANGED uiVars
  BY <1>18, OnlyWorker, GroupsUnchanged DEF SetConfigStopped, invalidate,
     kill, NewsEligible, News, NewsIsFresh, EInv, AInv
<1>19. CASE ReplaceKeyStopped(Worker) /\ UNCHANGED uiVars
  BY <1>19, OnlyWorker, GroupsUnchanged DEF ReplaceKeyStopped, invalidate,
     kill, NewsEligible, News, NewsIsFresh, EInv, AInv
<1>20. CASE PairStopped(Worker) /\ UNCHANGED uiVars
  BY <1>20, OnlyWorker, QueueSteps, GroupsUnchanged DEF PairStopped,
     NewsEligible, News, Eligible, EInv, IInv, AInv
<1>21. CASE WritePub(Worker) /\ UNCHANGED uiVars
  BY <1>21, OnlyWorker, QueueSteps, GroupsUnchanged DEF WritePub,
     invalidate, kill, NewsEligible, News, Eligible, EInv, IInv, AInv
<1>22. CASE SavePaired(Worker) /\ UNCHANGED uiVars
  <2>1. cfg \in Config /\ UNCHANGED <<up, priv, events, unsaid>>
    BY <1>22, GroupsUnchanged DEF SavePaired, EInv, IInv, TypeOK, ServiceType
  <2>2. cfg' = cfg \/ cfg' = [cfg EXCEPT !.paired = TRUE]
    BY <1>22 DEF SavePaired
  <2>3. Eligible => Eligible'
    BY <2>1, <2>2 DEF Eligible, Config
  <2> QED
    BY <2>1, <2>3 DEF AInv, NewsEligible, News, NewsQueued
<1>23. CASE StartChecks(Worker) /\ UNCHANGED uiVars
  BY <1>23, OnlyWorker, QueueSteps, GroupsUnchanged DEF StartChecks,
     StartReturns, NewsEligible, News, Eligible, EInv, IInv, AInv
<1>24. CASE StartEnds(Worker) /\ UNCHANGED uiVars
  BY <1>24, OnlyWorker, QueueSteps, GroupsUnchanged DEF StartEnds, Replied,
     StartReturns, Unsuccessful, NoReply, kill, transport_failed,
     NewsEligible, News,
     Eligible, EInv, IInv, AInv
<1>25. CASE PollRestarts(Worker) /\ UNCHANGED uiVars
  BY <1>25, OnlyWorker, QueueSteps, GroupsUnchanged DEF PollRestarts,
     invalidate, kill, NewsEligible, News, Eligible, EInv, IInv, AInv
<1>26. CASE (Dropped(Worker) \/ Crash) /\ UNCHANGED uiVars
  BY <1>26, OnlyWorker, GroupsUnchanged DEF Dropped, Forgets, Crash,
     NewsEligible, News, AInv
<1>27. CASE (SendToChild) /\ UNCHANGED uiVars
  BY <1>27, OnlyWorker, QueueSteps, GroupsUnchanged DEF SendToChild,
     kill, transport_failed, NewsEligible, News, Eligible, EInv, IInv, AInv
<1>28. CASE (SendSpawns) /\ UNCHANGED uiVars
  BY <1>28, OnlyWorker, QueueSteps, GroupsUnchanged DEF SendSpawns,
     transport_failed, NewsEligible, News, NewsIsFresh, UnsaidIsHeard, EInv,
     IInv, AInv
<1>29. CASE (ReaderHangsUp) /\ UNCHANGED uiVars
  BY <1>29, OnlyWorker, QueueSteps, GroupsUnchanged DEF ReaderHangsUp,
     NewsEligible, News, Eligible, EInv, IInv, AInv
<1>30. CASE (ReaderReports) /\ UNCHANGED uiVars
  BY <1>30, OnlyWorker, GroupsUnchanged DEF ReaderReports, NewsEligible, News,
     NewsIsFresh, UnsaidIsHeard, EInv, AInv
<1>31. CASE (ChildServes) /\ UNCHANGED uiVars
  BY <1>31, OnlyWorker, QueueSteps, GroupsUnchanged DEF ChildServes,
     ServesPresence, ServesKeygen, ServesPair, ServesCommand, NewsEligible,
     News,
     Eligible, EInv, IInv, AInv, TypeOK, CallerType
<1>32. CASE (ChildDies) /\ UNCHANGED uiVars
  BY <1>32, OnlyWorker, QueueSteps, GroupsUnchanged DEF ChildDies,
     NewsEligible, News, Eligible, EInv, IInv, AInv
<1>33. CASE (LoopOpensBus) /\ UNCHANGED uiVars
  BY <1>33, OnlyWorker, GroupsUnchanged DEF LoopOpensBus, NewsEligible, News,
     Eligible, ChildServesConfigured, EInv, IInv, AInv
<1>34. CASE (LoopGivesUp) /\ UNCHANGED uiVars
  BY <1>34, OnlyWorker, GroupsUnchanged DEF LoopGivesUp, NewsEligible, News,
     Eligible, ChildServesConfigured, EInv, IInv, AInv
<1>35. CASE (LinkUp) /\ UNCHANGED uiVars
  BY <1>35, OnlyWorker, GroupsUnchanged DEF LinkUp, NewsEligible, News,
     Eligible,
     ChildServesConfigured, EInv, IInv, AInv
<1>36. CASE (LinkLost) /\ UNCHANGED uiVars
  BY <1>36, OnlyWorker, GroupsUnchanged DEF LinkLost, NewsEligible, News,
     Eligible, ChildServesConfigured, EInv, IInv, AInv
<1>37. CASE (RetryComesDue) /\ UNCHANGED uiVars
  BY <1>37, OnlyWorker, QueueSteps, GroupsUnchanged DEF RetryComesDue,
     NewsEligible, News, Eligible, EInv, IInv, AInv
<1>38. CASE (LoopReports) /\ UNCHANGED uiVars
  <2>1. PICK e \in unsaid : push(e) /\ unsaid' = unsaid \ {e}
    BY <1>38 DEF LoopReports
  <2>2. News' => News
    BY <2>1, QueueSteps DEF News, EInv, IInv, TypeOK, ChildType
  <2> QED
    BY <1>38, <2>2, GroupsUnchanged DEF LoopReports, NewsEligible, Eligible,
       AInv
<1> QED
  BY <1>1, <1>2, <1>3, <1>4, <1>5, <1>6, <1>7, <1>8, <1>9, <1>10, <1>11,
     <1>12, <1>13, <1>14, <1>15, <1>16, <1>17, <1>18, <1>19, <1>20, <1>21,
     <1>22, <1>23, <1>24, <1>25, <1>26, <1>27, <1>28, <1>29, <1>30, <1>31,
     <1>32, <1>33, <1>34, <1>35, <1>36, <1>37, <1>38, AppSteps DEF TakesCall, Polls,
     Goes, Others, GoesOn, Client, ChildSteps, EInv, IInv

\* The worker does what follows before it takes another call.
LEMMA TodoFollowsKept ==
    ASSUME EInv, EInv', AInv, AppNext
    PROVE  TodoFollows'
<1>1. ASSUME Free,
             (\E o \in {"run", "share"} : RunBegins(Worker, o)) \/
             GenerateKeyBegins(Worker) \/ ReplaceKeyBegins(Worker) \/
             SetConfigBegins(Worker) \/ PairBegins(Worker), UNCHANGED uiVars
      PROVE  TodoFollows'
  BY <1>1, OnlyWorker, GroupsUnchanged DEF RunBegins, GenerateKeyBegins,
     ReplaceKeyBegins, SetConfigBegins, PairBegins, TodoFollows, AInv, uiVars,
     Free
<1>2. ASSUME Free \/ todo = "poll", PollBegins(Worker), UNCHANGED uiVars
      PROVE  TodoFollows'
  BY <1>2, OnlyWorker, GroupsUnchanged DEF PollBegins, TodoFollows, AInv,
     doing, uiVars, Free
<1>3. CASE handleResume \/ shutdown \/ refreshPhoneKeyState
  BY <1>3, OnlyWorker, GroupsUnchanged DEF handleResume, Free, shutdown,
     refreshPhoneKeyState, StartBegins, TodoFollows, EInv, IInv, AInv, doing,
     uiVars, TypeOK, CallerType
<1>4. CASE CallReturns
  BY <1>4, OnlyWorker, GroupsUnchanged DEF CallReturns, Returns,
     TodoFollows, EInv, IInv, AInv, doing, TypeOK, CallerType
<1>5. CASE Launch
  BY <1>5, OnlyWorker, GroupsUnchanged DEF Launch, Boot, TodoFollows, OpAt,
     EInv, IInv, AInv, at, doing, DownIsIdle
<1>6. CASE Suspends \/ Activates
  <2>1. UNCHANGED <<up, cfg, priv, started, enabled, retry, wire, conn, events, unsaid>>
    BY <1>6 DEF Suspends, Activates, vars, diskVars, serviceVars, childVars
  <2>2. UNCHANGED <<pc, op, out, todo, keepAwake>>
    BY <1>6 DEF Suspends, Activates, vars, callerVars
  <2> QED
    BY <2>1, <2>2 DEF AInv, TodoFollows, doing
<1>7. CASE (RunEnds(Worker) \/ KeygenEnds(Worker) \/ PairAnswered(Worker))
           /\ UNCHANGED uiVars
  BY <1>7, OnlyWorker, GroupsUnchanged DEF RunEnds, KeygenEnds,
     PairAnswered, TodoFollows, OpAt, AInv, at, uiVars
<1>8. CASE (Stop(Worker) \/ StopEnds(Worker)) /\ UNCHANGED uiVars
  BY <1>8, OnlyWorker, GroupsUnchanged DEF Stop, StopEnds, TodoFollows,
     AInv, doing, uiVars
<1>9. CASE (SetConfigStopped(Worker) \/ ReplaceKeyStopped(Worker) \/
           PairStopped(Worker)) /\ UNCHANGED uiVars
  BY <1>9, OnlyWorker, GroupsUnchanged DEF SetConfigStopped,
     ReplaceKeyStopped, PairStopped, TodoFollows, AInv, doing, uiVars
<1>10. CASE (WritePub(Worker) \/ SavePaired(Worker)) /\ UNCHANGED uiVars
  BY <1>10, OnlyWorker, GroupsUnchanged DEF WritePub, SavePaired,
     TodoFollows, OpAt, AInv, at, uiVars
<1>11. CASE StartChecks(Worker) /\ UNCHANGED uiVars
  BY <1>11, OnlyWorker, GroupsUnchanged DEF StartChecks, StartReturns,
     Return, TodoFollows, AInv, doing, uiVars
<1>12. CASE StartEnds(Worker) /\ UNCHANGED uiVars
  BY <1>12, OnlyWorker, GroupsUnchanged DEF StartEnds, StartReturns, Return,
     TodoFollows, AInv, doing, uiVars
<1>13. CASE PollRestarts(Worker) /\ UNCHANGED uiVars
  BY <1>13, OnlyWorker, GroupsUnchanged DEF PollRestarts, Return,
     TodoFollows, AInv, doing, uiVars
<1>14. CASE (Dropped(Worker) \/ Crash) /\ UNCHANGED uiVars
  BY <1>14, OnlyWorker, GroupsUnchanged DEF Dropped, Forgets, Crash,
     TodoFollows, AInv, doing
<1>15. CASE (SendToChild \/ SendSpawns) /\ UNCHANGED uiVars
  BY <1>15, OnlyWorker, GroupsUnchanged DEF SendToChild, SendSpawns,
     TodoFollows, AInv, doing, uiVars
<1>16. CASE (ReaderHangsUp \/ ReaderReports \/ ChildServes \/ ChildDies) /\
           UNCHANGED uiVars
  BY <1>16, OnlyWorker, GroupsUnchanged DEF ReaderHangsUp, ReaderReports,
     ChildServes, ChildDies, TodoFollows, AInv, doing, uiVars
<1>17. CASE (LoopOpensBus \/ LoopGivesUp \/ LinkUp \/ LinkLost \/ LoopReports \/
           RetryComesDue) /\ UNCHANGED uiVars
  BY <1>17, OnlyWorker, GroupsUnchanged DEF LoopOpensBus, LoopGivesUp,
     LinkUp, LinkLost, LoopReports, RetryComesDue, TodoFollows, AInv, doing,
     uiVars
<1> QED
  BY <1>1, <1>2, <1>3, <1>4, <1>5, <1>6, <1>7, <1>8, <1>9, <1>10, <1>11,
     <1>12, <1>13, <1>14, <1>15, <1>16, <1>17, AppSteps DEF TakesCall, Polls,
     Goes, Others, GoesOn, Client, ChildSteps, EInv, IInv

\* A result tells what has become of the service.
LEMMA ResultIsTrueKept ==
    ASSUME EInv, EInv', AInv, AppNext
    PROVE  ResultIsTrue'
<1>1. ASSUME Free,
             (\E o \in {"run", "share"} : RunBegins(Worker, o)) \/
             GenerateKeyBegins(Worker) \/ ReplaceKeyBegins(Worker) \/
             SetConfigBegins(Worker) \/ PairBegins(Worker), UNCHANGED uiVars
      PROVE  ResultIsTrue'
  BY <1>1, OnlyWorker, GroupsUnchanged DEF RunBegins, Enter, Refuse,
     GenerateKeyBegins, ReplaceKeyBegins, SetConfigBegins, PairBegins,
     ResultIsTrue, EInv, IInv, AInv, doing, TypeOK, CallerType
<1>2. ASSUME Free \/ todo = "poll", PollBegins(Worker), UNCHANGED uiVars
      PROVE  ResultIsTrue'
  <2>1. /\ at = "idle" /\ doing = "none" /\ todo # "refresh" /\ up
        /\ UNCHANGED started
    BY <1>2, GroupsUnchanged DEF PollBegins, Idle, Free, AInv, OpAt, at, doing
  <2>2. NewsQueued => started
    BY <2>1 DEF AInv, NewsIsServed, News, Refreshing, Restarting
  <2>3. events # <<>> =>
          /\ Head(events) \in Event
          /\ Head(events) = "near" => NewsQueued
    BY DEF EInv, IInv, TypeOK, ChildType, NewsQueued
  <2>4. at' = "returned" =>
          /\ doing' = "poll"
          /\ result' = IF events # <<>> THEN Head(events) ELSE "none"
          /\ result' # "stopped"
    BY <1>2, OnlyWorker DEF PollBegins, GoTo, at, doing, result, EInv, IInv,
       TypeOK, CallerType
  <2> QED
    BY <2>1, <2>2, <2>3, <2>4 DEF ResultIsTrue, Event
<1>3. CASE handleResume \/ shutdown \/ refreshPhoneKeyState
  BY <1>3, OnlyWorker, GroupsUnchanged DEF handleResume, ResumeBegins, GoTo,
     shutdown, DropBegins, Enter, refreshPhoneKeyState, StartBegins,
     ResultIsTrue, EInv, IInv, AInv, at, TypeOK, CallerType
<1>4. CASE CallReturns
  BY <1>4, OnlyWorker, GroupsUnchanged DEF CallReturns, Returns,
     ResultIsTrue, EInv, IInv, AInv, doing, TypeOK, CallerType
<1>5. CASE Launch
  BY <1>5, OnlyWorker, GroupsUnchanged DEF Launch, Boot, ResultIsTrue, AInv,
     at, doing, result
<1>6. CASE Suspends \/ Activates
  <2>1. UNCHANGED <<up, cfg, priv, started, enabled, retry, wire, conn, events, unsaid>>
    BY <1>6 DEF Suspends, Activates, vars, diskVars, serviceVars, childVars
  <2>2. UNCHANGED <<pc, op, out, todo, keepAwake>>
    BY <1>6 DEF Suspends, Activates, vars, callerVars
  <2> QED
    BY <2>1, <2>2 DEF AInv, ResultIsTrue, at, doing, result
<1>7. CASE (RunEnds(Worker) \/ KeygenEnds(Worker) \/ PairAnswered(Worker))
           /\ UNCHANGED uiVars
  BY <1>7, OnlyWorker, GroupsUnchanged DEF RunEnds, Return, KeygenEnds,
     PairAnswered, ResultIsTrue, OpAt, AInv, at, doing
<1>8. CASE (Stop(Worker) \/ StopEnds(Worker)) /\ UNCHANGED uiVars
  BY <1>8, OnlyWorker, GroupsUnchanged DEF Stop, StopEnds, ResultIsTrue,
     OpAt, AInv, at, doing
<1>9. CASE (SetConfigStopped(Worker) \/ ReplaceKeyStopped(Worker) \/
           PairStopped(Worker)) /\ UNCHANGED uiVars
  BY <1>9, OnlyWorker, GroupsUnchanged DEF SetConfigStopped, Return,
     ReplaceKeyStopped, PairStopped, ResultIsTrue, AInv, doing
<1>10. CASE (WritePub(Worker) \/ SavePaired(Worker)) /\ UNCHANGED uiVars
  BY <1>10, OnlyWorker, GroupsUnchanged DEF WritePub, Return, SavePaired,
     ResultIsTrue, OpAt, AInv, at, doing
<1>11. CASE StartChecks(Worker) /\ UNCHANGED uiVars
  BY <1>11, OnlyWorker, GroupsUnchanged DEF StartChecks, StartReturns,
     Return, GoTo, ResultIsTrue, EInv, IInv, AInv, at, doing, result, TypeOK,
     CallerType
<1>12. CASE StartEnds(Worker) /\ UNCHANGED uiVars
  BY <1>12, OnlyWorker, GroupsUnchanged DEF StartEnds, StartReturns, Return,
     ResultIsTrue, EInv, IInv, AInv, doing, result, TypeOK, CallerType
<1>13. CASE PollRestarts(Worker) /\ UNCHANGED uiVars
  BY <1>13, OnlyWorker, GroupsUnchanged DEF PollRestarts, GoTo, Return,
     ResultIsTrue, EInv, IInv, AInv, at, result, TypeOK, CallerType
<1>14. CASE (Dropped(Worker) \/ Crash) /\ UNCHANGED uiVars
  BY <1>14, OnlyWorker, GroupsUnchanged DEF Dropped, Forgets, Crash,
     ResultIsTrue, AInv, result
<1>15. CASE (SendToChild \/ SendSpawns) /\ UNCHANGED uiVars
  BY <1>15, OnlyWorker, GroupsUnchanged DEF SendToChild, SendSpawns,
     ResultIsTrue, AInv, at, doing, result
<1>16. CASE (ReaderHangsUp \/ ReaderReports \/ ChildServes \/ ChildDies) /\
           UNCHANGED uiVars
  BY <1>16, OnlyWorker, GroupsUnchanged DEF ReaderHangsUp, ReaderReports,
     ChildServes, ChildDies, ResultIsTrue, AInv, at, doing, result
<1>17. CASE (LoopOpensBus \/ LoopGivesUp \/ LinkUp \/ LinkLost \/ LoopReports \/
           RetryComesDue) /\ UNCHANGED uiVars
  BY <1>17, OnlyWorker, GroupsUnchanged DEF LoopOpensBus, LoopGivesUp,
     LinkUp, LinkLost, LoopReports, RetryComesDue, ResultIsTrue, AInv, at,
     doing, result
<1> QED
  BY <1>1, <1>2, <1>3, <1>4, <1>5, <1>6, <1>7, <1>8, <1>9, <1>10, <1>11,
     <1>12, <1>13, <1>14, <1>15, <1>16, <1>17, AppSteps DEF TakesCall, Polls,
     Goes, Others, GoesOn, Client, ChildSteps, EInv, IInv

\* No news is left of a service that has ended.
LEMMA NewsIsServedKept ==
    ASSUME EInv, EInv', AInv, AppNext
    PROVE  NewsIsServed'
<1>1. ASSUME Free, \E o \in {"run", "share"} : RunBegins(Worker, o),
             UNCHANGED uiVars
      PROVE  NewsIsServed'
  BY <1>1, OnlyWorker, QueueSteps, GroupsUnchanged DEF RunBegins,
     NewsIsServed, News, Refreshing, Restarting, OpAt, EInv, IInv, AInv, at,
     Free
<1>2. ASSUME Free, GenerateKeyBegins(Worker), UNCHANGED uiVars
      PROVE  NewsIsServed'
  BY <1>2, OnlyWorker, GroupsUnchanged DEF GenerateKeyBegins, Refuse, Enter,
     NewsIsServed, News, Refreshing, EInv, IInv, AInv, doing, TypeOK, CallerType
<1>3. ASSUME Free, ReplaceKeyBegins(Worker), UNCHANGED uiVars
      PROVE  NewsIsServed'
  BY <1>3, OnlyWorker, GroupsUnchanged DEF ReplaceKeyBegins, Enter, Refuse,
     NewsIsServed, News, Refreshing, EInv, IInv, AInv, doing, TypeOK, CallerType
<1>4. ASSUME Free, SetConfigBegins(Worker), UNCHANGED uiVars
      PROVE  NewsIsServed'
  BY <1>4, OnlyWorker, QueueSteps, GroupsUnchanged DEF SetConfigBegins,
     NewsIsServed, News, Refreshing, Restarting, OpAt, EInv, IInv, AInv, at,
     Free
<1>5. ASSUME Free, PairBegins(Worker), UNCHANGED uiVars
      PROVE  NewsIsServed'
  BY <1>5, OnlyWorker, GroupsUnchanged DEF PairBegins, Refuse, Enter,
     NewsIsServed, News, Refreshing, EInv, IInv, AInv, doing, TypeOK, CallerType
<1>6. ASSUME Free \/ todo = "poll", PollBegins(Worker), UNCHANGED uiVars
      PROVE  NewsIsServed'
  BY <1>6, OnlyWorker, QueueSteps, GroupsUnchanged DEF PollBegins, Idle,
     NewsIsServed, News, Refreshing, Restarting, OpAt, EInv, IInv, AInv, at,
     Free
<1>7. CASE handleResume \/ shutdown \/ refreshPhoneKeyState
  BY <1>7, OnlyWorker, GroupsUnchanged DEF handleResume, ResumeBegins, GoTo,
     shutdown, DropBegins, Enter, refreshPhoneKeyState, StartBegins,
     NewsIsServed, News, Refreshing, Restarting, EInv, IInv, AInv, at, doing,
     TypeOK,
     CallerType
<1>8. CASE CallReturns
  BY <1>8, OnlyWorker, QueueSteps, GroupsUnchanged DEF CallReturns, Returns,
     GoTo, Follows, NewsIsServed, News, Refreshing, Restarting, OpAt, EInv,
     IInv,
     AInv, at, doing, result, TypeOK, CallerType
<1>9. CASE Launch
  BY <1>9, OnlyWorker, GroupsUnchanged DEF Launch, Boot, NewsIsServed, News,
     NewsIsFresh, UnsaidIsHeard, LeavesNoChild, EInv, AInv
<1>10. CASE Suspends \/ Activates
  <2>1. UNCHANGED <<up, cfg, priv, started, enabled, retry, wire, conn, events, unsaid>>
    BY <1>10 DEF Suspends, Activates, vars, diskVars, serviceVars, childVars
  <2>2. UNCHANGED <<pc, op, out, todo, keepAwake>>
    BY <1>10 DEF Suspends, Activates, vars, callerVars
  <2> QED
    BY <2>1, <2>2 DEF AInv, NewsIsServed, News, NewsQueued, Refreshing,
       Restarting, at, doing, result
<1>11. CASE RunEnds(Worker) /\ UNCHANGED uiVars
  BY <1>11, OnlyWorker, QueueSteps, GroupsUnchanged DEF RunEnds, Replied,
     Unsuccessful, NoReply, kill, transport_failed, NewsIsServed, News,
     Refreshing,
     Restarting, OpAt, EInv, IInv, AInv, at
<1>12. CASE KeygenEnds(Worker) /\ UNCHANGED uiVars
  BY <1>12, OnlyWorker, GroupsUnchanged DEF KeygenEnds, Return,
     NewsIsServed, News, Refreshing, OpAt, AInv, at, doing
<1>13. CASE PairAnswered(Worker) /\ UNCHANGED uiVars
  BY <1>13, OnlyWorker, GroupsUnchanged DEF PairAnswered, Return,
     NewsIsServed, News, Refreshing, OpAt, AInv, at, doing
<1>14. CASE (Stop(Worker) \/ StopEnds(Worker)) /\ UNCHANGED uiVars
  BY <1>14, OnlyWorker, GroupsUnchanged DEF Stop, GoTo, StopEnds,
     NewsIsServed, News, Refreshing, OpAt, EInv, IInv, AInv, at, doing, TypeOK,
     CallerType
<1>15. CASE (SetConfigStopped(Worker) \/ ReplaceKeyStopped(Worker) \/
           PairStopped(Worker)) /\ UNCHANGED uiVars
  BY <1>15, OnlyWorker, GroupsUnchanged DEF SetConfigStopped, GoTo, Return,
     ReplaceKeyStopped, PairStopped, NewsIsServed, News, Refreshing, EInv, IInv,
     AInv, at, doing, result, TypeOK, CallerType
<1>16. CASE (WritePub(Worker) \/ SavePaired(Worker)) /\ UNCHANGED uiVars
  BY <1>16, OnlyWorker, GroupsUnchanged DEF WritePub, Return, SavePaired,
     NewsIsServed, News, Refreshing, OpAt, AInv, at, doing
<1>17. CASE StartChecks(Worker) /\ UNCHANGED uiVars
  BY <1>17, OnlyWorker, QueueSteps, GroupsUnchanged DEF StartChecks,
     StartReturns, GoTo, NewsIsServed, News, Restarting, NewsEligible, News,
     EInv, IInv,
     AInv, at, TypeOK, CallerType
<1>18. CASE StartEnds(Worker) /\ UNCHANGED uiVars
  BY <1>18, OnlyWorker, GroupsUnchanged DEF StartEnds, Replied,
     Unsuccessful, NoReply, kill, NewsIsServed, News, NewsIsFresh,
     UnsaidIsHeard, LeavesNoChild,
     PresenceIsServed, EInv, AInv
<1>19. CASE PollRestarts(Worker) /\ UNCHANGED uiVars
  BY <1>19, OnlyWorker, QueueSteps, GroupsUnchanged DEF PollRestarts, GoTo,
     NewsIsServed, News, Refreshing, Restarting, OpAt, StartedWanted, EInv,
     IInv,
     AInv, at, TypeOK, CallerType
<1>20. CASE (Dropped(Worker) \/ Crash) /\ UNCHANGED uiVars
  BY <1>20, OnlyWorker, GroupsUnchanged DEF Dropped, Forgets, Crash,
     NewsIsServed, News, AInv
<1>21. CASE (SendToChild) /\ UNCHANGED uiVars
  BY <1>21, OnlyWorker, QueueSteps, GroupsUnchanged DEF SendToChild,
     kill, transport_failed, NewsIsServed, News, Refreshing, Restarting, EInv,
     IInv, AInv,
     at, doing, result, uiVars
<1>22. CASE (SendSpawns) /\ UNCHANGED uiVars
  BY <1>22, OnlyWorker, QueueSteps, GroupsUnchanged DEF SendSpawns,
     transport_failed, NewsIsServed, News, NewsIsFresh, UnsaidIsHeard, EInv,
     IInv, AInv
<1>23. CASE (ReaderHangsUp) /\ UNCHANGED uiVars
  BY <1>23, OnlyWorker, QueueSteps, GroupsUnchanged DEF ReaderHangsUp,
     NewsIsServed, News, Refreshing, Restarting, EInv, IInv, AInv, at, doing,
     result,
     uiVars
<1>24. CASE (ReaderReports) /\ UNCHANGED uiVars
  BY <1>24, OnlyWorker, GroupsUnchanged DEF ReaderReports, NewsIsServed, News,
     NewsIsFresh, UnsaidIsHeard, EInv, AInv
<1>25. CASE (ChildServes) /\ UNCHANGED uiVars
  BY <1>25, OnlyWorker, QueueSteps, GroupsUnchanged DEF ChildServes,
     NewsIsServed, News, Refreshing, Restarting, EInv, IInv, AInv, at, doing,
     result,
     uiVars
<1>26. CASE (ChildDies) /\ UNCHANGED uiVars
  BY <1>26, OnlyWorker, QueueSteps, GroupsUnchanged DEF ChildDies,
     NewsIsServed, News, Refreshing, Restarting, EInv, IInv, AInv, at, doing,
     result,
     uiVars
<1>27. CASE (LoopOpensBus) /\ UNCHANGED uiVars
  BY <1>27, OnlyWorker, GroupsUnchanged DEF LoopOpensBus, NewsIsServed, News,
     Refreshing, Restarting, OpAt, LoopIsWanted, EInv, AInv, at, doing
<1>28. CASE (LoopGivesUp) /\ UNCHANGED uiVars
  BY <1>28, OnlyWorker, GroupsUnchanged DEF LoopGivesUp, NewsIsServed, News,
     Refreshing, Restarting, OpAt, LoopIsWanted, EInv, AInv, at, doing
<1>29. CASE (LinkUp) /\ UNCHANGED uiVars
  BY <1>29, OnlyWorker, GroupsUnchanged DEF LinkUp, NewsIsServed, News,
     Refreshing, Restarting, OpAt, LoopIsWanted, EInv, AInv, at, doing
<1>30. CASE (LinkLost) /\ UNCHANGED uiVars
  BY <1>30, OnlyWorker, GroupsUnchanged DEF LinkLost, NewsIsServed, News,
     Refreshing, Restarting, OpAt, LoopIsWanted, EInv, AInv, at, doing
<1>31. CASE (RetryComesDue) /\ UNCHANGED uiVars
  BY <1>31, OnlyWorker, QueueSteps, GroupsUnchanged DEF RetryComesDue,
     NewsIsServed, News, Refreshing, Restarting, EInv, IInv, AInv, at, doing,
     result,
     uiVars
<1>32. CASE (LoopReports) /\ UNCHANGED uiVars
  <2>1. PICK e \in unsaid : push(e) /\ unsaid' = unsaid \ {e}
    BY <1>32 DEF LoopReports
  <2>2. News' => News
    BY <2>1, QueueSteps DEF News, EInv, IInv, TypeOK, ChildType
  <2> QED
    BY <1>32, <2>2, GroupsUnchanged DEF LoopReports, NewsIsServed,
       Refreshing, Restarting, AInv, at, doing, result, uiVars
<1> QED
  BY <1>1, <1>2, <1>3, <1>4, <1>5, <1>6, <1>7, <1>8, <1>9, <1>10, <1>11,
     <1>12, <1>13, <1>14, <1>15, <1>16, <1>17, <1>18, <1>19, <1>20, <1>21,
     <1>22, <1>23, <1>24, <1>25, <1>26, <1>27, <1>28, <1>29, <1>30, <1>31, <1>32,
     AppSteps DEF TakesCall, Polls, Goes, Others, GoesOn, Client, ChildSteps,
     EInv, IInv

\* TeslaClient learns of every start and every end.
LEMMA ClientKnowsKept ==
    ASSUME EInv, EInv', AInv, AppNext
    PROVE  ClientKnows'
<1>1. ASSUME Free, \E o \in {"run", "share"} : RunBegins(Worker, o),
             UNCHANGED uiVars
      PROVE  ClientKnows'
  BY <1>1, OnlyWorker, GroupsUnchanged DEF RunBegins, ClientKnows,
     Refreshing, Restarting, Telling, OpAt, AInv, at, uiVars, Free
<1>2. ASSUME Free, GenerateKeyBegins(Worker), UNCHANGED uiVars
      PROVE  ClientKnows'
  BY <1>2, OnlyWorker, GroupsUnchanged DEF GenerateKeyBegins, ClientKnows,
     Refreshing, Restarting, Telling, OpAt, AInv, at, uiVars, Free
<1>3. ASSUME Free, ReplaceKeyBegins(Worker), UNCHANGED uiVars
      PROVE  ClientKnows'
  BY <1>3, OnlyWorker, GroupsUnchanged DEF ReplaceKeyBegins, ClientKnows,
     Refreshing, Restarting, Telling, OpAt, AInv, at, uiVars, Free
<1>4. ASSUME Free, SetConfigBegins(Worker), UNCHANGED uiVars
      PROVE  ClientKnows'
  BY <1>4, OnlyWorker, GroupsUnchanged DEF SetConfigBegins, ClientKnows,
     Refreshing, Restarting, Telling, OpAt, AInv, at, uiVars, Free
<1>5. ASSUME Free, PairBegins(Worker), UNCHANGED uiVars
      PROVE  ClientKnows'
  BY <1>5, OnlyWorker, GroupsUnchanged DEF PairBegins, ClientKnows,
     Refreshing, Restarting, Telling, OpAt, AInv, at, uiVars, Free
<1>6. ASSUME Free \/ todo = "poll", PollBegins(Worker), UNCHANGED uiVars
      PROVE  ClientKnows'
  BY <1>6, OnlyWorker, GroupsUnchanged DEF PollBegins, Idle, ClientKnows,
     Refreshing, Restarting, Telling, OpAt, AInv, at, uiVars, Free
<1>7. CASE handleResume \/ shutdown \/ refreshPhoneKeyState
  BY <1>7, OnlyWorker, GroupsUnchanged DEF handleResume, ResumeBegins, GoTo,
     shutdown, DropBegins, Enter, refreshPhoneKeyState, StartBegins,
     ClientKnows, Refreshing, Restarting, EInv, IInv, AInv, at, doing, TypeOK,
     CallerType
<1>8. CASE CallReturns
  <2>1. /\ at = "returned" /\ at' = "idle" /\ doing' = "none"
        /\ UNCHANGED <<up, started>> /\ todo' = Follows(doing, result)
    BY <1>8, OnlyWorker, GroupsUnchanged
       DEF CallReturns, Returns, GoTo, at, doing, result, EInv, IInv, TypeOK,
           CallerType
  <2>2. doing \notin {"none", "drop"}
    BY <2>1 DEF AInv, OpAt
  <2>3. CASE doing = "start"
    <3>1. keepAwake' <=> result = "ok"
      BY <1>8, <2>3 DEF CallReturns, onPhoneKeyStarted, doing, result
    <3> QED
      BY <2>1, <2>3, <3>1 DEF AInv, ResultIsTrue, ClientKnows
  <2>4. CASE doing = "poll" /\ result # "none"
    <3>1. keepAwake' <=>
            /\ result # "stopped"
            /\ keepAwake \/ result \in {"near", "restarted"}
      BY <1>8, <2>4 DEF CallReturns, onPhoneKeyEvent, doing, result
    <3>2. CASE result \in {"near", "restarted", "stopped"}
      BY <2>1, <2>4, <3>1, <3>2 DEF AInv, ResultIsTrue, ClientKnows
    <3>3. CASE result \notin {"near", "restarted", "stopped"}
      <4>1. ~Refreshing /\ ~Restarting /\ ~Telling
        BY <2>1, <2>4, <3>3
           DEF Refreshing, Restarting, Telling, AInv, TodoFollows
      <4> QED
        BY <2>1, <3>1, <3>3, <4>1 DEF AInv, ClientKnows
    <3> QED
      BY <3>2, <3>3
  <2>5. CASE doing # "start" /\ ~(doing = "poll" /\ result # "none")
    <3>1. keepAwake' = keepAwake
      BY <1>8, <2>5 DEF CallReturns, doing, result
    <3>2. ~Refreshing' => ~Refreshing /\ ~Restarting /\ ~Telling
      BY <2>1, <2>2, <2>5
         DEF Refreshing, Restarting, Telling, Follows, AInv, TodoFollows
    <3> QED
      BY <2>1, <3>1, <3>2 DEF AInv, ClientKnows
  <2> QED
    BY <2>3, <2>4, <2>5
<1>9. CASE Launch
  BY <1>9, OnlyWorker, GroupsUnchanged DEF Launch, Boot, ClientKnows,
     Refreshing, DownIsIdle, EInv, IInv, AInv, at
<1>10. CASE Suspends \/ Activates
  <2>1. UNCHANGED <<up, cfg, priv, started, enabled, retry, wire, conn, events, unsaid>>
    BY <1>10 DEF Suspends, Activates, vars, diskVars, serviceVars, childVars
  <2>2. UNCHANGED <<pc, op, out, todo, keepAwake>>
    BY <1>10 DEF Suspends, Activates, vars, callerVars
  <2> QED
    BY <2>1, <2>2 DEF AInv, ClientKnows, Refreshing, Restarting, Telling, at,
       doing, result
<1>11. CASE RunEnds(Worker) /\ UNCHANGED uiVars
  BY <1>11, OnlyWorker, GroupsUnchanged DEF RunEnds, ClientKnows,
     Refreshing, Restarting, Telling, OpAt, AInv, at, uiVars
<1>12. CASE KeygenEnds(Worker) /\ UNCHANGED uiVars
  BY <1>12, OnlyWorker, GroupsUnchanged DEF KeygenEnds, Return, ClientKnows,
     Refreshing, OpAt, AInv, at, doing
<1>13. CASE PairAnswered(Worker) /\ UNCHANGED uiVars
  BY <1>13, OnlyWorker, GroupsUnchanged DEF PairAnswered, Return,
     ClientKnows, Refreshing, OpAt, AInv, at, doing
<1>14. CASE (Stop(Worker) \/ StopEnds(Worker)) /\ UNCHANGED uiVars
  BY <1>14, OnlyWorker, GroupsUnchanged DEF Stop, GoTo, StopEnds,
     ClientKnows, Refreshing, OpAt, EInv, IInv, AInv, at, doing, TypeOK,
     CallerType
<1>15. CASE (SetConfigStopped(Worker) \/ ReplaceKeyStopped(Worker) \/
           PairStopped(Worker)) /\ UNCHANGED uiVars
  BY <1>15, OnlyWorker, GroupsUnchanged DEF SetConfigStopped, GoTo, Return,
     ReplaceKeyStopped, PairStopped, ClientKnows, Refreshing, EInv, IInv, AInv,
     at, doing, result, TypeOK, CallerType
<1>16. CASE (WritePub(Worker) \/ SavePaired(Worker)) /\ UNCHANGED uiVars
  BY <1>16, OnlyWorker, GroupsUnchanged DEF WritePub, Return, SavePaired,
     ClientKnows, Refreshing, OpAt, AInv, at, doing
<1>17. CASE StartChecks(Worker) /\ UNCHANGED uiVars
  BY <1>17, OnlyWorker, GroupsUnchanged DEF StartChecks, StartReturns,
     Return, GoTo, ClientKnows, Refreshing, Restarting, Telling, OpAt, EInv,
     IInv, AInv, at, doing, result, TypeOK, CallerType
<1>18. CASE StartEnds(Worker) /\ UNCHANGED uiVars
  BY <1>18, OnlyWorker, GroupsUnchanged DEF StartEnds, StartReturns, Return,
     GoTo, ClientKnows, Refreshing, Telling, OpAt, EInv, IInv, AInv, at, doing,
     result, TypeOK, CallerType
<1>19. CASE PollRestarts(Worker) /\ UNCHANGED uiVars
  BY <1>19, OnlyWorker, GroupsUnchanged DEF PollRestarts, GoTo, Return,
     ClientKnows, Restarting, Telling, OpAt, EInv, IInv, AInv, at, doing,
     result, TypeOK, CallerType
<1>20. CASE (Dropped(Worker) \/ Crash) /\ UNCHANGED uiVars
  BY <1>20, OnlyWorker, GroupsUnchanged DEF Dropped, Forgets, Crash,
     ClientKnows, AInv
<1>21. CASE (SendToChild) /\ UNCHANGED uiVars
  BY <1>21, OnlyWorker, GroupsUnchanged DEF SendToChild, ClientKnows,
     Refreshing, Restarting, Telling, AInv, at, doing, result, uiVars
<1>22. CASE (SendSpawns) /\ UNCHANGED uiVars
  BY <1>22, OnlyWorker, GroupsUnchanged DEF SendSpawns, ClientKnows,
     Refreshing, Restarting, Telling, AInv, at, doing, result, uiVars
<1>23. CASE (ReaderHangsUp) /\ UNCHANGED uiVars
  BY <1>23, OnlyWorker, GroupsUnchanged DEF ReaderHangsUp, ClientKnows,
     Refreshing, Restarting, Telling, AInv, at, doing, result, uiVars
<1>24. CASE (ReaderReports) /\ UNCHANGED uiVars
  BY <1>24, OnlyWorker, GroupsUnchanged DEF ReaderReports, ClientKnows,
     Refreshing, Restarting, Telling, AInv, at, doing, result, uiVars
<1>25. CASE (ChildServes) /\ UNCHANGED uiVars
  BY <1>25, OnlyWorker, GroupsUnchanged DEF ChildServes, ClientKnows,
     Refreshing, Restarting, Telling, AInv, at, doing, result, uiVars
<1>26. CASE (ChildDies) /\ UNCHANGED uiVars
  BY <1>26, OnlyWorker, GroupsUnchanged DEF ChildDies, ClientKnows,
     Refreshing, Restarting, Telling, AInv, at, doing, result, uiVars
<1>27. CASE (LoopOpensBus) /\ UNCHANGED uiVars
  BY <1>27, OnlyWorker, GroupsUnchanged DEF LoopOpensBus, ClientKnows,
     Refreshing, Restarting, Telling, AInv, at, doing, result, uiVars
<1>28. CASE (LoopGivesUp) /\ UNCHANGED uiVars
  BY <1>28, OnlyWorker, GroupsUnchanged DEF LoopGivesUp, ClientKnows,
     Refreshing, Restarting, Telling, AInv, at, doing, result, uiVars
<1>29. CASE (LinkUp) /\ UNCHANGED uiVars
  BY <1>29, OnlyWorker, GroupsUnchanged DEF LinkUp, ClientKnows, Refreshing,
     Restarting, Telling, AInv, at, doing, result, uiVars
<1>30. CASE (LinkLost) /\ UNCHANGED uiVars
  BY <1>30, OnlyWorker, GroupsUnchanged DEF LinkLost, ClientKnows,
     Refreshing, Restarting, Telling, AInv, at, doing, result, uiVars
<1>31. CASE (RetryComesDue) /\ UNCHANGED uiVars
  BY <1>31, OnlyWorker, GroupsUnchanged DEF RetryComesDue, ClientKnows,
     Refreshing, Restarting, Telling, AInv, at, doing, result, uiVars
<1>32. CASE (LoopReports) /\ UNCHANGED uiVars
  BY <1>32, OnlyWorker, GroupsUnchanged DEF LoopReports, ClientKnows,
     Refreshing, Restarting, Telling, AInv, at, doing, result, uiVars
<1> QED
  BY <1>1, <1>2, <1>3, <1>4, <1>5, <1>6, <1>7, <1>8, <1>9, <1>10, <1>11,
     <1>12, <1>13, <1>14, <1>15, <1>16, <1>17, <1>18, <1>19, <1>20, <1>21,
     <1>22, <1>23, <1>24, <1>25, <1>26, <1>27, <1>28, <1>29, <1>30, <1>31, <1>32,
     AppSteps DEF TakesCall, Polls, Goes, Others, GoesOn, Client, ChildSteps,
     EInv, IInv

-----------------------------------------------------------------------------
(* The application as a use of the core.                                   *)

\* What the application does to the core is a step of the core.
LEMMA AppStepsCore ==
    ASSUME [AppNext]_appVars
    PROVE  [Next]_vars
<1>1. CASE UserCall \/ PollTick \/ PollAgain \/ handleResume \/ shutdown
             \/ refreshPhoneKeyState
  BY <1>1, OnlyWorker DEF UserCall, PollTick, PollAgain, handleResume, shutdown,
     refreshPhoneKeyState, Begins, Next
<1>2. CASE WorkerSteps
  <2>1. CASE CallReturns
    BY <2>1, OnlyWorker DEF CallReturns, Next
  <2> QED
    BY <1>1, <1>2, <2>1, OnlyWorker DEF WorkerSteps, Next
<1>3. CASE ChildSteps \/ RetryComesDue \/ Crash
  BY <1>3 DEF Next
<1>4. CASE Launch
  BY <1>4 DEF Launch, Next
<1>5. CASE Suspends \/ Activates \/ UNCHANGED appVars
  BY <1>5 DEF Suspends, Activates, appVars
<1> QED
  BY <1>1, <1>2, <1>3, <1>4, <1>5 DEF AppNext

\* The one worker thread of the application only uses the core as any number of
\* callers might, so that all that is proved of the core holds for it: its
\* pairings, its service and its events (CoreWorker).
THEOREM AppRunsCore == AppSpec => Spec
<1>1. AppInit => Init
  BY DEF AppInit
<1> QED
  BY <1>1, AppStepsCore, PTL DEF AppSpec, Spec

LEMMA AppInitInv == AppInit => AInv
<1> SUFFICES ASSUME AppInit
             PROVE  AInv
  OBVIOUS
<1>1. /\ at = "idle" /\ doing = "none" /\ todo = "nothing"
      /\ ~up /\ ~started /\ conn = "none" /\ wire = "idle"
  BY OnlyWorker DEF AppInit, Init, Fresh, at, doing
<1> QED
  BY <1>1 DEF AInv, OpAt, StartedWanted, LeavesNoChild, NewsEligible, News,
     TodoFollows, ResultIsTrue, NewsIsServed, News, ClientKnows

LEMMA AppInvKept ==
    ASSUME EInv, AInv, [AppNext]_appVars
    PROVE  AInv'
<1>1. CASE AppNext
  <2>1. EInv'
    BY AppStepsCore, EventsKept
  <2> QED
    BY <1>1, <2>1, OpAtKept, StartedWantedKept, LeavesNoChildKept,
       NewsEligibleKept, TodoFollowsKept, ResultIsTrueKept, NewsIsServedKept,
       ClientKnowsKept DEF AInv
<1>2. CASE UNCHANGED appVars
  <2>1. UNCHANGED <<up, cfg, priv, started, enabled, retry, wire, conn, events, unsaid>>
    BY <1>2 DEF appVars, vars, diskVars, serviceVars, childVars
  <2>2. UNCHANGED <<pc, op, out, todo, keepAwake>>
    BY <1>2 DEF appVars, vars, callerVars, uiVars
  <2> QED
    BY <2>1, <2>2 DEF AInv, OpAt, StartedWanted, LeavesNoChild, NewsEligible,
       News,
       TodoFollows, ResultIsTrue, NewsIsServed, ClientKnows, NewsQueued,
       Eligible, Refreshing, Restarting, Telling, at, doing, result
<1> QED
  BY <1>1, <1>2

\* AInv holds throughout.
LEMMA AppInvariant == AppSpec => []AInv
<1>1. AppSpec => []EInv
  BY AppRunsCore, EventInvariant, PTL
<1> QED
  BY <1>1, AppInitInv, AppInvKept, PTL DEF AppSpec

\* Whatever the service, its child and the user do, the phone is kept awake
\* when the worker is done exactly if the core counts the service as started,
\* for any vehicles, operations and capacity of the event queue.
THEOREM PhoneIsAwakeWhileServing == AppSpec => []AwakeWhileServing
<1>1. AInv => AwakeWhileServing
  BY DEF AInv, OpAt, ClientKnows, AwakeWhileServing, Free, Refreshing,
     Restarting, Telling, at, doing
<1> QED
  BY <1>1, AppInvariant, PTL
=============================================================================
