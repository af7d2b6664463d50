------------------------- MODULE PhoneKeyEventProofs ------------------------
(***************************************************************************)
(* A phone-key service that is lost is not forgotten: its loss is told of, *)
(* no news of a dead child is left, and somebody will start it again.      *)
(***************************************************************************)
EXTENDS PhoneKeyCoreProofs

LossQueued == \E i \in DOMAIN events : events[i] = "stopped"
NewsQueued == \E i \in DOMAIN events : events[i] \in {"near", "lost"}

\* An operation that stops the service first, past that point.
Retiring(c) ==
    \/ pc[c] = "stopped"
    \/ op[c] = "replace_key" /\ pc[c] \in {"keygen", "writePub"}

\* News in the queue is that of a child that has not been given up.
NewsIsFresh == NewsQueued => conn \in {"up", "gone", "closing"}

\* A service that is being stopped is no longer wanted, and once stopped no
\* longer counts as started; neither does one that is being started, which is
\* wanted.
StoppedIsOff ==
    \A c \in Callers :
      /\ pc[c] = "presence-stop" \/ Retiring(c) => ~enabled
      /\ pc[c] = "presence-start" \/ Retiring(c) => ~started
      /\ pc[c] = "presence-start" => enabled

\* Only an eligible service is wanted, and only while the process runs.
WantedIsEligible ==
    /\ enabled => Eligible
    /\ ~up => ~enabled /\ ~started

Starting == \E c \in Callers : pc[c] \in {"start", "presence-start"}

\* A wanted service that is down will be retried or is being started.
WantedIsStarted ==
    enabled /\ ~started => retry # "none" \/ Starting

\* What is or is about to be taken for started.
Running == started \/ (wire = "ok" /\ \E c \in Callers : pc[c] = "presence-start")
LossNoticed ==
    \/ conn \in {"gone", "closing"} \/ LossQueued \/ "stopped" \in unsaid
    \/ \E c \in Callers : pc[c] \in {"pollGate", "presence-stop"}

\* A service without its presence loop, or without a child that could report
\* it, is one whose loss is noticed, or that is being stopped.
LossIsNoticed ==
    Running /\ (mode = "off" \/ conn \in {"none", "closed"}) => LossNoticed

\* What a child still has to write will be heard; and it is no session of a loop
\* that was stopped, unless the service is not running or being stopped.
UnsaidIsHeard == unsaid # {} => conn = "up"
UnsaidIsCurrent ==
    Running /\ mode = "off" /\ "near" \in unsaid =>
        \E c \in Callers : pc[c] = "presence-stop"

\* A presence request is not refused; one that was not sent, or a stop that
\* was served, leaves no presence loop.
PresenceIsServed ==
    /\ wire = "failed" => mode = "off"
    /\ \A c \in Callers :
         /\ pc[c] \in {"presence-start", "presence-stop"} => wire # "rejected"
         /\ pc[c] = "presence-stop" /\ wire = "ok" => mode = "off"

\* A child with a presence loop has it for the service that runs, or for the
\* one that is being started, or is being told to end it.
LoopIsWanted ==
    mode # "off" =>
        \/ enabled /\ started /\ retry = "none"
        \/ \E c \in Callers : pc[c] \in {"presence-start", "presence-stop"}

EInv ==
    /\ IInv
    /\ NewsIsFresh /\ StoppedIsOff /\ WantedIsEligible /\ WantedIsStarted
    /\ LossIsNoticed /\ PresenceIsServed /\ LoopIsWanted
    /\ UnsaidIsHeard /\ UnsaidIsCurrent

-----------------------------------------------------------------------------
(* EInv is inductive: one lemma for each part.                             *)

\* What the ways to change the queue do to the kinds of events in it.
LEMMA QueueSteps ==
    ASSUME TypeOK
    PROVE  /\ events' = <<>> => ~NewsQueued' /\ ~LossQueued'
           /\ events' = <<"stopped">> => ~NewsQueued' /\ LossQueued'
           /\ events' = events =>
                (NewsQueued' <=> NewsQueued) /\ (LossQueued' <=> LossQueued)
           /\ events # <<>> /\ events' = Tail(events) =>
                /\ NewsQueued' => NewsQueued
                /\ LossQueued /\ Head(events) # "stopped" => LossQueued'
           /\ push("stopped") => LossQueued' /\ (NewsQueued' => NewsQueued)
<1>1. events \in Seq(Event)
  BY DEF TypeOK, ChildType
<1>2. events' = <<>> => ~NewsQueued' /\ ~LossQueued'
  BY DEF NewsQueued, LossQueued
<1>3. events' = <<"stopped">> => ~NewsQueued' /\ LossQueued'
  BY DEF NewsQueued, LossQueued
<1>4. events' = events =>
        (NewsQueued' <=> NewsQueued) /\ (LossQueued' <=> LossQueued)
  BY DEF NewsQueued, LossQueued
<1>5. ASSUME events # <<>>, events' = Tail(events)
      PROVE  /\ NewsQueued' => NewsQueued
             /\ LossQueued /\ Head(events) # "stopped" => LossQueued'
  <2>1. /\ Len(events') = Len(events) - 1
        /\ \A i \in 1 .. Len(events') : events'[i] = events[i + 1]
        /\ DOMAIN events = 1 .. Len(events) /\ DOMAIN events' = 1 .. Len(events')
        /\ Head(events) = events[1] /\ Len(events) \in Nat
    BY <1>1, <1>5
  <2>2. NewsQueued' => NewsQueued
    <3>1. \A i \in DOMAIN events' : i + 1 \in DOMAIN events /\ events'[i] = events[i + 1]
      BY <2>1
    <3> QED
      BY <3>1 DEF NewsQueued
  <2>3. ASSUME NEW i \in DOMAIN events, events[i] = "stopped", Head(events) # "stopped"
        PROVE  LossQueued'
    <3>1. i - 1 \in 1 .. Len(events') /\ events'[i - 1] = events[i]
      BY <2>1, <2>3
    <3> QED
      BY <2>1, <2>3, <3>1 DEF LossQueued
  <2> QED
    BY <2>2, <2>3 DEF LossQueued
<1>6. ASSUME push("stopped")
      PROVE  LossQueued' /\ (NewsQueued' => NewsQueued)
  <2>1. PICK s \in Seq(Event) :
          /\ s = events \/ (s = Tail(events) /\ events # <<>>)
          /\ events' = Append(s, "stopped")
    <3>1. CASE Len(events) < EventCap
      BY <1>1, <1>6, <3>1 DEF push
    <3>2. CASE ~(Len(events) < EventCap)
      <4>1. events # <<>>
        BY <1>1, <3>2, CoreConstants
      <4>2. Tail(events) \in Seq(Event)
        BY <1>1, <4>1
      <4>3. events' = Append(Tail(events), "stopped")
        BY <1>6, <3>2 DEF push
      <4> QED
        BY <4>1, <4>2, <4>3
    <3> QED
      BY <3>1, <3>2
  <2>2. /\ Len(s) \in Nat /\ Len(events') = Len(s) + 1
        /\ events'[Len(s) + 1] = "stopped"
        /\ \A i \in 1 .. Len(s) : events'[i] = s[i]
        /\ DOMAIN events' = 1 .. Len(events') /\ DOMAIN s = 1 .. Len(s)
    BY <2>1
  <2>3. ASSUME NEW i \in DOMAIN s
        PROVE  \E j \in DOMAIN events : events[j] = s[i]
    <3>1. CASE s = events
      BY <2>3, <3>1
    <3>2. CASE s = Tail(events) /\ events # <<>>
      <4>1. /\ Len(events) \in Nat /\ DOMAIN events = 1 .. Len(events)
            /\ Len(s) = Len(events) - 1 /\ DOMAIN s = 1 .. Len(s)
            /\ \A k \in 1 .. Len(s) : s[k] = events[k + 1]
        BY <1>1, <3>2
      <4>2. i + 1 \in DOMAIN events /\ events[i + 1] = s[i]
        BY <2>3, <4>1
      <4> QED
        BY <4>2
    <3> QED
      BY <2>1, <3>1, <3>2
  <2>4. LossQueued'
    BY <2>2 DEF LossQueued
  <2>5. ASSUME NEW i \in DOMAIN events', events'[i] \in {"near", "lost"}
        PROVE  NewsQueued
    <3>1. i \in DOMAIN s /\ events'[i] = s[i]
      BY <2>2, <2>5
    <3> QED
      BY <2>3, <2>5, <3>1 DEF NewsQueued
  <2> QED
    BY <2>4, <2>5 DEF NewsQueued
<1> QED
  BY <1>2, <1>3, <1>4, <1>5, <1>6

\* What a caller that goes to p does to whether the service is being started.
LEMMA StartingSteps ==
    ASSUME TypeOK
    PROVE  /\ pc' = pc => (Starting' <=> Starting)
           /\ \A c \in Callers : \A p :
                /\ GoTo(c, p) /\ p \in {"start", "presence-start"} => Starting'
                /\ /\ GoTo(c, p) /\ Starting
                   /\ pc[c] \notin {"start", "presence-start"}
                   => Starting'
<1>1. pc \in [Callers -> Position]
  BY DEF TypeOK, CallerType
<1>2. pc' = pc => (Starting' <=> Starting)
  BY DEF Starting
<1>3. ASSUME NEW c \in Callers, NEW p, GoTo(c, p), p \in {"start", "presence-start"}
      PROVE  Starting'
  <2>1. pc'[c] = p
    BY <1>1, <1>3 DEF GoTo
  <2> QED
    BY <1>3, <2>1 DEF Starting
<1>4. ASSUME NEW c \in Callers, NEW p, GoTo(c, p), Starting,
             pc[c] \notin {"start", "presence-start"}
      PROVE  Starting'
  <2>1. PICK d \in Callers : pc[d] \in {"start", "presence-start"}
    BY <1>4 DEF Starting
  <2>2. pc'[d] = pc[d]
    BY <1>1, <1>4, <2>1 DEF GoTo
  <2> QED
    BY <2>1, <2>2 DEF Starting
<1> QED
  BY <1>2, <1>3, <1>4

\* EInv is inductive: news in the queue is that of a child that has not
\* been given up.
LEMMA NewsIsFreshKept ==
    ASSUME EInv, Next
    PROVE  NewsIsFresh'
<1>1. ASSUME NEW c \in Callers, ResumeBegins(c)
      PROVE  NewsIsFresh'
  BY <1>1, QueueSteps DEF EInv, NewsIsFresh, ResumeBegins, invalidate,
     kill, IInv
<1>2. ASSUME NEW c \in Callers, PollBegins(c)
      PROVE  NewsIsFresh'
  BY <1>2, QueueSteps DEF EInv, NewsIsFresh, PollBegins, IInv
<1>3. ASSUME NEW c \in Callers,
             (\E o \in {"run", "share"} : RunBegins(c, o)) \/
             GenerateKeyBegins(c) \/ ReplaceKeyBegins(c) \/ SetConfigBegins(c)
             \/ PairBegins(c) \/ DropBegins(c) \/ StartBegins(c)
      PROVE  NewsIsFresh'
  BY <1>3, QueueSteps, GroupsUnchanged DEF EInv, NewsIsFresh, RunBegins,
     GenerateKeyBegins, ReplaceKeyBegins, SetConfigBegins, PairBegins,
     DropBegins, StartBegins, IInv
<1>4. ASSUME NEW c \in Callers, RunEnds(c)
      PROVE  NewsIsFresh'
  BY <1>4, QueueSteps, GroupsUnchanged DEF EInv, NewsIsFresh, RunEnds,
     Replied, Unsuccessful, NoReply, kill, transport_failed, IInv
<1>5. ASSUME NEW c \in Callers, StopEnds(c)
      PROVE  NewsIsFresh'
  BY <1>5, QueueSteps DEF EInv, NewsIsFresh, StopEnds, Replied,
     invalidate, kill, IInv
<1>6. ASSUME NEW c \in Callers, SetConfigStopped(c)
      PROVE  NewsIsFresh'
  BY <1>6, QueueSteps DEF EInv, NewsIsFresh, SetConfigStopped, invalidate,
     kill, IInv
<1>7. ASSUME NEW c \in Callers, ReplaceKeyStopped(c)
      PROVE  NewsIsFresh'
  BY <1>7, QueueSteps DEF EInv, NewsIsFresh, ReplaceKeyStopped,
     invalidate, kill, IInv
<1>8. ASSUME NEW c \in Callers, KeygenEnds(c)
      PROVE  NewsIsFresh'
  BY <1>8, QueueSteps, GroupsUnchanged DEF EInv, NewsIsFresh, KeygenEnds,
     Replied, Unsuccessful, NoReply, kill, transport_failed, IInv
<1>9. ASSUME NEW c \in Callers, WritePub(c)
      PROVE  NewsIsFresh'
  BY <1>9, QueueSteps, GroupsUnchanged DEF EInv, NewsIsFresh, WritePub,
     invalidate, kill, IInv
<1>10. ASSUME NEW c \in Callers, PairAnswered(c)
      PROVE  NewsIsFresh'
  BY <1>10, QueueSteps, GroupsUnchanged DEF EInv, NewsIsFresh,
     PairAnswered, Replied, Unsuccessful, NoReply, kill, transport_failed,
     IInv
<1>11. ASSUME NEW c \in Callers, StartChecks(c)
      PROVE  NewsIsFresh'
  BY <1>11, QueueSteps, GroupsUnchanged DEF EInv, NewsIsFresh,
     StartChecks, invalidate, kill, IInv
<1>12. ASSUME NEW c \in Callers, StartEnds(c)
      PROVE  NewsIsFresh'
  BY <1>12, QueueSteps, GroupsUnchanged DEF EInv, NewsIsFresh, StartEnds,
     Replied, Unsuccessful, NoReply, kill, transport_failed, IInv
<1>13. ASSUME NEW c \in Callers, PollRestarts(c)
      PROVE  NewsIsFresh'
  BY <1>13, QueueSteps, GroupsUnchanged DEF EInv, NewsIsFresh,
     PollRestarts, invalidate, kill, IInv
<1>14. ASSUME NEW c \in Callers, Dropped(c)
      PROVE  NewsIsFresh'
  BY <1>14, QueueSteps DEF EInv, NewsIsFresh, Dropped, Forgets, IInv
<1>15. ASSUME NEW c \in Callers, Stop(c) \/ PairStopped(c) \/ SavePaired(c)
      PROVE  NewsIsFresh'
  BY <1>15, QueueSteps, GroupsUnchanged DEF EInv, NewsIsFresh, Stop,
     PairStopped, SavePaired, IInv
<1>16. CASE ReaderHangsUp
  BY <1>16, QueueSteps DEF EInv, NewsIsFresh, ReaderHangsUp, IInv
<1>17. CASE ReaderReports
  BY <1>17, QueueSteps DEF EInv, NewsIsFresh, ReaderReports, IInv
<1>18. CASE ChildDies
  BY <1>18, QueueSteps DEF EInv, NewsIsFresh, ChildDies, IInv
<1>19. CASE LoopGivesUp
  BY <1>19, QueueSteps DEF EInv, NewsIsFresh, LoopGivesUp, Emit, IInv
<1>20. CASE LinkUp
  BY <1>20, QueueSteps DEF EInv, NewsIsFresh, LinkUp, Emit, IInv
<1>21. CASE LinkLost
  BY <1>21, QueueSteps DEF EInv, NewsIsFresh, LinkLost, Emit, IInv
<1>22. CASE ChildServes \/ LoopOpensBus
  BY <1>22, QueueSteps DEF EInv, NewsIsFresh, ChildServes, LoopOpensBus,
     IInv
<1>23. CASE SendToChild
  BY <1>23, QueueSteps, GroupsUnchanged DEF EInv, NewsIsFresh,
     SendToChild, kill, transport_failed, IInv
<1>24. CASE SendSpawns
  BY <1>24, QueueSteps DEF EInv, NewsIsFresh, SendSpawns,
     transport_failed, IInv
<1>25. CASE Crash
  BY <1>25, QueueSteps DEF EInv, NewsIsFresh, Crash, Forgets, IInv
<1>26. CASE RetryComesDue \/ Boot
  BY <1>26, QueueSteps, GroupsUnchanged DEF EInv, NewsIsFresh,
     RetryComesDue, Boot, IInv
<1>27. ASSUME NEW c \in Callers, Returns(c)
      PROVE  NewsIsFresh'
  BY <1>27, QueueSteps, GroupsUnchanged DEF EInv, NewsIsFresh, Returns,
     IInv
<1>28. CASE LoopReports
  BY <1>28 DEF EInv, NewsIsFresh, UnsaidIsHeard, LoopReports
<1> QED
  BY <1>1, <1>2, <1>3, <1>4, <1>5, <1>6, <1>7, <1>8, <1>9, <1>10, <1>11,
     <1>12, <1>13, <1>14, <1>15, <1>16, <1>17, <1>18, <1>19, <1>20, <1>21,
     <1>22, <1>23, <1>24, <1>25, <1>26, <1>27, <1>28 DEF Next, Begins, GoesOn,
     Client, ChildSteps

\* EInv is inductive: a service that is being stopped is not wanted, and
\* does not count as started.
LEMMA StoppedIsOffKept ==
    ASSUME EInv, Next
    PROVE  StoppedIsOff'
<1>1. ASSUME NEW c \in Callers, NEW o \in {"run", "share"}, RunBegins(c, o)
      PROVE  StoppedIsOff'
  BY <1>1, GroupsUnchanged DEF EInv, StoppedIsOff, Retiring, RunBegins,
     Enter, GoTo, Refuse, IInv, TypeOK, CallerType
<1>2. ASSUME NEW c \in Callers, GenerateKeyBegins(c)
      PROVE  StoppedIsOff'
  BY <1>2, GroupsUnchanged DEF EInv, StoppedIsOff, Retiring,
     GenerateKeyBegins, Refuse, GoTo, Enter, IInv, TypeOK, CallerType
<1>3. ASSUME NEW c \in Callers, ReplaceKeyBegins(c)
      PROVE  StoppedIsOff'
  BY <1>3, GroupsUnchanged DEF EInv, StoppedIsOff, Retiring,
     ReplaceKeyBegins, Enter, GoTo, Refuse, IInv, TypeOK, CallerType
<1>4. ASSUME NEW c \in Callers, SetConfigBegins(c)
      PROVE  StoppedIsOff'
  BY <1>4, GroupsUnchanged DEF EInv, StoppedIsOff, Retiring,
     SetConfigBegins, Enter, GoTo, Refuse, IInv, TypeOK, CallerType
<1>5. ASSUME NEW c \in Callers, PairBegins(c)
      PROVE  StoppedIsOff'
  BY <1>5, GroupsUnchanged DEF EInv, StoppedIsOff, Retiring, PairBegins,
     Refuse, GoTo, Enter, IInv, TypeOK, CallerType
<1>6. ASSUME NEW c \in Callers, DropBegins(c)
      PROVE  StoppedIsOff'
  BY <1>6, GroupsUnchanged DEF EInv, StoppedIsOff, Retiring, DropBegins,
     Enter, GoTo
<1>7. ASSUME NEW c \in Callers, ResumeBegins(c)
      PROVE  StoppedIsOff'
  BY <1>7 DEF EInv, StoppedIsOff, Retiring, ResumeBegins, GoTo
<1>8. ASSUME NEW c \in Callers, StartBegins(c)
      PROVE  StoppedIsOff'
  BY <1>8, GroupsUnchanged DEF EInv, StoppedIsOff, Retiring, StartBegins,
     GoTo
<1>9. ASSUME NEW c \in Callers, PollBegins(c)
      PROVE  StoppedIsOff'
  BY <1>9, GroupsUnchanged DEF EInv, StoppedIsOff, Retiring, PollBegins,
     GoTo, IInv, TypeOK, CallerType
<1>10. ASSUME NEW c \in Callers, RunEnds(c)
      PROVE  StoppedIsOff'
  BY <1>10, GroupsUnchanged DEF EInv, StoppedIsOff, Retiring, RunEnds,
     Return, GoTo, IInv, TypeOK, CallerType
<1>11. ASSUME NEW c \in Callers, Stop(c)
      PROVE  StoppedIsOff'
  BY <1>11 DEF EInv, StoppedIsOff, Retiring, Stop, GoTo, IInv, GateHeld,
     Gated, TypeOK, CallerType
<1>12. ASSUME NEW c \in Callers, StopEnds(c)
      PROVE  StoppedIsOff'
  BY <1>12 DEF EInv, StoppedIsOff, Retiring, StopEnds, GoTo
<1>13. ASSUME NEW c \in Callers, SetConfigStopped(c)
      PROVE  StoppedIsOff'
  BY <1>13, GroupsUnchanged DEF EInv, StoppedIsOff, Retiring,
     SetConfigStopped, GoTo, Return, IInv, TypeOK, CallerType
<1>14. ASSUME NEW c \in Callers, ReplaceKeyStopped(c)
      PROVE  StoppedIsOff'
  BY <1>14, GroupsUnchanged DEF EInv, StoppedIsOff, Retiring,
     ReplaceKeyStopped, GoTo
<1>15. ASSUME NEW c \in Callers, PairStopped(c)
      PROVE  StoppedIsOff'
  BY <1>15, GroupsUnchanged DEF EInv, StoppedIsOff, Retiring, PairStopped,
     GoTo, Return, IInv, TypeOK, CallerType
<1>16. ASSUME NEW c \in Callers, KeygenEnds(c)
      PROVE  StoppedIsOff'
  BY <1>16, GroupsUnchanged DEF EInv, StoppedIsOff, Retiring, KeygenEnds,
     GoTo, Return, IInv, TypeOK, CallerType
<1>17. ASSUME NEW c \in Callers, WritePub(c)
      PROVE  StoppedIsOff'
  BY <1>17, GroupsUnchanged DEF EInv, StoppedIsOff, Retiring, WritePub,
     Return, GoTo, IInv, TypeOK, CallerType
<1>18. ASSUME NEW c \in Callers, PairAnswered(c)
      PROVE  StoppedIsOff'
  BY <1>18, GroupsUnchanged DEF EInv, StoppedIsOff, Retiring,
     PairAnswered, GoTo, Return, IInv, TypeOK, CallerType
<1>19. ASSUME NEW c \in Callers, SavePaired(c)
      PROVE  StoppedIsOff'
  BY <1>19, GroupsUnchanged DEF EInv, StoppedIsOff, Retiring, SavePaired,
     GoTo, Return, IInv, TypeOK, CallerType
<1>20. ASSUME NEW c \in Callers, StartChecks(c)
      PROVE  StoppedIsOff'
  BY <1>20, CoreConstants DEF EInv, StoppedIsOff, Retiring, StartChecks,
     StartReturns, Return, GoTo, IInv, GateHeld, Gated, TypeOK, CallerType
<1>21. ASSUME NEW c \in Callers, StartEnds(c)
      PROVE  StoppedIsOff'
  BY <1>21 DEF EInv, StoppedIsOff, Retiring, StartEnds, StartReturns,
     Return, GoTo, IInv, GateHeld, Gated, TypeOK, CallerType
<1>22. ASSUME NEW c \in Callers, PollRestarts(c)
      PROVE  StoppedIsOff'
  BY <1>22 DEF EInv, StoppedIsOff, Retiring, PollRestarts, GoTo, Return,
     IInv, TypeOK, CallerType
<1>23. ASSUME NEW c \in Callers, Dropped(c)
      PROVE  StoppedIsOff'
  BY <1>23 DEF EInv, StoppedIsOff, Retiring, Dropped, Forgets
<1>24. CASE ReaderHangsUp \/ ReaderReports \/ ChildServes \/ ChildDies \/
           LoopOpensBus \/ LoopGivesUp \/ LinkUp \/ LinkLost \/ LoopReports
  BY <1>24, GroupsUnchanged DEF EInv, StoppedIsOff, Retiring,
     ReaderHangsUp, ReaderReports, ChildServes, ChildDies, LoopOpensBus,
     LoopGivesUp, LinkUp, LinkLost, LoopReports
<1>25. CASE Crash
  BY <1>25 DEF EInv, StoppedIsOff, Retiring, Crash, Forgets
<1>26. CASE SendToChild \/ SendSpawns \/ RetryComesDue \/ Boot
  BY <1>26, GroupsUnchanged DEF EInv, StoppedIsOff, Retiring, SendToChild,
     SendSpawns, RetryComesDue, Boot
<1>27. ASSUME NEW c \in Callers, Returns(c)
      PROVE  StoppedIsOff'
  BY <1>27, GroupsUnchanged DEF EInv, StoppedIsOff, Retiring, Returns,
     GoTo
<1> QED
  BY <1>1, <1>2, <1>3, <1>4, <1>5, <1>6, <1>7, <1>8, <1>9, <1>10, <1>11,
     <1>12, <1>13, <1>14, <1>15, <1>16, <1>17, <1>18, <1>19, <1>20, <1>21,
     <1>22, <1>23, <1>24, <1>25, <1>26, <1>27 DEF Next, Begins, GoesOn,
     Client, ChildSteps

\* EInv is inductive: only an eligible service is wanted.
LEMMA WantedIsEligibleKept ==
    ASSUME EInv, Next
    PROVE  WantedIsEligible'
<1>1. ASSUME NEW c \in Callers, ResumeBegins(c)
      PROVE  WantedIsEligible'
  BY <1>1, GroupsUnchanged DEF EInv, WantedIsEligible, Eligible,
     ResumeBegins
<1>2. ASSUME NEW c \in Callers,
             (\E o \in {"run", "share"} : RunBegins(c, o)) \/
             GenerateKeyBegins(c) \/ ReplaceKeyBegins(c) \/ SetConfigBegins(c)
             \/ PairBegins(c) \/ DropBegins(c) \/ StartBegins(c) \/
             PollBegins(c)
      PROVE  WantedIsEligible'
  <2>1. UNCHANGED <<up, enabled, started, cfg, priv>>
    BY <1>2, GroupsUnchanged DEF RunBegins, GenerateKeyBegins,
       ReplaceKeyBegins, SetConfigBegins, PairBegins, DropBegins, StartBegins,
       PollBegins
  <2> QED
    BY <2>1 DEF EInv, WantedIsEligible, Eligible
<1>3. ASSUME NEW c \in Callers, Stop(c)
      PROVE  WantedIsEligible'
  BY <1>3, GroupsUnchanged DEF EInv, WantedIsEligible, Eligible, Stop
<1>4. ASSUME NEW c \in Callers, StopEnds(c)
      PROVE  WantedIsEligible'
  BY <1>4, GroupsUnchanged DEF EInv, WantedIsEligible, Eligible, StopEnds
<1>5. ASSUME NEW c \in Callers, SetConfigStopped(c)
      PROVE  WantedIsEligible'
  BY <1>5, GroupsUnchanged DEF EInv, WantedIsEligible, SetConfigStopped,
     StoppedIsOff, Retiring
<1>6. ASSUME NEW c \in Callers, ReplaceKeyStopped(c)
      PROVE  WantedIsEligible'
  BY <1>6, GroupsUnchanged DEF EInv, WantedIsEligible, ReplaceKeyStopped,
     StoppedIsOff, Retiring
<1>7. ASSUME NEW c \in Callers, SavePaired(c)
      PROVE  WantedIsEligible'
  BY <1>7, GroupsUnchanged DEF EInv, WantedIsEligible, Eligible,
     SavePaired, IInv, TypeOK, ServiceType, Config
<1>8. ASSUME NEW c \in Callers, StartChecks(c)
      PROVE  WantedIsEligible'
  BY <1>8, GroupsUnchanged DEF EInv, WantedIsEligible, Eligible,
     StartChecks, StartReturns, IInv, DownIsIdle
<1>9. ASSUME NEW c \in Callers, StartEnds(c)
      PROVE  WantedIsEligible'
  BY <1>9, GroupsUnchanged DEF EInv, WantedIsEligible, Eligible,
     StartEnds, IInv, DownIsIdle
<1>10. ASSUME NEW c \in Callers, PollRestarts(c)
      PROVE  WantedIsEligible'
  BY <1>10, GroupsUnchanged DEF EInv, WantedIsEligible, Eligible,
     PollRestarts
<1>11. ASSUME NEW c \in Callers, Dropped(c)
      PROVE  WantedIsEligible'
  BY <1>11, GroupsUnchanged DEF EInv, WantedIsEligible, Eligible, Dropped,
     Forgets
<1>12. ASSUME NEW c \in Callers,
             RunEnds(c) \/ PairStopped(c) \/ KeygenEnds(c) \/ WritePub(c) \/
             PairAnswered(c)
      PROVE  WantedIsEligible'
  BY <1>12, GroupsUnchanged DEF EInv, WantedIsEligible, Eligible, RunEnds,
     PairStopped, KeygenEnds, WritePub, PairAnswered
<1>13. CASE ChildServes
  BY <1>13, GroupsUnchanged DEF EInv, WantedIsEligible, Eligible,
     ChildServes, ServesPresence, ServesKeygen, ServesPair, ServesCommand
<1>14. CASE ReaderHangsUp \/ ReaderReports \/ ChildDies \/ LoopOpensBus \/
           LoopGivesUp \/ LinkUp \/ LinkLost \/ LoopReports
  BY <1>14, GroupsUnchanged DEF EInv, WantedIsEligible, Eligible,
     ReaderHangsUp, ReaderReports, ChildDies, LoopOpensBus, LoopGivesUp,
     LinkUp, LinkLost, LoopReports
<1>15. CASE Boot
  BY <1>15, GroupsUnchanged DEF EInv, WantedIsEligible, Eligible, Boot
<1>16. CASE Crash
  BY <1>16, GroupsUnchanged DEF EInv, WantedIsEligible, Eligible, Crash,
     Forgets
<1>17. CASE SendToChild \/ SendSpawns \/ RetryComesDue
  BY <1>17, GroupsUnchanged DEF EInv, WantedIsEligible, Eligible,
     SendToChild, SendSpawns, RetryComesDue
<1>18. ASSUME NEW c \in Callers, Returns(c)
      PROVE  WantedIsEligible'
  BY <1>18, GroupsUnchanged DEF EInv, WantedIsEligible, Eligible, Returns
<1> QED
  BY <1>1, <1>2, <1>3, <1>4, <1>5, <1>6, <1>7, <1>8, <1>9, <1>10, <1>11,
     <1>12, <1>13, <1>14, <1>15, <1>16, <1>17, <1>18 DEF Next, Begins,
     GoesOn, Client, ChildSteps

\* EInv is inductive: a wanted service that is down is retried or being
\* started.
LEMMA WantedIsStartedKept ==
    ASSUME EInv, Next
    PROVE  WantedIsStarted'
<1>1. ASSUME NEW c \in Callers, NEW o \in {"run", "share"}, RunBegins(c, o)
      PROVE  WantedIsStarted'
  <2>1. UNCHANGED <<enabled, started, retry>>
    BY <1>1, GroupsUnchanged DEF RunBegins
  <2>2. Starting => Starting'
    BY <1>1, StartingSteps DEF RunBegins, Idle, Enter, Refuse, EInv, IInv
  <2> QED
    BY <2>1, <2>2 DEF EInv, WantedIsStarted
<1>2. ASSUME NEW c \in Callers, GenerateKeyBegins(c)
      PROVE  WantedIsStarted'
  <2>1. UNCHANGED <<enabled, started, retry>>
    BY <1>2, GroupsUnchanged DEF GenerateKeyBegins
  <2>2. Starting => Starting'
    BY <1>2, StartingSteps DEF GenerateKeyBegins, Idle, Enter, Refuse,
       EInv, IInv
  <2> QED
    BY <2>1, <2>2 DEF EInv, WantedIsStarted
<1>3. ASSUME NEW c \in Callers, ReplaceKeyBegins(c)
      PROVE  WantedIsStarted'
  <2>1. UNCHANGED <<enabled, started, retry>>
    BY <1>3, GroupsUnchanged DEF ReplaceKeyBegins
  <2>2. Starting => Starting'
    BY <1>3, StartingSteps DEF ReplaceKeyBegins, Idle, Enter, Refuse,
       EInv, IInv
  <2> QED
    BY <2>1, <2>2 DEF EInv, WantedIsStarted
<1>4. ASSUME NEW c \in Callers, SetConfigBegins(c)
      PROVE  WantedIsStarted'
  <2>1. UNCHANGED <<enabled, started, retry>>
    BY <1>4, GroupsUnchanged DEF SetConfigBegins
  <2>2. Starting => Starting'
    BY <1>4, StartingSteps DEF SetConfigBegins, Idle, Enter, Refuse,
       EInv, IInv
  <2> QED
    BY <2>1, <2>2 DEF EInv, WantedIsStarted
<1>5. ASSUME NEW c \in Callers, PairBegins(c)
      PROVE  WantedIsStarted'
  <2>1. UNCHANGED <<enabled, started, retry>>
    BY <1>5, GroupsUnchanged DEF PairBegins
  <2>2. Starting => Starting'
    BY <1>5, StartingSteps DEF PairBegins, Idle, Enter, Refuse, EInv,
       IInv
  <2> QED
    BY <2>1, <2>2 DEF EInv, WantedIsStarted
<1>6. ASSUME NEW c \in Callers, DropBegins(c)
      PROVE  WantedIsStarted'
  <2>1. UNCHANGED <<enabled, started, retry>>
    BY <1>6, GroupsUnchanged DEF DropBegins
  <2>2. Starting => Starting'
    BY <1>6, StartingSteps DEF DropBegins, Idle, Enter, EInv, IInv
  <2> QED
    BY <2>1, <2>2 DEF EInv, WantedIsStarted
<1>7. ASSUME NEW c \in Callers, ResumeBegins(c)
      PROVE  WantedIsStarted'
  BY <1>7, StartingSteps DEF EInv, WantedIsStarted, ResumeBegins, IInv
<1>8. ASSUME NEW c \in Callers, StartBegins(c)
      PROVE  WantedIsStarted'
  BY <1>8, StartingSteps, GroupsUnchanged DEF EInv, WantedIsStarted,
     StartBegins, IInv
<1>9. ASSUME NEW c \in Callers, PollBegins(c)
      PROVE  WantedIsStarted'
  <2>1. UNCHANGED <<enabled, started, retry>>
    BY <1>9, GroupsUnchanged DEF PollBegins
  <2>2. Starting => Starting'
    BY <1>9, StartingSteps DEF PollBegins, Idle, EInv, IInv
  <2> QED
    BY <2>1, <2>2 DEF EInv, WantedIsStarted
<1>10. ASSUME NEW c \in Callers, RunEnds(c)
      PROVE  WantedIsStarted'
  <2>1. UNCHANGED <<enabled, started, retry>>
    BY <1>10, GroupsUnchanged DEF RunEnds
  <2>2. Starting => Starting'
    BY <1>10, StartingSteps DEF RunEnds, Return, EInv, IInv
  <2> QED
    BY <2>1, <2>2 DEF EInv, WantedIsStarted
<1>11. ASSUME NEW c \in Callers, Stop(c)
      PROVE  WantedIsStarted'
  BY <1>11, StartingSteps DEF EInv, WantedIsStarted, Stop, IInv
<1>12. ASSUME NEW c \in Callers, StopEnds(c)
      PROVE  WantedIsStarted'
  BY <1>12 DEF EInv, WantedIsStarted, StopEnds, StoppedIsOff
<1>13. ASSUME NEW c \in Callers, SetConfigStopped(c)
      PROVE  WantedIsStarted'
  BY <1>13, GroupsUnchanged DEF EInv, WantedIsStarted, SetConfigStopped,
     StoppedIsOff, Retiring
<1>14. ASSUME NEW c \in Callers, ReplaceKeyStopped(c)
      PROVE  WantedIsStarted'
  BY <1>14, GroupsUnchanged DEF EInv, WantedIsStarted, ReplaceKeyStopped,
     StoppedIsOff, Retiring
<1>15. ASSUME NEW c \in Callers, PairStopped(c)
      PROVE  WantedIsStarted'
  BY <1>15, GroupsUnchanged DEF EInv, WantedIsStarted, PairStopped,
     StoppedIsOff, Retiring
<1>16. ASSUME NEW c \in Callers, KeygenEnds(c)
      PROVE  WantedIsStarted'
  <2>1. UNCHANGED <<enabled, started, retry>>
    BY <1>16, GroupsUnchanged DEF KeygenEnds
  <2>2. Starting => Starting'
    BY <1>16, StartingSteps DEF KeygenEnds, Return, EInv, IInv
  <2> QED
    BY <2>1, <2>2 DEF EInv, WantedIsStarted
<1>17. ASSUME NEW c \in Callers, WritePub(c)
      PROVE  WantedIsStarted'
  <2>1. UNCHANGED <<enabled, started, retry>>
    BY <1>17, GroupsUnchanged DEF WritePub
  <2>2. Starting => Starting'
    BY <1>17, StartingSteps DEF WritePub, Return, EInv, IInv
  <2> QED
    BY <2>1, <2>2 DEF EInv, WantedIsStarted
<1>18. ASSUME NEW c \in Callers, PairAnswered(c)
      PROVE  WantedIsStarted'
  <2>1. UNCHANGED <<enabled, started, retry>>
    BY <1>18, GroupsUnchanged DEF PairAnswered
  <2>2. Starting => Starting'
    BY <1>18, StartingSteps DEF PairAnswered, Return, EInv, IInv
  <2> QED
    BY <2>1, <2>2 DEF EInv, WantedIsStarted
<1>19. ASSUME NEW c \in Callers, SavePaired(c)
      PROVE  WantedIsStarted'
  <2>1. UNCHANGED <<enabled, started, retry>>
    BY <1>19, GroupsUnchanged DEF SavePaired
  <2>2. Starting => Starting'
    BY <1>19, StartingSteps DEF SavePaired, Return, EInv, IInv
  <2> QED
    BY <2>1, <2>2 DEF EInv, WantedIsStarted
<1>20. ASSUME NEW c \in Callers, StartChecks(c)
      PROVE  WantedIsStarted'
  <2>1. CASE started /\ IsPresenceActive
    <3>1. started'
      BY <1>20, <2>1, GroupsUnchanged DEF StartChecks
    <3> QED
      BY <3>1 DEF WantedIsStarted
  <2>2. CASE ~(started /\ IsPresenceActive) /\ Eligible
    <3>1. Starting'
      BY <1>20, <2>2, StartingSteps DEF StartChecks, EInv, IInv
    <3> QED
      BY <3>1 DEF WantedIsStarted
  <2>3. CASE ~(started /\ IsPresenceActive) /\ ~Eligible
    <3>1. ~enabled
      BY <2>3 DEF EInv, WantedIsEligible
    <3>2. enabled' = enabled
      BY <1>20, <2>3 DEF StartChecks
    <3> QED
      BY <3>1, <3>2 DEF WantedIsStarted
  <2> QED
    BY <2>1, <2>2, <2>3
<1>21. ASSUME NEW c \in Callers, StartEnds(c)
      PROVE  WantedIsStarted'
  BY <1>21, StartingSteps DEF EInv, WantedIsStarted, StartEnds,
     StartReturns, Return, IInv
<1>22. ASSUME NEW c \in Callers, PollRestarts(c)
      PROVE  WantedIsStarted'
  BY <1>22, StartingSteps DEF EInv, WantedIsStarted, PollRestarts, Return,
     IInv
<1>23. ASSUME NEW c \in Callers, Dropped(c)
      PROVE  WantedIsStarted'
  BY <1>23, StartingSteps DEF EInv, WantedIsStarted, Dropped, Forgets,
     IInv
<1>24. CASE ReaderHangsUp \/ ReaderReports \/ ChildServes \/ ChildDies \/
           LoopOpensBus \/ LoopGivesUp \/ LinkUp \/ LinkLost \/ LoopReports
  <2>1. UNCHANGED <<enabled, started, retry>>
    BY <1>24, GroupsUnchanged DEF ReaderHangsUp, ReaderReports,
       ChildServes, ChildDies, LoopOpensBus, LoopGivesUp, LinkUp,
       LinkLost, LoopReports
  <2>2. Starting => Starting'
    BY <1>24, StartingSteps, GroupsUnchanged DEF ReaderHangsUp, ReaderReports,
       ChildServes,
       ChildDies, LoopOpensBus, LoopGivesUp, LinkUp, LinkLost, LoopReports,
       callerVars, EInv, IInv
  <2> QED
    BY <2>1, <2>2 DEF EInv, WantedIsStarted
<1>25. CASE RetryComesDue
  BY <1>25, StartingSteps, GroupsUnchanged DEF EInv, WantedIsStarted,
     RetryComesDue, IInv
<1>26. CASE Crash
  BY <1>26, StartingSteps DEF EInv, WantedIsStarted, Crash, Forgets, IInv
<1>27. CASE SendToChild \/ SendSpawns \/ Boot
  <2>1. UNCHANGED <<enabled, started, retry>>
    BY <1>27, GroupsUnchanged DEF SendToChild, SendSpawns, Boot
  <2>2. Starting => Starting'
    BY <1>27, StartingSteps, GroupsUnchanged DEF SendToChild, SendSpawns,
       Boot, EInv, IInv
  <2> QED
    BY <2>1, <2>2 DEF EInv, WantedIsStarted
<1>28. ASSUME NEW c \in Callers, Returns(c)
      PROVE  WantedIsStarted'
  <2>1. UNCHANGED <<enabled, started, retry>>
    BY <1>28, GroupsUnchanged DEF Returns
  <2>2. Starting => Starting'
    BY <1>28, StartingSteps DEF Returns, EInv, IInv
  <2> QED
    BY <2>1, <2>2 DEF EInv, WantedIsStarted
<1> QED
  BY <1>1, <1>2, <1>3, <1>4, <1>5, <1>6, <1>7, <1>8, <1>9, <1>10, <1>11,
     <1>12, <1>13, <1>14, <1>15, <1>16, <1>17, <1>18, <1>19, <1>20, <1>21,
     <1>22, <1>23, <1>24, <1>25, <1>26, <1>27, <1>28 DEF Next, Begins,
     GoesOn, Client, ChildSteps

\* EInv is inductive: a service without its presence loop is one whose
\* loss is noticed.
LEMMA LossIsNoticedKept ==
    ASSUME EInv, Next
    PROVE  LossIsNoticed'
<1>1. ASSUME NEW c \in Callers, NEW o \in {"run", "share"}, RunBegins(c, o)
      PROVE  LossIsNoticed'
  BY <1>1, QueueSteps, GroupsUnchanged DEF EInv, LossIsNoticed, Running,
     LossNoticed, RunBegins, Idle, Enter, GoTo, Refuse, IInv, TypeOK,
     CallerType
<1>2. ASSUME NEW c \in Callers, GenerateKeyBegins(c)
      PROVE  LossIsNoticed'
  BY <1>2, QueueSteps, GroupsUnchanged DEF EInv, LossIsNoticed, Running,
     LossNoticed, GenerateKeyBegins, Idle, Refuse, GoTo, Enter, IInv,
     TypeOK, CallerType
<1>3. ASSUME NEW c \in Callers, ReplaceKeyBegins(c)
      PROVE  LossIsNoticed'
  BY <1>3, QueueSteps, GroupsUnchanged DEF EInv, LossIsNoticed, Running,
     LossNoticed, ReplaceKeyBegins, Idle, Enter, GoTo, Refuse, IInv,
     TypeOK, CallerType
<1>4. ASSUME NEW c \in Callers, SetConfigBegins(c)
      PROVE  LossIsNoticed'
  BY <1>4, QueueSteps, GroupsUnchanged DEF EInv, LossIsNoticed, Running,
     LossNoticed, SetConfigBegins, Idle, Enter, GoTo, Refuse, IInv,
     TypeOK, CallerType
<1>5. ASSUME NEW c \in Callers, PairBegins(c)
      PROVE  LossIsNoticed'
  BY <1>5, QueueSteps, GroupsUnchanged DEF EInv, LossIsNoticed, Running,
     LossNoticed, PairBegins, Idle, Refuse, GoTo, Enter, IInv, TypeOK,
     CallerType
<1>6. ASSUME NEW c \in Callers, DropBegins(c)
      PROVE  LossIsNoticed'
  BY <1>6, QueueSteps, GroupsUnchanged DEF EInv, LossIsNoticed, Running,
     LossNoticed, DropBegins, Enter, GoTo, IInv
<1>7. ASSUME NEW c \in Callers, ResumeBegins(c)
      PROVE  LossIsNoticed'
  BY <1>7, CoreConstants DEF EInv, LossIsNoticed, Running, ResumeBegins,
     IInv, RequestHasCaller
<1>8. ASSUME NEW c \in Callers, StartBegins(c)
      PROVE  LossIsNoticed'
  BY <1>8, QueueSteps, GroupsUnchanged DEF EInv, LossIsNoticed, Running,
     LossNoticed, StartBegins, Idle, GoTo, IInv
<1>9. ASSUME NEW c \in Callers, PollBegins(c)
      PROVE  LossIsNoticed'
  BY <1>9, QueueSteps, GroupsUnchanged DEF EInv, LossIsNoticed, Running,
     LossNoticed, PollBegins, Idle, GoTo, IInv, TypeOK, CallerType
<1>10. ASSUME NEW c \in Callers, RunEnds(c)
      PROVE  LossIsNoticed'
  BY <1>10, QueueSteps, GroupsUnchanged DEF EInv, LossIsNoticed, Running,
     LossNoticed, RunEnds, Replied, Return, GoTo, Unsuccessful, NoReply,
     transport_failed, IInv, TypeOK, CallerType
<1>11. ASSUME NEW c \in Callers, Stop(c)
      PROVE  LossIsNoticed'
  BY <1>11, QueueSteps, GroupsUnchanged DEF EInv, LossIsNoticed, Running,
     LossNoticed, Stop, GoTo, IInv, TypeOK, CallerType
<1>12. ASSUME NEW c \in Callers, StopEnds(c)
      PROVE  LossIsNoticed'
  BY <1>12, QueueSteps DEF EInv, LossIsNoticed, Running, LossNoticed,
     StopEnds, Replied, invalidate, kill, GoTo, IInv
<1>13. ASSUME NEW c \in Callers, SetConfigStopped(c)
      PROVE  LossIsNoticed'
  BY <1>13, GroupsUnchanged DEF EInv, LossIsNoticed, Running,
     SetConfigStopped, IInv, StoppedIsOff, GateHeld, RequestHasCaller,
     Gated, Position, Request, Retiring
<1>14. ASSUME NEW c \in Callers, ReplaceKeyStopped(c)
      PROVE  LossIsNoticed'
  BY <1>14, GroupsUnchanged DEF EInv, LossIsNoticed, Running,
     ReplaceKeyStopped, StoppedIsOff, Retiring
<1>15. ASSUME NEW c \in Callers, PairStopped(c)
      PROVE  LossIsNoticed'
  BY <1>15, GroupsUnchanged DEF EInv, LossIsNoticed, Running, PairStopped,
     IInv, StoppedIsOff, GateHeld, RequestHasCaller, Gated, Position,
     Request, Retiring
<1>16. ASSUME NEW c \in Callers, KeygenEnds(c)
      PROVE  LossIsNoticed'
  BY <1>16, QueueSteps, GroupsUnchanged DEF EInv, LossIsNoticed, Running,
     LossNoticed, KeygenEnds, Replied, GoTo, Unsuccessful, NoReply,
     transport_failed, Return, IInv, TypeOK, CallerType
<1>17. ASSUME NEW c \in Callers, WritePub(c)
      PROVE  LossIsNoticed'
  BY <1>17, QueueSteps, GroupsUnchanged DEF EInv, LossIsNoticed, Running,
     LossNoticed, WritePub, Return, GoTo, IInv, StoppedIsOff, Retiring,
     TypeOK, CallerType
<1>18. ASSUME NEW c \in Callers, PairAnswered(c)
      PROVE  LossIsNoticed'
  BY <1>18, QueueSteps, GroupsUnchanged DEF EInv, LossIsNoticed, Running,
     LossNoticed, PairAnswered, Replied, GoTo, Unsuccessful, NoReply,
     transport_failed, Return, IInv, TypeOK, CallerType
<1>19. ASSUME NEW c \in Callers, SavePaired(c)
      PROVE  LossIsNoticed'
  BY <1>19, QueueSteps, GroupsUnchanged DEF EInv, LossIsNoticed, Running,
     LossNoticed, SavePaired, GoTo, Return, IInv, TypeOK, CallerType
<1>20. ASSUME NEW c \in Callers, StartChecks(c)
      PROVE  LossIsNoticed'
  BY <1>20, QueueSteps, GroupsUnchanged DEF EInv, LossIsNoticed, Running,
     LossNoticed, StartChecks, StartReturns, Return, GoTo, IInv, TypeOK,
     CallerType
<1>21. ASSUME NEW c \in Callers, StartEnds(c)
      PROVE  LossIsNoticed'
  BY <1>21, QueueSteps DEF EInv, LossIsNoticed, Running, LossNoticed,
     StartEnds, Replied, StartReturns, Return, GoTo, Unsuccessful,
     NoReply, IInv, TypeOK, CallerType
<1>22. ASSUME NEW c \in Callers, PollRestarts(c)
      PROVE  LossIsNoticed'
  BY <1>22, CoreConstants DEF EInv, LossIsNoticed, Running, PollRestarts,
     IInv, RequestHasCaller
<1>23. ASSUME NEW c \in Callers, Dropped(c)
      PROVE  LossIsNoticed'
  BY <1>23, QueueSteps DEF EInv, LossIsNoticed, Running, LossNoticed,
     Dropped, Forgets, IInv
<1>24. CASE ReaderHangsUp
  BY <1>24, QueueSteps, GroupsUnchanged DEF EInv, LossIsNoticed, Running,
     LossNoticed, ReaderHangsUp, IInv
<1>25. CASE ReaderReports
  BY <1>25, QueueSteps, GroupsUnchanged DEF EInv, LossIsNoticed, Running,
     LossNoticed, ReaderReports, IInv
<1>26. CASE ChildServes
  BY <1>26, QueueSteps, GroupsUnchanged DEF EInv, LossIsNoticed, Running,
     LossNoticed, ChildServes, ServesPresence, Replies, ServesKeygen,
     ServesPair, ServesCommand, IInv, StoppedIsOff, GateHeld,
     RequestHasCaller, Gated, Position, Request, Retiring
<1>27. CASE ChildDies
  <2>1. UNCHANGED <<started, wire, pc, events>>
    BY <1>27, GroupsUnchanged DEF ChildDies
  <2>2. conn' = IF conn = "up" THEN "gone" ELSE conn
    BY <1>27 DEF ChildDies
  <2>3. (Running' <=> Running) /\ (LossQueued' <=> LossQueued)
    BY <2>1, QueueSteps DEF Running, EInv, IInv
  <2>4. CASE conn \in {"none", "closed"}
    BY <2>1, <2>2, <2>3, <2>4 DEF EInv, LossIsNoticed, LossNoticed,
       UnsaidIsHeard
  <2>5. CASE ~(conn \in {"none", "closed"})
    <3>1. conn' \in {"gone", "closing"}
      BY <2>2, <2>5 DEF EInv, IInv, TypeOK, ChildType, Conn
    <3> QED
      BY <3>1 DEF LossIsNoticed, LossNoticed
  <2> QED
    BY <2>4, <2>5
<1>28. CASE LoopOpensBus
  BY <1>28, QueueSteps, GroupsUnchanged DEF EInv, LossIsNoticed, Running,
     LossNoticed, LoopOpensBus, IInv
<1>29. CASE LoopGivesUp
  <2>1. UNCHANGED <<started, wire, pc, conn>>
    BY <1>29, GroupsUnchanged DEF LoopGivesUp
  <2>2. Running' <=> Running
    BY <2>1 DEF Running
  <2>3. CASE conn = "up"
    <3>1. "stopped" \in unsaid'
      BY <1>29, <2>3 DEF LoopGivesUp, Owes
    <3> QED
      BY <3>1 DEF LossIsNoticed, LossNoticed
  <2>4. CASE conn \in {"gone", "closing"}
    BY <2>1, <2>4 DEF LossIsNoticed, LossNoticed
  <2>5. CASE conn \in {"none", "closed"}
    <3>1. LossQueued' <=> LossQueued
      BY <1>29, QueueSteps DEF LoopGivesUp, EInv, IInv
    <3>2. unsaid' = unsaid
      BY <1>29, <2>5 DEF LoopGivesUp, Owes
    <3> QED
      BY <2>1, <2>2, <2>5, <3>1, <3>2 DEF EInv, LossIsNoticed, LossNoticed
  <2> QED
    BY <2>3, <2>4, <2>5 DEF EInv, IInv, TypeOK, ChildType, Conn
<1>30. CASE LinkUp
  <2>1. UNCHANGED <<started, wire, pc, conn, events>> /\ mode # "off" /\ mode' # "off"
    BY <1>30, GroupsUnchanged DEF LinkUp
  <2>2. "stopped" \in unsaid => "stopped" \in unsaid'
    BY <1>30 DEF LinkUp, Owes
  <2> QED
    BY <2>1, <2>2, QueueSteps DEF EInv, LossIsNoticed, Running, LossNoticed,
       IInv
<1>31. CASE LinkLost
  BY <1>31, QueueSteps, GroupsUnchanged DEF EInv, LossIsNoticed, Running,
     LossNoticed, LinkLost, Emit, IInv
<1>32. CASE SendToChild
  BY <1>32, QueueSteps, GroupsUnchanged DEF EInv, LossIsNoticed, Running,
     LossNoticed, SendToChild, kill, transport_failed, IInv
<1>33. CASE SendSpawns
  <2>1. UNCHANGED <<started, pc>> /\ (Running' => Running)
    BY <1>33, GroupsUnchanged DEF SendSpawns, Running
  <2>2. CASE conn = "none"
    <3>1. (LossQueued' <=> LossQueued) /\ unsaid = {}
      BY <1>33, <2>2, QueueSteps DEF SendSpawns, EInv, IInv, UnsaidIsHeard
    <3> QED
      BY <2>1, <2>2, <3>1 DEF EInv, LossIsNoticed, LossNoticed
  <2>3. CASE conn # "none"
    <3>1. LossQueued'
      BY <1>33, <2>3, QueueSteps DEF SendSpawns, transport_failed, EInv, IInv
    <3> QED
      BY <3>1 DEF LossIsNoticed, LossNoticed
  <2> QED
    BY <2>2, <2>3
<1>34. CASE Crash
  BY <1>34, QueueSteps DEF EInv, LossIsNoticed, Running, LossNoticed,
     Crash, Forgets, IInv
<1>35. CASE RetryComesDue \/ Boot
  BY <1>35, QueueSteps, GroupsUnchanged DEF EInv, LossIsNoticed, Running,
     LossNoticed, RetryComesDue, Boot, IInv
<1>36. ASSUME NEW c \in Callers, Returns(c)
      PROVE  LossIsNoticed'
  BY <1>36, QueueSteps, GroupsUnchanged DEF EInv, LossIsNoticed, Running,
     LossNoticed, Returns, GoTo, IInv
<1>37. CASE LoopReports
  <2>1. PICK e \in unsaid : push(e) /\ unsaid' = unsaid \ {e}
    BY <1>37 DEF LoopReports
  <2>2. UNCHANGED <<started, wire, pc, conn, mode>> /\ conn = "up" /\ e \in {"near", "stopped"}
    BY <1>37, <2>1, GroupsUnchanged
       DEF LoopReports, EInv, UnsaidIsHeard, IInv, TypeOK, ChildType
  <2>3. CASE e = "stopped"
    <3>1. LossQueued'
      BY <2>1, <2>3, QueueSteps DEF EInv, IInv
    <3> QED
      BY <3>1 DEF LossIsNoticed, LossNoticed
  <2>4. CASE e = "near"
    BY <2>1, <2>2, <2>4
       DEF EInv, LossIsNoticed, UnsaidIsCurrent, Running, LossNoticed
  <2> QED
    BY <2>2, <2>3, <2>4
<1> QED
  BY <1>1, <1>2, <1>3, <1>4, <1>5, <1>6, <1>7, <1>8, <1>9, <1>10, <1>11,
     <1>12, <1>13, <1>14, <1>15, <1>16, <1>17, <1>18, <1>19, <1>20, <1>21,
     <1>22, <1>23, <1>24, <1>25, <1>26, <1>27, <1>28, <1>29, <1>30, <1>31,
     <1>32, <1>33, <1>34, <1>35, <1>36, <1>37 DEF Next, Begins, GoesOn, Client,
     ChildSteps

\* EInv is inductive: what is unsaid will be heard.
LEMMA UnsaidIsHeardKept ==
    ASSUME EInv, Next
    PROVE  UnsaidIsHeard'
<1> DEFINE Silent == UNCHANGED <<conn, unsaid>> \/ unsaid' = {}
<1>1. ASSUME NEW c \in Callers, Begins(c)
      PROVE  Silent
  BY <1>1, GroupsUnchanged DEF Begins, RunBegins, GenerateKeyBegins,
     ReplaceKeyBegins, SetConfigBegins, PairBegins, DropBegins, ResumeBegins,
     invalidate, kill, StartBegins, PollBegins
<1>2. ASSUME NEW c \in Callers, GoesOn(c)
      PROVE  Silent
  <2>1. CASE RunEnds(c) \/ Stop(c) \/ StopEnds(c) \/ SetConfigStopped(c)
             \/ ReplaceKeyStopped(c) \/ PairStopped(c) \/ Dropped(c)
    BY <2>1, GroupsUnchanged DEF RunEnds, Unsuccessful, Replied, NoReply, Stop,
       StopEnds, invalidate, kill, SetConfigStopped, ReplaceKeyStopped,
       PairStopped, Dropped, Forgets
  <2>2. CASE KeygenEnds(c) \/ WritePub(c) \/ PairAnswered(c) \/ SavePaired(c)
    BY <2>2, GroupsUnchanged DEF KeygenEnds, Unsuccessful, Replied, NoReply,
       WritePub, invalidate, kill, PairAnswered, SavePaired
  <2>3. CASE StartChecks(c) \/ StartEnds(c) \/ PollRestarts(c)
    BY <2>3, GroupsUnchanged DEF StartChecks, StartEnds, Unsuccessful, Replied,
       NoReply, PollRestarts, invalidate, kill
  <2> QED
    BY <1>2, <2>1, <2>2, <2>3 DEF GoesOn
<1>3. ASSUME Client \/ RetryComesDue \/ Boot \/ Crash
      PROVE  Silent
  <2>1. CASE SendToChild
    BY <2>1, GroupsUnchanged DEF SendToChild, kill
  <2>2. CASE SendSpawns \/ Crash
    BY <2>2 DEF SendSpawns, Crash, Forgets
  <2>3. CASE RetryComesDue \/ Boot
    BY <2>3, GroupsUnchanged DEF RetryComesDue, Boot
  <2> QED
    BY <1>3, <2>1, <2>2, <2>3 DEF Client
<1>4. ASSUME NEW c \in Callers, Returns(c)
      PROVE  Silent
  BY <1>4, GroupsUnchanged DEF Returns
<1>5. ASSUME ReaderHangsUp \/ ChildServes \/ ChildDies \/ LoopOpensBus \/ LinkLost
      PROVE  Silent
  BY <1>5 DEF ReaderHangsUp, ChildServes, ChildDies, LoopOpensBus, LinkLost
<1>6. CASE ReaderReports
  BY <1>6 DEF ReaderReports, EInv, UnsaidIsHeard
<1>7. CASE LoopGivesUp \/ LinkUp
  BY <1>7 DEF LoopGivesUp, LinkUp, Owes, EInv, UnsaidIsHeard
<1>8. CASE LoopReports
  BY <1>8 DEF LoopReports, EInv, UnsaidIsHeard
<1>9. Silent => UnsaidIsHeard'
  BY DEF EInv, UnsaidIsHeard
<1> QED
  BY <1>1, <1>2, <1>3, <1>4, <1>5, <1>6, <1>7, <1>8, <1>9
     DEF Next, ChildSteps

\* EInv is inductive: no session of a loop that was stopped is
\* unsaid while its service runs.
LEMMA UnsaidIsCurrentKept ==
    ASSUME EInv, Next
    PROVE  UnsaidIsCurrent'
<1>1. ASSUME NEW c \in Callers, NEW o \in {"run", "share"}, RunBegins(c, o)
      PROVE  UnsaidIsCurrent'
  BY <1>1, GroupsUnchanged DEF EInv, UnsaidIsCurrent, Running,
     RunBegins, Idle, Enter, GoTo, Refuse, IInv, TypeOK,
     CallerType
<1>2. ASSUME NEW c \in Callers, GenerateKeyBegins(c)
      PROVE  UnsaidIsCurrent'
  BY <1>2, GroupsUnchanged DEF EInv, UnsaidIsCurrent, Running,
     GenerateKeyBegins, Idle, Refuse, GoTo, Enter, IInv,
     TypeOK, CallerType
<1>3. ASSUME NEW c \in Callers, ReplaceKeyBegins(c)
      PROVE  UnsaidIsCurrent'
  BY <1>3, GroupsUnchanged DEF EInv, UnsaidIsCurrent, Running,
     ReplaceKeyBegins, Idle, Enter, GoTo, Refuse, IInv,
     TypeOK, CallerType
<1>4. ASSUME NEW c \in Callers, SetConfigBegins(c)
      PROVE  UnsaidIsCurrent'
  BY <1>4, GroupsUnchanged DEF EInv, UnsaidIsCurrent, Running,
     SetConfigBegins, Idle, Enter, GoTo, Refuse, IInv,
     TypeOK, CallerType
<1>5. ASSUME NEW c \in Callers, PairBegins(c)
      PROVE  UnsaidIsCurrent'
  BY <1>5, GroupsUnchanged DEF EInv, UnsaidIsCurrent, Running,
     PairBegins, Idle, Refuse, GoTo, Enter, IInv, TypeOK,
     CallerType
<1>6. ASSUME NEW c \in Callers, DropBegins(c)
      PROVE  UnsaidIsCurrent'
  BY <1>6, GroupsUnchanged DEF EInv, UnsaidIsCurrent, Running,
     DropBegins, Enter, GoTo, IInv
<1>7. ASSUME NEW c \in Callers, ResumeBegins(c)
      PROVE  UnsaidIsCurrent'
  BY <1>7, CoreConstants DEF EInv, UnsaidIsCurrent, Running, ResumeBegins,
     IInv, RequestHasCaller
<1>8. ASSUME NEW c \in Callers, StartBegins(c)
      PROVE  UnsaidIsCurrent'
  BY <1>8, GroupsUnchanged DEF EInv, UnsaidIsCurrent, Running,
     StartBegins, Idle, GoTo, IInv
<1>9. ASSUME NEW c \in Callers, PollBegins(c)
      PROVE  UnsaidIsCurrent'
  BY <1>9, GroupsUnchanged DEF EInv, UnsaidIsCurrent, Running,
     PollBegins, Idle, GoTo, IInv, TypeOK, CallerType
<1>10. ASSUME NEW c \in Callers, RunEnds(c)
      PROVE  UnsaidIsCurrent'
  BY <1>10, GroupsUnchanged DEF EInv, UnsaidIsCurrent, Running,
     RunEnds, Replied, Return, GoTo, Unsuccessful, NoReply,
     kill, transport_failed, IInv, TypeOK, CallerType
<1>11. ASSUME NEW c \in Callers, Stop(c)
      PROVE  UnsaidIsCurrent'
  BY <1>11, GroupsUnchanged DEF EInv, UnsaidIsCurrent, Running,
     Stop, GoTo, IInv, TypeOK, CallerType
<1>12. ASSUME NEW c \in Callers, StopEnds(c)
      PROVE  UnsaidIsCurrent'
  BY <1>12, GroupsUnchanged DEF EInv, UnsaidIsCurrent, Running,
     StopEnds, Replied, invalidate, kill, GoTo, IInv
<1>13. ASSUME NEW c \in Callers, SetConfigStopped(c)
      PROVE  UnsaidIsCurrent'
  BY <1>13, GroupsUnchanged DEF EInv, UnsaidIsCurrent, Running,
     SetConfigStopped, IInv, StoppedIsOff, GateHeld, RequestHasCaller,
     Gated, Position, Request, Retiring
<1>14. ASSUME NEW c \in Callers, ReplaceKeyStopped(c)
      PROVE  UnsaidIsCurrent'
  BY <1>14, GroupsUnchanged DEF EInv, UnsaidIsCurrent, Running,
     ReplaceKeyStopped, StoppedIsOff, Retiring
<1>15. ASSUME NEW c \in Callers, PairStopped(c)
      PROVE  UnsaidIsCurrent'
  BY <1>15, GroupsUnchanged DEF EInv, UnsaidIsCurrent, Running, PairStopped,
     IInv, StoppedIsOff, GateHeld, RequestHasCaller, Gated, Position,
     Request, Retiring
<1>16. ASSUME NEW c \in Callers, KeygenEnds(c)
      PROVE  UnsaidIsCurrent'
  BY <1>16, GroupsUnchanged DEF EInv, UnsaidIsCurrent, Running,
     KeygenEnds, Replied, GoTo, Unsuccessful, NoReply,
     kill, transport_failed, Return, IInv, TypeOK, CallerType
<1>17. ASSUME NEW c \in Callers, WritePub(c)
      PROVE  UnsaidIsCurrent'
  BY <1>17, GroupsUnchanged DEF EInv, UnsaidIsCurrent, Running,
     WritePub, Return, GoTo, IInv, StoppedIsOff, Retiring,
     TypeOK, CallerType
<1>18. ASSUME NEW c \in Callers, PairAnswered(c)
      PROVE  UnsaidIsCurrent'
  BY <1>18, GroupsUnchanged DEF EInv, UnsaidIsCurrent, Running,
     PairAnswered, Replied, GoTo, Unsuccessful, NoReply,
     kill, transport_failed, Return, IInv, TypeOK, CallerType
<1>19. ASSUME NEW c \in Callers, SavePaired(c)
      PROVE  UnsaidIsCurrent'
  BY <1>19, GroupsUnchanged DEF EInv, UnsaidIsCurrent, Running,
     SavePaired, GoTo, Return, IInv, TypeOK, CallerType
<1>20. ASSUME NEW c \in Callers, StartChecks(c)
      PROVE  UnsaidIsCurrent'
  BY <1>20, GroupsUnchanged DEF EInv, UnsaidIsCurrent, Running,
     StartChecks, StartReturns, Return, GoTo, IInv, TypeOK,
     CallerType
<1>21. ASSUME NEW c \in Callers, StartEnds(c)
      PROVE  UnsaidIsCurrent'
  BY <1>21, GroupsUnchanged DEF EInv, UnsaidIsCurrent, Running,
     StartEnds, Replied, StartReturns, Return, GoTo, Unsuccessful,
     NoReply, IInv, TypeOK, CallerType
<1>22. ASSUME NEW c \in Callers, PollRestarts(c)
      PROVE  UnsaidIsCurrent'
  BY <1>22, CoreConstants DEF EInv, UnsaidIsCurrent, Running, PollRestarts,
     IInv, RequestHasCaller
<1>23. ASSUME NEW c \in Callers, Dropped(c)
      PROVE  UnsaidIsCurrent'
  BY <1>23, GroupsUnchanged DEF EInv, UnsaidIsCurrent, Running,
     Dropped, Forgets, IInv
<1>24. CASE ReaderHangsUp
  BY <1>24, GroupsUnchanged DEF EInv, UnsaidIsCurrent, Running,
     ReaderHangsUp, IInv
<1>25. CASE ReaderReports
  BY <1>25, GroupsUnchanged DEF EInv, UnsaidIsCurrent, Running,
     ReaderReports, IInv
<1>26. CASE ChildServes
  BY <1>26, GroupsUnchanged DEF EInv, UnsaidIsCurrent, Running,
     ChildServes, ServesPresence, Replies, ServesKeygen,
     ServesPair, ServesCommand, IInv, StoppedIsOff, GateHeld,
     RequestHasCaller, Gated, Position, Request, Retiring
<1>27. CASE ChildDies
  BY <1>27 DEF UnsaidIsCurrent, ChildDies
<1>28. CASE LoopOpensBus
  BY <1>28, GroupsUnchanged DEF EInv, UnsaidIsCurrent, Running,
     LoopOpensBus, IInv
<1>29. CASE LoopGivesUp
  BY <1>29 DEF UnsaidIsCurrent, LoopGivesUp, Owes
<1>30. CASE LinkUp
  BY <1>30 DEF UnsaidIsCurrent, LinkUp
<1>31. CASE LinkLost
  BY <1>31, GroupsUnchanged DEF EInv, UnsaidIsCurrent, Running,
     LinkLost, Emit, IInv
<1>32. CASE SendToChild
  BY <1>32, GroupsUnchanged DEF EInv, UnsaidIsCurrent, Running,
     SendToChild, kill, transport_failed, IInv
<1>33. CASE SendSpawns
  BY <1>33, GroupsUnchanged DEF EInv, UnsaidIsCurrent, Running,
     SendSpawns, transport_failed, IInv
<1>34. CASE Crash
  BY <1>34, GroupsUnchanged DEF EInv, UnsaidIsCurrent, Running,
     Crash, Forgets, IInv
<1>35. CASE RetryComesDue \/ Boot
  BY <1>35, GroupsUnchanged DEF EInv, UnsaidIsCurrent, Running,
     RetryComesDue, Boot, IInv
<1>36. ASSUME NEW c \in Callers, Returns(c)
      PROVE  UnsaidIsCurrent'
  BY <1>36, GroupsUnchanged DEF EInv, UnsaidIsCurrent, Running,
     Returns, GoTo, IInv
<1>37. CASE LoopReports
  BY <1>37, GroupsUnchanged DEF EInv, UnsaidIsCurrent, Running,
     LoopReports, Emit, IInv
<1> QED
  BY <1>1, <1>2, <1>3, <1>4, <1>5, <1>6, <1>7, <1>8, <1>9, <1>10, <1>11,
     <1>12, <1>13, <1>14, <1>15, <1>16, <1>17, <1>18, <1>19, <1>20, <1>21,
     <1>22, <1>23, <1>24, <1>25, <1>26, <1>27, <1>28, <1>29, <1>30, <1>31,
     <1>32, <1>33, <1>34, <1>35, <1>36, <1>37 DEF Next, Begins, GoesOn, Client,
     ChildSteps

\* EInv is inductive: presence requests are not refused, and a stop that
\* was served ends the loop.
LEMMA PresenceIsServedKept ==
    ASSUME EInv, Next
    PROVE  PresenceIsServed'
<1>1. ASSUME NEW c \in Callers, NEW o \in {"run", "share"}, RunBegins(c, o)
      PROVE  PresenceIsServed'
  BY <1>1, GroupsUnchanged DEF EInv, PresenceIsServed, RunBegins, GoTo,
     Refuse, IInv, TypeOK, CallerType
<1>2. ASSUME NEW c \in Callers, GenerateKeyBegins(c)
      PROVE  PresenceIsServed'
  BY <1>2, GroupsUnchanged DEF EInv, PresenceIsServed, GenerateKeyBegins,
     Refuse, GoTo, IInv, TypeOK, CallerType
<1>3. ASSUME NEW c \in Callers, ReplaceKeyBegins(c)
      PROVE  PresenceIsServed'
  BY <1>3, GroupsUnchanged DEF EInv, PresenceIsServed, ReplaceKeyBegins,
     Enter, GoTo, Refuse, IInv, TypeOK, CallerType
<1>4. ASSUME NEW c \in Callers, SetConfigBegins(c)
      PROVE  PresenceIsServed'
  BY <1>4, GroupsUnchanged DEF EInv, PresenceIsServed, SetConfigBegins,
     Enter, GoTo, Refuse, IInv, TypeOK, CallerType
<1>5. ASSUME NEW c \in Callers, PairBegins(c)
      PROVE  PresenceIsServed'
  BY <1>5, GroupsUnchanged DEF EInv, PresenceIsServed, PairBegins, Refuse,
     GoTo, Enter, IInv, TypeOK, CallerType
<1>6. ASSUME NEW c \in Callers, DropBegins(c)
      PROVE  PresenceIsServed'
  BY <1>6, GroupsUnchanged DEF EInv, PresenceIsServed, DropBegins, Enter,
     GoTo
<1>7. ASSUME NEW c \in Callers, ResumeBegins(c)
      PROVE  PresenceIsServed'
  BY <1>7 DEF EInv, PresenceIsServed, ResumeBegins, invalidate, kill, GoTo
<1>8. ASSUME NEW c \in Callers, StartBegins(c)
      PROVE  PresenceIsServed'
  BY <1>8, GroupsUnchanged DEF EInv, PresenceIsServed, StartBegins, GoTo
<1>9. ASSUME NEW c \in Callers, PollBegins(c)
      PROVE  PresenceIsServed'
  BY <1>9 DEF EInv, PresenceIsServed, PollBegins, GoTo, IInv, TypeOK,
     CallerType
<1>10. ASSUME NEW c \in Callers, RunEnds(c)
      PROVE  PresenceIsServed'
  BY <1>10, GroupsUnchanged DEF EInv, PresenceIsServed, RunEnds, Replied,
     Return, GoTo, Unsuccessful, NoReply, kill
<1>11. ASSUME NEW c \in Callers, Stop(c)
      PROVE  PresenceIsServed'
  BY <1>11 DEF EInv, PresenceIsServed, Stop, IInv, GateHeld,
     RequestHasCaller, Gated, Position, Request
<1>12. ASSUME NEW c \in Callers, StopEnds(c)
      PROVE  PresenceIsServed'
  BY <1>12 DEF EInv, PresenceIsServed, StopEnds, Replied, invalidate,
     kill, GoTo
<1>13. ASSUME NEW c \in Callers, SetConfigStopped(c)
      PROVE  PresenceIsServed'
  BY <1>13 DEF EInv, PresenceIsServed, SetConfigStopped, IInv, GateHeld,
     RequestHasCaller, Gated, Position, Request
<1>14. ASSUME NEW c \in Callers, ReplaceKeyStopped(c)
      PROVE  PresenceIsServed'
  BY <1>14 DEF EInv, PresenceIsServed, ReplaceKeyStopped, invalidate,
     kill, GoTo
<1>15. ASSUME NEW c \in Callers, PairStopped(c)
      PROVE  PresenceIsServed'
  BY <1>15 DEF EInv, PresenceIsServed, PairStopped, IInv, GateHeld,
     RequestHasCaller, Gated, Position, Request
<1>16. ASSUME NEW c \in Callers, KeygenEnds(c)
      PROVE  PresenceIsServed'
  BY <1>16, GroupsUnchanged DEF EInv, PresenceIsServed, KeygenEnds,
     Replied, GoTo, Unsuccessful, NoReply, kill, Return
<1>17. ASSUME NEW c \in Callers, WritePub(c)
      PROVE  PresenceIsServed'
  BY <1>17 DEF EInv, PresenceIsServed, WritePub, IInv, GateHeld,
     RequestHasCaller, Gated, Position, Request
<1>18. ASSUME NEW c \in Callers, PairAnswered(c)
      PROVE  PresenceIsServed'
  BY <1>18, GroupsUnchanged DEF EInv, PresenceIsServed, PairAnswered,
     Replied, GoTo, Unsuccessful, NoReply, kill, Return
<1>19. ASSUME NEW c \in Callers, SavePaired(c)
      PROVE  PresenceIsServed'
  BY <1>19 DEF EInv, PresenceIsServed, SavePaired, IInv, GateHeld,
     RequestHasCaller, Gated, Position, Request
<1>20. ASSUME NEW c \in Callers, StartChecks(c)
      PROVE  PresenceIsServed'
  BY <1>20, GroupsUnchanged DEF EInv, PresenceIsServed, StartChecks,
     StartReturns, Return, GoTo, IInv, TypeOK, CallerType
<1>21. ASSUME NEW c \in Callers, StartEnds(c)
      PROVE  PresenceIsServed'
  BY <1>21, GroupsUnchanged DEF EInv, PresenceIsServed, StartEnds,
     Replied, StartReturns, Return, GoTo, Unsuccessful, NoReply, kill
<1>22. ASSUME NEW c \in Callers, PollRestarts(c)
      PROVE  PresenceIsServed'
  BY <1>22, GroupsUnchanged DEF EInv, PresenceIsServed, PollRestarts,
     invalidate, kill, GoTo, Return, IInv, TypeOK, CallerType
<1>23. ASSUME NEW c \in Callers, Dropped(c)
      PROVE  PresenceIsServed'
  BY <1>23 DEF EInv, PresenceIsServed, Dropped, Forgets
<1>24. CASE ChildServes
  BY <1>24, GroupsUnchanged DEF EInv, PresenceIsServed, ChildServes,
     ServesPresence, Replies, ServesKeygen, ServesPair, ServesCommand,
     IInv, GateHeld, Gated, Position, Request
<1>25. CASE ChildDies
  BY <1>25, GroupsUnchanged DEF EInv, PresenceIsServed, ChildDies
<1>26. CASE LoopOpensBus
  BY <1>26, GroupsUnchanged DEF EInv, PresenceIsServed, LoopOpensBus
<1>27. CASE LoopGivesUp
  BY <1>27, GroupsUnchanged DEF EInv, PresenceIsServed, LoopGivesUp
<1>28. CASE LinkUp
  BY <1>28, GroupsUnchanged DEF EInv, PresenceIsServed, LinkUp
<1>29. CASE LinkLost
  BY <1>29, GroupsUnchanged DEF EInv, PresenceIsServed, LinkLost
<1>30. CASE ReaderHangsUp \/ ReaderReports
  BY <1>30, GroupsUnchanged DEF EInv, PresenceIsServed, ReaderHangsUp,
     ReaderReports
<1>31. CASE SendToChild
  BY <1>31, GroupsUnchanged DEF EInv, PresenceIsServed, SendToChild, kill
<1>32. CASE SendSpawns
  BY <1>32, GroupsUnchanged DEF EInv, PresenceIsServed, SendSpawns
<1>33. CASE Crash
  BY <1>33 DEF EInv, PresenceIsServed, Crash, Forgets
<1>34. CASE RetryComesDue \/ Boot
  BY <1>34, GroupsUnchanged DEF EInv, PresenceIsServed, RetryComesDue,
     Boot
<1>35. ASSUME NEW c \in Callers, Returns(c)
      PROVE  PresenceIsServed'
  BY <1>35, GroupsUnchanged DEF EInv, PresenceIsServed, Returns, GoTo
<1>36. CASE LoopReports
  BY <1>36, GroupsUnchanged DEF EInv, PresenceIsServed, LoopReports
<1> QED
  BY <1>1, <1>2, <1>3, <1>4, <1>5, <1>6, <1>7, <1>8, <1>9, <1>10, <1>11,
     <1>12, <1>13, <1>14, <1>15, <1>16, <1>17, <1>18, <1>19, <1>20, <1>21,
     <1>22, <1>23, <1>24, <1>25, <1>26, <1>27, <1>28, <1>29, <1>30, <1>31,
     <1>32, <1>33, <1>34, <1>35, <1>36 DEF Next, Begins, GoesOn, Client,
     ChildSteps

\* EInv is inductive: a presence loop belongs to a wanted service, or one
\* on its way in or out.
LEMMA LoopIsWantedKept ==
    ASSUME EInv, Next
    PROVE  LoopIsWanted'
<1>1. ASSUME NEW c \in Callers, NEW o \in {"run", "share"}, RunBegins(c, o)
      PROVE  LoopIsWanted'
  BY <1>1, GroupsUnchanged, CoreConstants DEF EInv, LoopIsWanted,
     RunBegins, IInv, GateHeld, Gated, Position, Request
<1>2. ASSUME NEW c \in Callers, GenerateKeyBegins(c)
      PROVE  LoopIsWanted'
  BY <1>2, GroupsUnchanged, CoreConstants DEF EInv, LoopIsWanted,
     GenerateKeyBegins, IInv, GateHeld, Gated, Position, Request
<1>3. ASSUME NEW c \in Callers, ReplaceKeyBegins(c)
      PROVE  LoopIsWanted'
  BY <1>3, GroupsUnchanged, CoreConstants DEF EInv, LoopIsWanted,
     ReplaceKeyBegins, IInv, GateHeld, Gated, Position, Request
<1>4. ASSUME NEW c \in Callers, SetConfigBegins(c)
      PROVE  LoopIsWanted'
  BY <1>4, GroupsUnchanged, CoreConstants DEF EInv, LoopIsWanted,
     SetConfigBegins, IInv, GateHeld, Gated, Position, Request
<1>5. ASSUME NEW c \in Callers, PairBegins(c)
      PROVE  LoopIsWanted'
  BY <1>5, GroupsUnchanged, CoreConstants DEF EInv, LoopIsWanted,
     PairBegins, IInv, GateHeld, Gated, Position, Request
<1>6. ASSUME NEW c \in Callers, DropBegins(c)
      PROVE  LoopIsWanted'
  BY <1>6, GroupsUnchanged DEF EInv, LoopIsWanted, DropBegins, Enter, GoTo
<1>7. ASSUME NEW c \in Callers, ResumeBegins(c)
      PROVE  LoopIsWanted'
  BY <1>7 DEF EInv, LoopIsWanted, ResumeBegins, invalidate, kill, GoTo
<1>8. ASSUME NEW c \in Callers, StartBegins(c)
      PROVE  LoopIsWanted'
  BY <1>8, GroupsUnchanged DEF EInv, LoopIsWanted, StartBegins, Idle, GoTo
<1>9. ASSUME NEW c \in Callers, PollBegins(c)
      PROVE  LoopIsWanted'
  BY <1>9, GroupsUnchanged DEF EInv, LoopIsWanted, PollBegins, Idle, GoTo,
     IInv, TypeOK, CallerType
<1>10. ASSUME NEW c \in Callers, RunEnds(c)
      PROVE  LoopIsWanted'
  BY <1>10, GroupsUnchanged DEF EInv, LoopIsWanted, RunEnds, Replied,
     Unsuccessful, NoReply, kill, IInv, GateHeld, Gated, Position, Request
<1>11. ASSUME NEW c \in Callers, Stop(c)
      PROVE  LoopIsWanted'
  BY <1>11, GroupsUnchanged DEF EInv, LoopIsWanted, Stop, GoTo, IInv,
     TypeOK, CallerType
<1>12. ASSUME NEW c \in Callers, StopEnds(c)
      PROVE  LoopIsWanted'
  BY <1>12 DEF EInv, LoopIsWanted, StopEnds, Replied, invalidate, kill,
     PresenceIsServed
<1>13. ASSUME NEW c \in Callers, SetConfigStopped(c)
      PROVE  LoopIsWanted'
  BY <1>13, GroupsUnchanged DEF EInv, LoopIsWanted, SetConfigStopped,
     invalidate, kill, GoTo, Return
<1>14. ASSUME NEW c \in Callers, ReplaceKeyStopped(c)
      PROVE  LoopIsWanted'
  BY <1>14, GroupsUnchanged DEF EInv, LoopIsWanted, ReplaceKeyStopped,
     invalidate, kill, GoTo
<1>15. ASSUME NEW c \in Callers, PairStopped(c)
      PROVE  LoopIsWanted'
  BY <1>15, GroupsUnchanged DEF EInv, LoopIsWanted, PairStopped, IInv,
     GateHeld, Gated, Position, Request
<1>16. ASSUME NEW c \in Callers, KeygenEnds(c)
      PROVE  LoopIsWanted'
  BY <1>16, GroupsUnchanged DEF EInv, LoopIsWanted, KeygenEnds, Replied,
     Unsuccessful, NoReply, kill, IInv, GateHeld, Gated, Position, Request
<1>17. ASSUME NEW c \in Callers, WritePub(c)
      PROVE  LoopIsWanted'
  BY <1>17, GroupsUnchanged DEF EInv, LoopIsWanted, WritePub, invalidate,
     kill, IInv, GateHeld, Gated, Position, Request
<1>18. ASSUME NEW c \in Callers, PairAnswered(c)
      PROVE  LoopIsWanted'
  BY <1>18, GroupsUnchanged DEF EInv, LoopIsWanted, PairAnswered, Replied,
     Unsuccessful, NoReply, kill, IInv, GateHeld, Gated, Position, Request
<1>19. ASSUME NEW c \in Callers, SavePaired(c)
      PROVE  LoopIsWanted'
  BY <1>19, GroupsUnchanged DEF EInv, LoopIsWanted, SavePaired, IInv,
     GateHeld, Gated, Position, Request
<1>20. ASSUME NEW c \in Callers, StartChecks(c)
      PROVE  LoopIsWanted'
  BY <1>20, GroupsUnchanged DEF EInv, LoopIsWanted, StartChecks,
     StartReturns, Return, GoTo, IInv, WantedIsEligible, TypeOK,
     CallerType
<1>21. ASSUME NEW c \in Callers, StartEnds(c)
      PROVE  LoopIsWanted'
  BY <1>21, GroupsUnchanged DEF EInv, LoopIsWanted, StartEnds, Replied,
     Unsuccessful, NoReply, kill, StoppedIsOff, PresenceIsServed
<1>22. ASSUME NEW c \in Callers, PollRestarts(c)
      PROVE  LoopIsWanted'
  BY <1>22, GroupsUnchanged DEF EInv, LoopIsWanted, PollRestarts,
     invalidate, kill, GoTo, Return, IInv, TypeOK, CallerType
<1>23. ASSUME NEW c \in Callers, Dropped(c)
      PROVE  LoopIsWanted'
  BY <1>23 DEF EInv, LoopIsWanted, Dropped, Forgets
<1>24. CASE ChildServes
  <2>1. UNCHANGED <<enabled, started, retry, pc, gate>>
    BY <1>24, GroupsUnchanged DEF ChildServes
  <2>2. gate \in Callers
    BY <1>24 DEF ChildServes, EInv, IInv, RequestHasCaller
  <2>3. pc[gate] \in {"presence-start", "presence-stop"} \/ mode' \in {mode, "off"}
    BY <1>24 DEF ChildServes, ServesKeygen, ServesPair, ServesCommand
  <2> QED
    BY <2>1, <2>2, <2>3 DEF EInv, LoopIsWanted
<1>25. CASE ChildDies
  BY <1>25, GroupsUnchanged DEF EInv, LoopIsWanted, ChildDies
<1>26. CASE LoopOpensBus
  BY <1>26, GroupsUnchanged DEF EInv, LoopIsWanted, LoopOpensBus
<1>27. CASE LoopGivesUp
  BY <1>27, GroupsUnchanged DEF EInv, LoopIsWanted, LoopGivesUp
<1>28. CASE LinkUp
  BY <1>28, GroupsUnchanged DEF EInv, LoopIsWanted, LinkUp
<1>29. CASE LinkLost
  BY <1>29, GroupsUnchanged DEF EInv, LoopIsWanted, LinkLost
<1>30. CASE ReaderHangsUp \/ ReaderReports
  BY <1>30, GroupsUnchanged DEF EInv, LoopIsWanted, ReaderHangsUp,
     ReaderReports
<1>31. CASE SendToChild
  BY <1>31, GroupsUnchanged DEF EInv, LoopIsWanted, SendToChild, kill
<1>32. CASE SendSpawns
  BY <1>32, GroupsUnchanged DEF EInv, LoopIsWanted, SendSpawns
<1>33. CASE RetryComesDue
  BY <1>33, GroupsUnchanged DEF EInv, LoopIsWanted, RetryComesDue
<1>34. CASE Crash
  BY <1>34 DEF EInv, LoopIsWanted, Crash, Forgets
<1>35. CASE Boot
  BY <1>35, GroupsUnchanged DEF EInv, LoopIsWanted, Boot
<1>36. ASSUME NEW c \in Callers, Returns(c)
      PROVE  LoopIsWanted'
  BY <1>36, GroupsUnchanged DEF EInv, LoopIsWanted, Returns, GoTo
<1>37. CASE LoopReports
  BY <1>37, GroupsUnchanged DEF EInv, LoopIsWanted, LoopReports
<1> QED
  BY <1>1, <1>2, <1>3, <1>4, <1>5, <1>6, <1>7, <1>8, <1>9, <1>10, <1>11,
     <1>12, <1>13, <1>14, <1>15, <1>16, <1>17, <1>18, <1>19, <1>20, <1>21,
     <1>22, <1>23, <1>24, <1>25, <1>26, <1>27, <1>28, <1>29, <1>30, <1>31,
     <1>32, <1>33, <1>34, <1>35, <1>36, <1>37 DEF Next, Begins, GoesOn, Client,
     ChildSteps

-----------------------------------------------------------------------------
\* A fresh process wants nothing and has no child.
LEMMA InitEvents == Init => EInv
<1> SUFFICES ASSUME Init
             PROVE  EInv
  OBVIOUS
<1>1. NewsIsFresh
  BY DEF Init, Fresh, NewsIsFresh, NewsQueued
<1>2. StoppedIsOff /\ WantedIsEligible /\ WantedIsStarted
  BY DEF Init, Fresh, StoppedIsOff, Retiring, WantedIsEligible, WantedIsStarted
<1>3. LossIsNoticed /\ PresenceIsServed /\ LoopIsWanted
  BY DEF Init, Fresh, LossIsNoticed, Running, PresenceIsServed, LoopIsWanted
<1>4. UnsaidIsHeard /\ UnsaidIsCurrent
  BY DEF Init, Fresh, UnsaidIsHeard, UnsaidIsCurrent
<1> QED
  BY <1>1, <1>2, <1>3, <1>4, InitInv DEF EInv

LEMMA EventsKept ==
    ASSUME EInv, [Next]_vars
    PROVE  EInv'
<1>1. IInv'
  BY InvKept DEF EInv
<1>2. CASE Next
  BY <1>1, <1>2, NewsIsFreshKept, StoppedIsOffKept, WantedIsEligibleKept,
     WantedIsStartedKept, LossIsNoticedKept, PresenceIsServedKept,
     LoopIsWantedKept, UnsaidIsHeardKept, UnsaidIsCurrentKept DEF EInv
<1>3. CASE UNCHANGED vars
  <2>1. /\ UNCHANGED <<up, cfg, priv, pc, op, started, enabled, retry>>
        /\ UNCHANGED <<conn, mode, wire, events, unsaid>>
    BY <1>3, GroupsUnchanged DEF vars
  <2>2. NewsIsFresh' /\ StoppedIsOff' /\ WantedIsEligible' /\ WantedIsStarted'
    BY <2>1 DEF EInv, NewsIsFresh, NewsQueued, StoppedIsOff, Retiring,
       WantedIsEligible, Eligible, WantedIsStarted, Starting
  <2>3. LossIsNoticed' /\ PresenceIsServed' /\ LoopIsWanted'
    BY <2>1 DEF EInv, LossIsNoticed, Running, LossNoticed, LossQueued,
       PresenceIsServed, LoopIsWanted
  <2>4. UnsaidIsHeard' /\ UnsaidIsCurrent'
    BY <2>1 DEF EInv, UnsaidIsHeard, UnsaidIsCurrent, Running
  <2> QED
    BY <1>1, <2>2, <2>3, <2>4 DEF EInv
<1> QED
  BY <1>2, <1>3

\* EInv holds throughout.
LEMMA EventInvariant == Spec => []EInv
<1> QED
  BY InitEvents, EventsKept, PTL DEF Spec

\* What the queue says of a session is never news of a child that is gone:
\* every path that drops a child clears the queue or leaves its loss in it
\* (invalidate, transport_failed, spawn_reader).
THEOREM NewsIsOfTheLivingChild == Spec => []EventsAreFresh
<1>1. EInv => EventsAreFresh
  BY DEF EInv, NewsIsFresh, NewsQueued, EventsAreFresh
<1> QED
  BY <1>1, EventInvariant, PTL

\* With nobody in phone_key_gate, no presence request is under way.
LEMMA QuietIsSettled ==
    ASSUME EInv, Quiet
    PROVE  \A c \in Callers : pc[c] \notin {"presence-start", "presence-stop"}
  BY CoreConstants DEF EInv, IInv, GateHeld, Gated, Quiet, Position, Request

\* The loss of a started service is always on its way to a poll, for any number
\* of callers and any capacity of the queue (poll_phone_key_event).
THEOREM LossesAreReported == Spec => []LossIsReported
<1>1. ASSUME EInv
      PROVE  LossIsReported
  <2>1. CASE Quiet /\ started /\ mode = "off"
    BY <1>1, <2>1, QuietIsSettled
       DEF EInv, LossIsNoticed, Running, LossNoticed, LossQueued, LossIsReported
  <2> QED
    BY <2>1 DEF LossIsReported
<1> QED
  BY <1>1, EventInvariant, PTL

\* A wanted service that is down has a retry pending or a caller about to start
\* it (schedule_phone_key_retry, handle_resume, set_config).
THEOREM DownServicesAreRetried == Spec => []DownServiceHasRetry
<1>1. ASSUME EInv
      PROVE  DownServiceHasRetry
  <2>1. CASE Quiet /\ enabled /\ ~started
    BY <1>1, <2>1, QuietIsSettled
       DEF EInv, WantedIsStarted, Starting, DownServiceHasRetry
  <2> QED
    BY <2>1 DEF DownServiceHasRetry
<1> QED
  BY <1>1, EventInvariant, PTL

\* No operation leaves a child behind that maintains presence for a service
\* that was stopped, an unpaired key or another vehicle (set_config,
\* generate_key, stop_phone_key_locked).
THEOREM PresenceIsAlwaysWanted == Spec => []PresenceIsWanted
<1>1. ASSUME EInv
      PROVE  PresenceIsWanted
  <2>1. CASE Quiet /\ mode # "off"
    <3>1. enabled
      BY <1>1, <2>1, QuietIsSettled DEF EInv, LoopIsWanted
    <3> QED
      BY <1>1, <2>1, <3>1
         DEF EInv, IInv, ChildServesConfigured, PresenceIsWanted
  <2> QED
    BY <2>1 DEF PresenceIsWanted
<1> QED
  BY <1>1, EventInvariant, PTL
=============================================================================
