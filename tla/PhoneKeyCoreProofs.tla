------------------------- MODULE PhoneKeyCoreProofs -------------------------
(***************************************************************************)
(* Type correctness of PhoneKeyCore, in four parts, each of which every    *)
(* action is shown to keep; that a key marked as paired is enrolled, that  *)
(* commands reach the vehicle that is configured, and that the core        *)
(* implements PhoneKeyService.                                             *)
(***************************************************************************)
EXTENDS PhoneKeyCoreProperties, TLAPS, SequenceTheorems

\* A group of variables is unchanged when each of them is.
LEMMA GroupsUnchanged ==
    /\ UNCHANGED diskVars <=>
         UNCHANGED file /\ UNCHANGED priv /\ UNCHANGED pub /\ UNCHANGED knows
    /\ UNCHANGED serviceVars <=>
         UNCHANGED started /\ UNCHANGED enabled /\ UNCHANGED retry
    /\ UNCHANGED childVars <=>
         /\ UNCHANGED conn /\ UNCHANGED childVin /\ UNCHANGED mode
         /\ UNCHANGED active /\ UNCHANGED events /\ UNCHANGED unsaid
    /\ UNCHANGED callerVars <=>
         /\ UNCHANGED pc /\ UNCHANGED op /\ UNCHANGED out
         /\ UNCHANGED gate /\ UNCHANGED ble
BY DEF diskVars, serviceVars, childVars, callerVars

\* Ending an operation keeps the callers well typed.
LEMMA ReturnType ==
    ASSUME TypeOK, NEW c \in Callers, NEW r \in Result, Return(c, r)
    PROVE  CallerType'
BY DEF TypeOK, CallerType, Return, GoTo, Position

\* So does an operation that takes the gate.
LEMMA EnterType ==
    ASSUME TypeOK, NEW c \in Callers, NEW o \in Operation, NEW p \in Position,
           Enter(c, o, p), ble' \in Callers \cup {None}
    PROVE  CallerType'
BY DEF TypeOK, CallerType, Enter, GoTo

\* So does one that is refused.
LEMMA RefuseType ==
    ASSUME TypeOK, NEW c \in Callers, NEW o \in Operation, Refuse(c, o)
    PROVE  CallerType'
BY DEF TypeOK, CallerType, Refuse, GoTo, Position, Result

\* A caller moves to a position.
LEMMA GoToType ==
    ASSUME TypeOK, NEW c \in Callers, NEW p \in Position, GoTo(c, p)
    PROVE  pc' \in [Callers -> Position]
BY DEF TypeOK, CallerType, GoTo

\* An event in the queue of a given capacity.
LEMMA PushType ==
    ASSUME TypeOK, NEW e \in Event, push(e)
    PROVE  events' \in Seq(Event) /\ Len(events') <= EventCap
BY CoreConstants, AppendProperties, HeadTailProperties, EmptySeq,
   SMTT(60) DEF TypeOK, ChildType, push

\* The result of start_phone_key is one of its caller.
LEMMA StartReturnsType ==
    ASSUME TypeOK, NEW c \in Callers, NEW ok \in BOOLEAN, StartReturns(c, ok)
    PROVE  CallerType'
BY ReturnType DEF StartReturns, Result

\* A saved configuration is a configuration.
LEMMA SaveType ==
    ASSUME TypeOK, NEW d \in Config, SaveOk(d) \/ SaveFails(d)
    PROVE  file' \in Config
BY DEF TypeOK, DiskType, SaveOk, SaveFails

\* So is a migrated one.
LEMMA MigrateType ==
    ASSUME NEW c \in Config
    PROVE  migrate(c) \in Config
BY DEF migrate, Config, Version

\* The queues that failures leave behind.
LEMMA QueueType ==
    /\ <<>> \in Seq(Event) /\ Len(<<>>) <= EventCap
    /\ <<"stopped">> \in Seq(Event) /\ Len(<<"stopped">>) <= EventCap
BY CoreConstants DEF Event

\* What a poll takes and what it leaves.
LEMMA PollType ==
    ASSUME TypeOK, events # <<>>
    PROVE  /\ Head(events) \in Event
           /\ Tail(events) \in Seq(Event) /\ Len(Tail(events)) <= EventCap
<1>1. events \in Seq(Event) /\ Len(events) \in Nat /\ Len(events) <= EventCap
  BY DEF TypeOK, ChildType
<1> QED
  BY <1>1, HeadTailProperties, CoreConstants

\* An operation that begins keeps the types.
LEMMA BeginsType ==
    ASSUME TypeOK, \E c \in Callers : Begins(c)
    PROVE  TypeOK'
<1>1. ASSUME NEW c \in Callers, NEW o \in {"run", "share"}, RunBegins(c, o)
      PROVE  TypeOK'
  <2>1. DiskType'
    BY <1>1, GroupsUnchanged DEF TypeOK, DiskType, RunBegins
  <2>2. ServiceType'
    BY <1>1, GroupsUnchanged DEF TypeOK, ServiceType, RunBegins
  <2>3. CallerType'
    BY <1>1, EnterType, RefuseType DEF TypeOK, CallerType, RunBegins,
       Position, Request, Result, Operation
  <2>4. ChildType'
    BY <1>1, GroupsUnchanged DEF TypeOK, ChildType, RunBegins, Conn, Wire,
       Event
  <2> QED
    BY <2>1, <2>2, <2>3, <2>4 DEF TypeOK
<1>2. ASSUME NEW c \in Callers, GenerateKeyBegins(c)
      PROVE  TypeOK'
  <2>1. DiskType'
    BY <1>2, GroupsUnchanged DEF TypeOK, DiskType, GenerateKeyBegins
  <2>2. ServiceType'
    BY <1>2, GroupsUnchanged DEF TypeOK, ServiceType, GenerateKeyBegins
  <2>3. CallerType'
    BY <1>2, EnterType, RefuseType DEF TypeOK, CallerType,
       GenerateKeyBegins, Position, Request, Result, Operation
  <2>4. ChildType'
    BY <1>2, GroupsUnchanged DEF TypeOK, ChildType, GenerateKeyBegins,
       Conn, Wire, Event
  <2> QED
    BY <2>1, <2>2, <2>3, <2>4 DEF TypeOK
<1>3. ASSUME NEW c \in Callers, ReplaceKeyBegins(c)
      PROVE  TypeOK'
  <2>1. DiskType'
    BY <1>3, SaveType DEF TypeOK, DiskType, ReplaceKeyBegins, ServiceType,
       Config
  <2>2. ServiceType'
    BY <1>3, GroupsUnchanged DEF TypeOK, ServiceType, ReplaceKeyBegins
  <2>3. CallerType'
    BY <1>3, EnterType, RefuseType DEF TypeOK, CallerType,
       ReplaceKeyBegins, Position, Request, Result, Operation
  <2>4. ChildType'
    BY <1>3, GroupsUnchanged DEF TypeOK, ChildType, ReplaceKeyBegins
  <2> QED
    BY <2>1, <2>2, <2>3, <2>4 DEF TypeOK
<1>4. ASSUME NEW c \in Callers, SetConfigBegins(c)
      PROVE  TypeOK'
  <2>1. DiskType'
    BY <1>4, SaveType DEF TypeOK, DiskType, SetConfigBegins, ServiceType,
       Config
  <2>2. ServiceType'
    BY <1>4, GroupsUnchanged DEF TypeOK, ServiceType, SetConfigBegins
  <2>3. CallerType'
    BY <1>4, EnterType, RefuseType DEF TypeOK, CallerType,
       SetConfigBegins, Position, Request, Result, Operation
  <2>4. ChildType'
    BY <1>4, GroupsUnchanged DEF TypeOK, ChildType, SetConfigBegins
  <2> QED
    BY <2>1, <2>2, <2>3, <2>4 DEF TypeOK
<1>5. ASSUME NEW c \in Callers, PairBegins(c)
      PROVE  TypeOK'
  <2>1. DiskType'
    BY <1>5, GroupsUnchanged DEF TypeOK, DiskType, PairBegins
  <2>2. ServiceType'
    BY <1>5, GroupsUnchanged DEF TypeOK, ServiceType, PairBegins
  <2>3. CallerType'
    BY <1>5, EnterType, RefuseType DEF TypeOK, CallerType, PairBegins,
       Position, Request, Result, Operation
  <2>4. ChildType'
    BY <1>5, GroupsUnchanged DEF TypeOK, ChildType, PairBegins
  <2> QED
    BY <2>1, <2>2, <2>3, <2>4 DEF TypeOK
<1>6. ASSUME NEW c \in Callers, DropBegins(c)
      PROVE  TypeOK'
  <2>1. DiskType'
    BY <1>6, GroupsUnchanged DEF TypeOK, DiskType, DropBegins
  <2>2. ServiceType'
    BY <1>6, GroupsUnchanged DEF TypeOK, ServiceType, DropBegins
  <2>3. CallerType'
    BY <1>6, EnterType DEF TypeOK, CallerType, DropBegins, Position,
       Request, Result, Operation
  <2>4. ChildType'
    BY <1>6, GroupsUnchanged DEF TypeOK, ChildType, DropBegins
  <2> QED
    BY <2>1, <2>2, <2>3, <2>4 DEF TypeOK
<1>7. ASSUME NEW c \in Callers, ResumeBegins(c)
      PROVE  TypeOK'
  <2>1. DiskType'
    BY <1>7, GroupsUnchanged DEF TypeOK, DiskType, ResumeBegins
  <2>2. ServiceType'
    BY <1>7 DEF TypeOK, ServiceType, ResumeBegins, DiskType, Config
  <2>3. CallerType'
    BY <1>7 DEF TypeOK, CallerType, ResumeBegins, GoTo, Position, Request,
       Result, Operation
  <2>4. ChildType'
    BY <1>7, QueueType DEF TypeOK, ChildType, ResumeBegins, invalidate,
       kill, Conn, Wire, Event
  <2> QED
    BY <2>1, <2>2, <2>3, <2>4 DEF TypeOK
<1>8. ASSUME NEW c \in Callers, StartBegins(c)
      PROVE  TypeOK'
  <2>1. DiskType'
    BY <1>8, GroupsUnchanged DEF TypeOK, DiskType, StartBegins
  <2>2. ServiceType'
    BY <1>8, GroupsUnchanged DEF TypeOK, ServiceType, StartBegins
  <2>3. CallerType'
    BY <1>8 DEF TypeOK, CallerType, StartBegins, GoTo, Position, Request,
       Result, Operation
  <2>4. ChildType'
    BY <1>8, GroupsUnchanged DEF TypeOK, ChildType, StartBegins
  <2> QED
    BY <2>1, <2>2, <2>3, <2>4 DEF TypeOK
<1>9. ASSUME NEW c \in Callers, PollBegins(c)
      PROVE  TypeOK'
  <2>1. DiskType'
    BY <1>9, GroupsUnchanged DEF TypeOK, DiskType, PollBegins
  <2>2. ServiceType'
    BY <1>9, GroupsUnchanged DEF TypeOK, ServiceType, PollBegins
  <2>3. CallerType'
    <3> DEFINE event == IF events # <<>> THEN Head(events)
                        ELSE IF enabled /\ retry = "due" THEN "stopped" ELSE "none"
    <3>1. event \in Result
      BY PollType DEF Result, Event
    <3>2. op' = [op EXCEPT ![c] = "poll"] /\ gate' = gate /\ ble' = ble
      BY <1>9 DEF PollBegins
    <3>3. CASE event = "stopped"
      <4>1. pc' = [pc EXCEPT ![c] = "pollGate"] /\ out' = out
        BY <1>9, <3>3 DEF PollBegins, GoTo
      <4> QED
        BY <3>2, <4>1 DEF TypeOK, CallerType, Position, Operation
    <3>4. CASE event # "stopped"
      <4>1. pc' = [pc EXCEPT ![c] = "returned"] /\ out' = [out EXCEPT ![c] = event]
        BY <1>9, <3>4 DEF PollBegins, GoTo
      <4> QED
        BY <3>1, <3>2, <4>1 DEF TypeOK, CallerType, Position, Operation
    <3> QED
      BY <3>3, <3>4
  <2>4. ChildType'
    BY <1>9, PollType DEF TypeOK, ChildType, PollBegins, Conn, Wire, Event
  <2> QED
    BY <2>1, <2>2, <2>3, <2>4 DEF TypeOK
<1> QED
  BY <1>1, <1>2, <1>3, <1>4, <1>5, <1>6, <1>7, <1>8, <1>9 DEF Begins

\* An operation that goes on keeps the types.
LEMMA GoesOnType ==
    ASSUME TypeOK, \E c \in Callers : GoesOn(c)
    PROVE  TypeOK'
<1>1. ASSUME NEW c \in Callers, RunEnds(c)
      PROVE  TypeOK'
  <2>1. DiskType'
    BY <1>1, GroupsUnchanged DEF TypeOK, DiskType, RunEnds
  <2>2. ServiceType'
    BY <1>1, GroupsUnchanged DEF TypeOK, ServiceType, RunEnds
  <2>3. CallerType'
    BY <1>1, ReturnType DEF TypeOK, CallerType, RunEnds, Position,
       Request, Result, Operation
  <2>4. ChildType'
    BY <1>1, GroupsUnchanged, QueueType DEF TypeOK, ChildType, RunEnds,
       Replied, Unsuccessful, NoReply, kill, transport_failed, Conn, Wire,
       Event
  <2> QED
    BY <2>1, <2>2, <2>3, <2>4 DEF TypeOK
<1>2. ASSUME NEW c \in Callers, Stop(c)
      PROVE  TypeOK'
  <2>1. DiskType'
    BY <1>2, GroupsUnchanged DEF TypeOK, DiskType, Stop
  <2>2. ServiceType'
    BY <1>2 DEF TypeOK, ServiceType, Stop, DiskType, Config
  <2>3. CallerType'
    BY <1>2 DEF TypeOK, CallerType, Stop, GoTo, Position, Request, Result,
       Operation
  <2>4. ChildType'
    BY <1>2, GroupsUnchanged DEF TypeOK, ChildType, Stop, Conn, Wire,
       Event
  <2> QED
    BY <2>1, <2>2, <2>3, <2>4 DEF TypeOK
<1>3. ASSUME NEW c \in Callers, StopEnds(c)
      PROVE  TypeOK'
  <2>1. DiskType'
    BY <1>3, GroupsUnchanged DEF TypeOK, DiskType, StopEnds
  <2>2. ServiceType'
    BY <1>3 DEF TypeOK, ServiceType, StopEnds, DiskType, Config
  <2>3. CallerType'
    BY <1>3 DEF TypeOK, CallerType, StopEnds, GoTo, Position, Request,
       Result, Operation
  <2>4. ChildType'
    BY <1>3, QueueType DEF TypeOK, ChildType, StopEnds, Replied,
       invalidate, kill, Conn, Wire, Event
  <2> QED
    BY <2>1, <2>2, <2>3, <2>4 DEF TypeOK
<1>4. ASSUME NEW c \in Callers, SetConfigStopped(c)
      PROVE  TypeOK'
  <2>1. DiskType'
    BY <1>4, GroupsUnchanged DEF TypeOK, DiskType, SetConfigStopped
  <2>2. ServiceType'
    BY <1>4, GroupsUnchanged DEF TypeOK, ServiceType, SetConfigStopped,
       DiskType, Config
  <2>3. CallerType'
    BY <1>4, ReturnType DEF TypeOK, CallerType, SetConfigStopped, GoTo,
       Position, Request, Result, Operation
  <2>4. ChildType'
    BY <1>4, QueueType DEF TypeOK, ChildType, SetConfigStopped,
       invalidate, kill, Conn, Wire, Event
  <2> QED
    BY <2>1, <2>2, <2>3, <2>4 DEF TypeOK
<1>5. ASSUME NEW c \in Callers, ReplaceKeyStopped(c)
      PROVE  TypeOK'
  <2>1. DiskType'
    BY <1>5, GroupsUnchanged DEF TypeOK, DiskType, ReplaceKeyStopped
  <2>2. ServiceType'
    BY <1>5, GroupsUnchanged DEF TypeOK, ServiceType, ReplaceKeyStopped,
       DiskType, Config
  <2>3. CallerType'
    BY <1>5 DEF TypeOK, CallerType, ReplaceKeyStopped, GoTo, Position,
       Request, Result, Operation
  <2>4. ChildType'
    BY <1>5, QueueType DEF TypeOK, ChildType, ReplaceKeyStopped,
       invalidate, kill, Conn, Wire, Event
  <2> QED
    BY <2>1, <2>2, <2>3, <2>4 DEF TypeOK
<1>6. ASSUME NEW c \in Callers, PairStopped(c)
      PROVE  TypeOK'
  <2>1. DiskType'
    BY <1>6, GroupsUnchanged DEF TypeOK, DiskType, PairStopped
  <2>2. ServiceType'
    BY <1>6, GroupsUnchanged DEF TypeOK, ServiceType, PairStopped
  <2>3. CallerType'
    BY <1>6, ReturnType DEF TypeOK, CallerType, PairStopped, GoTo,
       Position, Request, Result, Operation
  <2>4. ChildType'
    BY <1>6, GroupsUnchanged DEF TypeOK, ChildType, PairStopped, Conn,
       Wire, Event
  <2> QED
    BY <2>1, <2>2, <2>3, <2>4 DEF TypeOK
<1>7. ASSUME NEW c \in Callers, KeygenEnds(c)
      PROVE  TypeOK'
  <2>1. DiskType'
    BY <1>7, GroupsUnchanged DEF TypeOK, DiskType, KeygenEnds
  <2>2. ServiceType'
    BY <1>7, GroupsUnchanged DEF TypeOK, ServiceType, KeygenEnds
  <2>3. CallerType'
    BY <1>7, ReturnType DEF TypeOK, CallerType, KeygenEnds, GoTo,
       Position, Request, Result, Operation
  <2>4. ChildType'
    BY <1>7, GroupsUnchanged, QueueType DEF TypeOK, ChildType, KeygenEnds,
       Replied, Unsuccessful, NoReply, kill, transport_failed, Conn, Wire,
       Event
  <2> QED
    BY <2>1, <2>2, <2>3, <2>4 DEF TypeOK
<1>8. ASSUME NEW c \in Callers, WritePub(c)
      PROVE  TypeOK'
  <2>1. DiskType'
    BY <1>8 DEF TypeOK, DiskType, WritePub, ServiceType, Config
  <2>2. ServiceType'
    BY <1>8, GroupsUnchanged DEF TypeOK, ServiceType, WritePub
  <2>3. CallerType'
    BY <1>8, ReturnType DEF TypeOK, CallerType, WritePub, Position,
       Request, Result, Operation
  <2>4. ChildType'
    BY <1>8, GroupsUnchanged, QueueType DEF TypeOK, ChildType, WritePub,
       invalidate, kill, Conn, Wire, Event
  <2> QED
    BY <2>1, <2>2, <2>3, <2>4 DEF TypeOK
<1>9. ASSUME NEW c \in Callers, PairAnswered(c)
      PROVE  TypeOK'
  <2>1. DiskType'
    BY <1>9, GroupsUnchanged DEF TypeOK, DiskType, PairAnswered
  <2>2. ServiceType'
    BY <1>9, GroupsUnchanged DEF TypeOK, ServiceType, PairAnswered
  <2>3. CallerType'
    BY <1>9, ReturnType DEF TypeOK, CallerType, PairAnswered, GoTo,
       Position, Request, Result, Operation
  <2>4. ChildType'
    BY <1>9, GroupsUnchanged, QueueType DEF TypeOK, ChildType,
       PairAnswered, Replied, Unsuccessful, NoReply, kill,
       transport_failed, Conn, Wire, Event
  <2> QED
    BY <2>1, <2>2, <2>3, <2>4 DEF TypeOK
<1>10. ASSUME NEW c \in Callers, SavePaired(c)
      PROVE  TypeOK'
  <2>1. DiskType'
    BY <1>10, SaveType DEF TypeOK, DiskType, SavePaired, ServiceType,
       Config
  <2>2. ServiceType'
    BY <1>10, GroupsUnchanged DEF TypeOK, ServiceType, SavePaired,
       DiskType, Config
  <2>3. CallerType'
    BY <1>10, ReturnType DEF TypeOK, CallerType, SavePaired, GoTo,
       Position, Request, Result, Operation
  <2>4. ChildType'
    BY <1>10, GroupsUnchanged DEF TypeOK, ChildType, SavePaired
  <2> QED
    BY <2>1, <2>2, <2>3, <2>4 DEF TypeOK
<1>11. ASSUME NEW c \in Callers, StartChecks(c)
      PROVE  TypeOK'
  <2>1. DiskType'
    BY <1>11, GroupsUnchanged DEF TypeOK, DiskType, StartChecks
  <2>2. ServiceType'
    BY <1>11, GroupsUnchanged DEF TypeOK, ServiceType, StartChecks,
       DiskType, Config
  <2>3. CallerType'
    BY <1>11, StartReturnsType DEF TypeOK, CallerType, StartChecks, GoTo,
       Position, Request, Result, Operation
  <2>4. ChildType'
    BY <1>11, GroupsUnchanged, QueueType DEF TypeOK, ChildType,
       StartChecks, invalidate, kill, Conn, Wire, Event
  <2> QED
    BY <2>1, <2>2, <2>3, <2>4 DEF TypeOK
<1>12. ASSUME NEW c \in Callers, StartEnds(c)
      PROVE  TypeOK'
  <2>1. DiskType'
    BY <1>12, GroupsUnchanged DEF TypeOK, DiskType, StartEnds
  <2>2. ServiceType'
    BY <1>12 DEF TypeOK, ServiceType, StartEnds, DiskType, Config
  <2>3. CallerType'
    BY <1>12, StartReturnsType DEF TypeOK, CallerType, StartEnds,
       Position, Request, Result, Operation
  <2>4. ChildType'
    BY <1>12, GroupsUnchanged, QueueType DEF TypeOK, ChildType, StartEnds,
       Replied, Unsuccessful, NoReply, kill, transport_failed, Conn, Wire,
       Event
  <2> QED
    BY <2>1, <2>2, <2>3, <2>4 DEF TypeOK
<1>13. ASSUME NEW c \in Callers, PollRestarts(c)
      PROVE  TypeOK'
  <2>1. DiskType'
    BY <1>13, GroupsUnchanged DEF TypeOK, DiskType, PollRestarts
  <2>2. ServiceType'
    BY <1>13 DEF TypeOK, ServiceType, PollRestarts, DiskType, Config
  <2>3. CallerType'
    BY <1>13, ReturnType DEF TypeOK, CallerType, PollRestarts, GoTo,
       Position, Request, Result, Operation
  <2>4. ChildType'
    BY <1>13, GroupsUnchanged, QueueType DEF TypeOK, ChildType,
       PollRestarts, invalidate, kill, Conn, Wire, Event
  <2> QED
    BY <2>1, <2>2, <2>3, <2>4 DEF TypeOK
<1>14. ASSUME NEW c \in Callers, Dropped(c)
      PROVE  TypeOK'
  <2>1. DiskType'
    BY <1>14, GroupsUnchanged DEF TypeOK, DiskType, Dropped, Forgets
  <2>2. ServiceType'
    BY <1>14 DEF TypeOK, ServiceType, Dropped, Forgets, DiskType, Config
  <2>3. CallerType'
    BY <1>14 DEF TypeOK, CallerType, Dropped, Forgets, Position, Request,
       Result, Operation
  <2>4. ChildType'
    BY <1>14, QueueType DEF TypeOK, ChildType, Dropped, Forgets, Conn,
       Wire, Event
  <2> QED
    BY <2>1, <2>2, <2>3, <2>4 DEF TypeOK
<1> QED
  BY <1>1, <1>2, <1>3, <1>4, <1>5, <1>6, <1>7, <1>8, <1>9, <1>10, <1>11,
     <1>12, <1>13, <1>14 DEF GoesOn

\* The child and the reader keep the types.
LEMMA ChildStepsType ==
    ASSUME TypeOK, ChildSteps
    PROVE  TypeOK'
<1>1. CASE ReaderHangsUp
  <2>1. DiskType'
    BY <1>1, GroupsUnchanged DEF TypeOK, DiskType, ReaderHangsUp
  <2>2. ServiceType'
    BY <1>1, GroupsUnchanged DEF TypeOK, ServiceType, ReaderHangsUp
  <2>3. CallerType'
    BY <1>1, GroupsUnchanged DEF TypeOK, CallerType, ReaderHangsUp
  <2>4. ChildType'
    BY <1>1 DEF TypeOK, ChildType, ReaderHangsUp, Conn, Wire, Event
  <2> QED
    BY <2>1, <2>2, <2>3, <2>4 DEF TypeOK
<1>2. CASE ReaderReports
  <2>1. DiskType'
    BY <1>2, GroupsUnchanged DEF TypeOK, DiskType, ReaderReports
  <2>2. ServiceType'
    BY <1>2, GroupsUnchanged DEF TypeOK, ServiceType, ReaderReports
  <2>3. CallerType'
    BY <1>2, GroupsUnchanged DEF TypeOK, CallerType, ReaderReports
  <2>4. ChildType'
    BY <1>2, QueueType DEF TypeOK, ChildType, ReaderReports, Conn, Wire,
       Event
  <2> QED
    BY <2>1, <2>2, <2>3, <2>4 DEF TypeOK
<1>3. CASE ChildServes
  <2>1. DiskType'
    BY <1>3 DEF TypeOK, DiskType, ChildServes, ServesPresence,
       ServesKeygen, ServesPair, ServesCommand, ServiceType, Config,
       ChildType
  <2>2. ServiceType'
    BY <1>3, GroupsUnchanged DEF TypeOK, ServiceType, ChildServes
  <2>3. CallerType'
    BY <1>3, GroupsUnchanged DEF TypeOK, CallerType, ChildServes
  <2>4. ChildType'
    BY <1>3 DEF TypeOK, ChildType, ChildServes, ServesPresence, Replies,
       ServesKeygen, ServesPair, ServesCommand, Conn, Wire, Event
  <2> QED
    BY <2>1, <2>2, <2>3, <2>4 DEF TypeOK
<1>4. CASE ChildDies
  <2>1. DiskType'
    BY <1>4, GroupsUnchanged DEF TypeOK, DiskType, ChildDies
  <2>2. ServiceType'
    BY <1>4, GroupsUnchanged DEF TypeOK, ServiceType, ChildDies
  <2>3. CallerType'
    BY <1>4, GroupsUnchanged DEF TypeOK, CallerType, ChildDies
  <2>4. ChildType'
    BY <1>4 DEF TypeOK, ChildType, ChildDies, Conn, Wire, Event
  <2> QED
    BY <2>1, <2>2, <2>3, <2>4 DEF TypeOK
<1>5. CASE LoopOpensBus
  <2>1. DiskType'
    BY <1>5, GroupsUnchanged DEF TypeOK, DiskType, LoopOpensBus
  <2>2. ServiceType'
    BY <1>5, GroupsUnchanged DEF TypeOK, ServiceType, LoopOpensBus
  <2>3. CallerType'
    BY <1>5, GroupsUnchanged DEF TypeOK, CallerType, LoopOpensBus
  <2>4. ChildType'
    BY <1>5 DEF TypeOK, ChildType, LoopOpensBus, Conn, Wire, Event
  <2> QED
    BY <2>1, <2>2, <2>3, <2>4 DEF TypeOK
<1>6. CASE LoopGivesUp
  <2>1. DiskType'
    BY <1>6, GroupsUnchanged DEF TypeOK, DiskType, LoopGivesUp
  <2>2. ServiceType'
    BY <1>6, GroupsUnchanged DEF TypeOK, ServiceType, LoopGivesUp
  <2>3. CallerType'
    BY <1>6, GroupsUnchanged DEF TypeOK, CallerType, LoopGivesUp
  <2>4. ChildType'
    BY <1>6, PushType DEF TypeOK, ChildType, LoopGivesUp, Owes, Conn,
       Wire, Event
  <2> QED
    BY <2>1, <2>2, <2>3, <2>4 DEF TypeOK
<1>7. CASE LinkUp
  <2>1. DiskType'
    BY <1>7, GroupsUnchanged DEF TypeOK, DiskType, LinkUp
  <2>2. ServiceType'
    BY <1>7, GroupsUnchanged DEF TypeOK, ServiceType, LinkUp
  <2>3. CallerType'
    BY <1>7, GroupsUnchanged DEF TypeOK, CallerType, LinkUp
  <2>4. ChildType'
    BY <1>7, PushType DEF TypeOK, ChildType, LinkUp, Owes, Conn, Wire,
       Event
  <2> QED
    BY <2>1, <2>2, <2>3, <2>4 DEF TypeOK
<1>8. CASE LinkLost
  <2>1. DiskType'
    BY <1>8, GroupsUnchanged DEF TypeOK, DiskType, LinkLost
  <2>2. ServiceType'
    BY <1>8, GroupsUnchanged DEF TypeOK, ServiceType, LinkLost
  <2>3. CallerType'
    BY <1>8, GroupsUnchanged DEF TypeOK, CallerType, LinkLost
  <2>4. ChildType'
    BY <1>8, PushType DEF TypeOK, ChildType, LinkLost, Emit, Conn, Wire,
       Event
  <2> QED
    BY <2>1, <2>2, <2>3, <2>4 DEF TypeOK
<1>9. CASE LoopReports
  <2>1. DiskType'
    BY <1>9, GroupsUnchanged DEF TypeOK, DiskType, LoopReports
  <2>2. ServiceType'
    BY <1>9, GroupsUnchanged DEF TypeOK, ServiceType, LoopReports
  <2>3. CallerType'
    BY <1>9, GroupsUnchanged DEF TypeOK, CallerType, LoopReports
  <2>4. ChildType'
    BY <1>9, PushType DEF TypeOK, ChildType, LoopReports, Emit, Conn, Wire,
       Event
  <2> QED
    BY <2>1, <2>2, <2>3, <2>4 DEF TypeOK
<1> QED
  BY <1>1, <1>2, <1>3, <1>4, <1>5, <1>6, <1>7, <1>8, <1>9 DEF ChildSteps

\* So do requests, the retry timer, starts and crashes of the process.
LEMMA OthersType ==
    ASSUME TypeOK, Client \/ RetryComesDue \/ Boot \/ Crash
    PROVE  TypeOK'
<1>1. CASE SendToChild
  <2>1. DiskType'
    BY <1>1, GroupsUnchanged DEF TypeOK, DiskType, SendToChild
  <2>2. ServiceType'
    BY <1>1, GroupsUnchanged DEF TypeOK, ServiceType, SendToChild
  <2>3. CallerType'
    BY <1>1, GroupsUnchanged DEF TypeOK, CallerType, SendToChild
  <2>4. ChildType'
    BY <1>1, GroupsUnchanged, QueueType DEF TypeOK, ChildType,
       SendToChild, kill, transport_failed, Conn, Wire, Event
  <2> QED
    BY <2>1, <2>2, <2>3, <2>4 DEF TypeOK
<1>2. CASE SendSpawns
  <2>1. DiskType'
    BY <1>2, GroupsUnchanged DEF TypeOK, DiskType, SendSpawns
  <2>2. ServiceType'
    BY <1>2, GroupsUnchanged DEF TypeOK, ServiceType, SendSpawns
  <2>3. CallerType'
    BY <1>2, GroupsUnchanged DEF TypeOK, CallerType, SendSpawns
  <2>4. ChildType'
    BY <1>2, QueueType DEF TypeOK, ChildType, SendSpawns,
       transport_failed, Conn, Wire, Event, ServiceType, Config
  <2> QED
    BY <2>1, <2>2, <2>3, <2>4 DEF TypeOK
<1>3. CASE RetryComesDue
  <2>1. DiskType'
    BY <1>3, GroupsUnchanged DEF TypeOK, DiskType, RetryComesDue
  <2>2. ServiceType'
    BY <1>3 DEF TypeOK, ServiceType, RetryComesDue, DiskType, Config
  <2>3. CallerType'
    BY <1>3, GroupsUnchanged DEF TypeOK, CallerType, RetryComesDue
  <2>4. ChildType'
    BY <1>3, GroupsUnchanged DEF TypeOK, ChildType, RetryComesDue
  <2> QED
    BY <2>1, <2>2, <2>3, <2>4 DEF TypeOK
<1>4. CASE Boot
  <2>1. DiskType'
    BY <1>4, SaveType, MigrateType DEF TypeOK, DiskType, Boot,
       ServiceType, Config
  <2>2. ServiceType'
    BY <1>4, GroupsUnchanged, MigrateType DEF TypeOK, ServiceType, Boot,
       DiskType, Config
  <2>3. CallerType'
    BY <1>4, GroupsUnchanged DEF TypeOK, CallerType, Boot
  <2>4. ChildType'
    BY <1>4, GroupsUnchanged DEF TypeOK, ChildType, Boot
  <2> QED
    BY <2>1, <2>2, <2>3, <2>4 DEF TypeOK
<1>5. CASE Crash
  <2>1. DiskType'
    BY <1>5, GroupsUnchanged DEF TypeOK, DiskType, Crash, Forgets
  <2>2. ServiceType'
    BY <1>5 DEF TypeOK, ServiceType, Crash, Forgets, DiskType, Config
  <2>3. CallerType'
    BY <1>5 DEF TypeOK, CallerType, Crash, Forgets, Position, Request,
       Result, Operation
  <2>4. ChildType'
    BY <1>5, QueueType DEF TypeOK, ChildType, Crash, Forgets, Conn, Wire,
       Event
  <2> QED
    BY <2>1, <2>2, <2>3, <2>4 DEF TypeOK
<1> QED
  BY <1>1, <1>2, <1>3, <1>4, <1>5 DEF Client

\* Handing the result to the caller keeps the types.
LEMMA ReturnsType ==
    ASSUME TypeOK, NEW c \in Callers, Returns(c)
    PROVE  TypeOK'
<1>1. DiskType' /\ ServiceType' /\ ChildType'
  BY GroupsUnchanged DEF TypeOK, DiskType, ServiceType, ChildType, Returns
<1>2. CallerType'
  BY DEF TypeOK, CallerType, Returns, GoTo, Position, Result
<1> QED
  BY <1>1, <1>2 DEF TypeOK

\* The initial states are well typed.
LEMMA InitType == Init => TypeOK
<1> SUFFICES ASSUME Init
             PROVE  TypeOK
  OBVIOUS
<1>1. DiskType
  BY DEF Init, DiskType
<1>2. ServiceType
  BY DEF Init, Fresh, ServiceType
<1>3. CallerType
  BY DEF Init, Fresh, CallerType, Position, Result
<1>4. ChildType
  BY QueueType DEF Init, Fresh, ChildType, Conn, Wire
<1> QED
  BY <1>1, <1>2, <1>3, <1>4 DEF TypeOK

\* Every step keeps the types.
LEMMA TypeKept ==
    ASSUME TypeOK, [Next]_vars
    PROVE  TypeOK'
<1>1. CASE UNCHANGED vars
  <2>1. /\ UNCHANGED diskVars /\ UNCHANGED serviceVars /\ UNCHANGED childVars
        /\ UNCHANGED callerVars /\ UNCHANGED up /\ UNCHANGED cfg
        /\ UNCHANGED wire
    BY <1>1 DEF vars
  <2>2. DiskType'
    BY <2>1, GroupsUnchanged DEF TypeOK, DiskType
  <2>3. ServiceType'
    BY <2>1, GroupsUnchanged DEF TypeOK, ServiceType
  <2>4. CallerType'
    BY <2>1, GroupsUnchanged DEF TypeOK, CallerType
  <2>5. ChildType'
    BY <2>1, GroupsUnchanged DEF TypeOK, ChildType
  <2> QED
    BY <2>2, <2>3, <2>4, <2>5 DEF TypeOK
<1>2. CASE \E c \in Callers : Begins(c)
  BY <1>2, BeginsType
<1>3. CASE \E c \in Callers : GoesOn(c)
  BY <1>3, GoesOnType
<1>4. CASE \E c \in Callers : Returns(c)
  BY <1>4, ReturnsType
<1>5. CASE ChildSteps
  BY <1>5, ChildStepsType
<1>6. CASE Client \/ RetryComesDue \/ Boot \/ Crash
  BY <1>6, OthersType
<1> QED
  BY <1>1, <1>2, <1>3, <1>4, <1>5, <1>6 DEF Next

\* The state of the core and its client is well typed; in particular the event
\* queue never exceeds its capacity (spawn_reader, MAX_EVENT_QUEUE).
THEOREM TypeCorrect == Spec => []TypeOK
<1> QED
  BY InitType, TypeKept, PTL DEF Spec

-----------------------------------------------------------------------------
(* The enrolment of keys.                                                  *)

\* Positions at which an operation holds the gate.
Gated == Position \ {"idle", "returned", "start", "pollGate"}
\* Positions after the new configuration is saved.
Changing == {"stop", "presence-stop", "stopped", "keygen", "writePub"}
Replacing(c) == op[c] = "replace_key" /\ pc[c] \in Changing

\* An operation past its beginning holds the gate.
GateHeld == \A c \in Callers : pc[c] \in Gated => gate = c

\* While the process is down nothing is under way.
DownIsIdle ==
    ~up => /\ (\A c \in Callers : pc[c] = "idle")
           /\ childVin = None /\ mode = "off" /\ wire = "idle"

\* A request in flight is that of the operation that holds the gate.
RequestHasCaller == wire # "idle" => gate \in Callers /\ pc[gate] \in Request

\* A live child was spawned for the configured VIN, and maintains presence
\* only for a paired key.
ChildServesConfigured ==
    /\ childVin # None => childVin = cfg.vin
    /\ mode # "off" => childVin # None /\ cfg.paired /\ priv

\* Presence is only asked for with a paired key.
StartIsEligible == \A c \in Callers : pc[c] = "presence-start" => Eligible

\* From the first step of a key replacement on the file says unpaired, and
\* memory does when the key is made.
ReplacedIsUnpaired ==
    \A c \in Callers :
      /\ Replacing(c) => ~file.paired
      /\ Replacing(c) /\ pc[c] \in {"keygen", "writePub"} => ~cfg.paired

\* When pair has its confirmation, the configured vehicle knows the key.
ConfirmedIsEnrolled ==
    \A c \in Callers :
      pc[c] = "savePaired" \/ (pc[c] = "pair" /\ wire = "ok")
        => priv /\ cfg.vin \in knows

\* The configuration in memory has the current schema or a newer one.
MemoryIsMigrated == up => cfg.version \in {"V2", "newer"}

\* An operation that changes the configuration saves it first.
FileIsSaved ==
    \A c \in Callers :
      op[c] \in {"replace_key", "set_config"} /\ pc[c] \in Changing
        => file.version = "V2"

\* The next start of the process takes an unenrolled key for a paired one
\* neither from the file nor from its age.
OldFileIsEnrolled ==
    /\ Enrolled(migrate(file))
    /\ file.version = "V0" => (priv <=> pub # "none")

\* generate_key only reuses a key that exists.
ReusedKeyExists ==
    \A c \in Callers :
      pc[c] \in {"keygen", "writePub"} =>
        op[c] = "replace_key" \/ (op[c] = "generate_key" /\ priv)

IInv ==
    /\ TypeOK
    /\ GateHeld /\ DownIsIdle /\ RequestHasCaller
    /\ ChildServesConfigured /\ StartIsEligible
    /\ ReplacedIsUnpaired /\ ConfirmedIsEnrolled /\ PairedKeyIsEnrolled
    /\ MemoryIsMigrated /\ FileIsSaved /\ OldFileIsEnrolled /\ ReusedKeyExists

-----------------------------------------------------------------------------
(* IInv is inductive: one lemma for each part.                             *)

\* IInv is inductive: an operation past its beginning holds phone_key_gate
\* until it gives it back.
LEMMA GateHeldKept ==
    ASSUME IInv, Next
    PROVE  GateHeld'
<1>1. ASSUME NEW c \in Callers, NEW o \in {"run", "share"}, RunBegins(c, o)
      PROVE  GateHeld'
  BY <1>1, GroupsUnchanged, CoreConstants DEF IInv, GateHeld, Gated,
     RunBegins, Idle, Enter, GoTo, Refuse, Position, Request, TypeOK,
     CallerType
<1>2. ASSUME NEW c \in Callers, GenerateKeyBegins(c)
      PROVE  GateHeld'
  BY <1>2, GroupsUnchanged, CoreConstants DEF IInv, GateHeld, Gated,
     GenerateKeyBegins, Idle, Refuse, GoTo, Enter, Position, Request,
     TypeOK, CallerType
<1>3. ASSUME NEW c \in Callers, ReplaceKeyBegins(c)
      PROVE  GateHeld'
  BY <1>3, GroupsUnchanged, CoreConstants DEF IInv, GateHeld, Gated,
     ReplaceKeyBegins, Idle, SaveOk, Enter, GoTo, SaveFails, Refuse,
     Position, Request, TypeOK, CallerType
<1>4. ASSUME NEW c \in Callers, SetConfigBegins(c)
      PROVE  GateHeld'
  BY <1>4, GroupsUnchanged, CoreConstants DEF IInv, GateHeld, Gated,
     SetConfigBegins, Idle, SaveOk, Enter, GoTo, SaveFails, Refuse,
     Position, Request, TypeOK, CallerType
<1>5. ASSUME NEW c \in Callers, PairBegins(c)
      PROVE  GateHeld'
  BY <1>5, GroupsUnchanged, CoreConstants DEF IInv, GateHeld, Gated,
     PairBegins, Idle, Refuse, GoTo, Enter, Position, Request, TypeOK,
     CallerType
<1>6. ASSUME NEW c \in Callers, DropBegins(c)
      PROVE  GateHeld'
  BY <1>6 DEF IInv, GateHeld, Gated, DropBegins, Enter, GoTo
<1>7. ASSUME NEW c \in Callers, ResumeBegins(c)
      PROVE  GateHeld'
  BY <1>7 DEF IInv, GateHeld, Gated, ResumeBegins, GoTo
<1>8. ASSUME NEW c \in Callers, StartBegins(c)
      PROVE  GateHeld'
  BY <1>8 DEF IInv, GateHeld, Gated, StartBegins, GoTo
<1>9. ASSUME NEW c \in Callers, PollBegins(c)
      PROVE  GateHeld'
  BY <1>9 DEF IInv, GateHeld, Gated, PollBegins, GoTo, Position, Request,
     TypeOK, CallerType
<1>10. ASSUME NEW c \in Callers, RunEnds(c)
      PROVE  GateHeld'
  BY <1>10 DEF IInv, GateHeld, Gated, RunEnds, Return, GoTo, Position,
     Request, TypeOK, CallerType
<1>11. ASSUME NEW c \in Callers, Stop(c)
      PROVE  GateHeld'
  BY <1>11 DEF IInv, GateHeld, Gated, Stop, GoTo, Position, Request,
     TypeOK, CallerType
<1>12. ASSUME NEW c \in Callers, StopEnds(c)
      PROVE  GateHeld'
  BY <1>12 DEF IInv, GateHeld, Gated, StopEnds, GoTo, Position, Request
<1>13. ASSUME NEW c \in Callers, SetConfigStopped(c)
      PROVE  GateHeld'
  BY <1>13 DEF IInv, GateHeld, Gated, SetConfigStopped, GoTo, Return,
     Position, Request, TypeOK, CallerType
<1>14. ASSUME NEW c \in Callers, ReplaceKeyStopped(c)
      PROVE  GateHeld'
  BY <1>14 DEF IInv, GateHeld, Gated, ReplaceKeyStopped, GoTo, Position,
     Request
<1>15. ASSUME NEW c \in Callers, PairStopped(c)
      PROVE  GateHeld'
  BY <1>15 DEF IInv, GateHeld, Gated, PairStopped, GoTo, Return, Position,
     Request, TypeOK, CallerType
<1>16. ASSUME NEW c \in Callers, KeygenEnds(c)
      PROVE  GateHeld'
  BY <1>16 DEF IInv, GateHeld, Gated, KeygenEnds, GoTo, Return, Position,
     Request, TypeOK, CallerType
<1>17. ASSUME NEW c \in Callers, WritePub(c)
      PROVE  GateHeld'
  BY <1>17 DEF IInv, GateHeld, Gated, WritePub, Return, GoTo, Position,
     Request, TypeOK, CallerType
<1>18. ASSUME NEW c \in Callers, PairAnswered(c)
      PROVE  GateHeld'
  BY <1>18 DEF IInv, GateHeld, Gated, PairAnswered, GoTo, Return,
     Position, Request, TypeOK, CallerType
<1>19. ASSUME NEW c \in Callers, SavePaired(c)
      PROVE  GateHeld'
  BY <1>19 DEF IInv, GateHeld, Gated, SavePaired, GoTo, Return, Position,
     Request, TypeOK, CallerType
<1>20. ASSUME NEW c \in Callers, StartChecks(c)
      PROVE  GateHeld'
  BY <1>20, GroupsUnchanged, CoreConstants DEF IInv, GateHeld, Gated,
     StartChecks, IsPresenceActive, IsAlive, StartReturns, Return, GoTo,
     Eligible, invalidate, kill, Position, Request, TypeOK, CallerType
<1>21. ASSUME NEW c \in Callers, StartEnds(c)
      PROVE  GateHeld'
  BY <1>21 DEF IInv, GateHeld, Gated, StartEnds, StartReturns, Return,
     GoTo, Position, Request, TypeOK, CallerType
<1>22. ASSUME NEW c \in Callers, PollRestarts(c)
      PROVE  GateHeld'
  BY <1>22 DEF IInv, GateHeld, Gated, PollRestarts, GoTo, Return,
     Position, Request, TypeOK, CallerType
<1>23. ASSUME NEW c \in Callers, Dropped(c)
      PROVE  GateHeld'
  BY <1>23 DEF IInv, GateHeld, Gated, Dropped, Forgets
<1>24. CASE ReaderHangsUp \/ ReaderReports \/ ChildServes \/ ChildDies \/
           LoopOpensBus \/ LoopGivesUp \/ LinkUp \/ LinkLost \/ LoopReports
  BY <1>24, GroupsUnchanged DEF IInv, GateHeld, Gated, ReaderHangsUp,
     ReaderReports, ChildServes, ChildDies, LoopOpensBus, LoopGivesUp,
     LinkUp, LinkLost, LoopReports
<1>25. CASE Crash
  BY <1>25 DEF IInv, GateHeld, Gated, Crash, Forgets
<1>26. CASE SendToChild \/ SendSpawns \/ RetryComesDue \/ Boot
  BY <1>26, GroupsUnchanged DEF IInv, GateHeld, Gated, SendToChild,
     SendSpawns, RetryComesDue, Boot
<1>27. ASSUME NEW c \in Callers, Returns(c)
      PROVE  GateHeld'
  BY <1>27 DEF IInv, GateHeld, Gated, Returns, GoTo
<1> QED
  BY <1>1, <1>2, <1>3, <1>4, <1>5, <1>6, <1>7, <1>8, <1>9, <1>10, <1>11,
     <1>12, <1>13, <1>14, <1>15, <1>16, <1>17, <1>18, <1>19, <1>20, <1>21,
     <1>22, <1>23, <1>24, <1>25, <1>26, <1>27 DEF Next, Begins, GoesOn,
     Client, ChildSteps

\* IInv is inductive: while the process is down nothing is under way.
LEMMA DownIsIdleKept ==
    ASSUME IInv, Next
    PROVE  DownIsIdle'
<1>1. ASSUME NEW c \in Callers, NEW o \in {"run", "share"}, RunBegins(c, o)
      PROVE  DownIsIdle'
  BY <1>1, GroupsUnchanged, CoreConstants DEF IInv, DownIsIdle, RunBegins,
     Idle, Enter, GoTo, Refuse, TypeOK, CallerType, ChildType
<1>2. ASSUME NEW c \in Callers, GenerateKeyBegins(c)
      PROVE  DownIsIdle'
  BY <1>2, GroupsUnchanged, CoreConstants DEF IInv, DownIsIdle,
     GenerateKeyBegins, Idle, Refuse, GoTo, Enter, TypeOK, CallerType,
     ChildType
<1>3. ASSUME NEW c \in Callers, ReplaceKeyBegins(c)
      PROVE  DownIsIdle'
  BY <1>3, GroupsUnchanged, CoreConstants DEF IInv, DownIsIdle,
     ReplaceKeyBegins, Idle, SaveOk, Enter, GoTo, SaveFails, Refuse,
     TypeOK, CallerType, ChildType
<1>4. ASSUME NEW c \in Callers, SetConfigBegins(c)
      PROVE  DownIsIdle'
  BY <1>4, GroupsUnchanged, CoreConstants DEF IInv, DownIsIdle,
     SetConfigBegins, Idle, SaveOk, Enter, GoTo, SaveFails, Refuse,
     TypeOK, CallerType, ChildType
<1>5. ASSUME NEW c \in Callers, PairBegins(c)
      PROVE  DownIsIdle'
  BY <1>5, GroupsUnchanged, CoreConstants DEF IInv, DownIsIdle,
     PairBegins, Idle, Refuse, GoTo, Enter, TypeOK, CallerType, ChildType
<1>6. ASSUME NEW c \in Callers, DropBegins(c)
      PROVE  DownIsIdle'
  BY <1>6, GroupsUnchanged, CoreConstants DEF IInv, DownIsIdle,
     DropBegins, Idle, Enter, GoTo, TypeOK, CallerType, ChildType
<1>7. ASSUME NEW c \in Callers, ResumeBegins(c)
      PROVE  DownIsIdle'
  BY <1>7, GroupsUnchanged, CoreConstants DEF IInv, DownIsIdle,
     ResumeBegins, Idle, invalidate, kill, GoTo, TypeOK, CallerType,
     ChildType
<1>8. ASSUME NEW c \in Callers, StartBegins(c)
      PROVE  DownIsIdle'
  BY <1>8, GroupsUnchanged, CoreConstants DEF IInv, DownIsIdle,
     StartBegins, Idle, GoTo, TypeOK, CallerType, ChildType
<1>9. ASSUME NEW c \in Callers, PollBegins(c)
      PROVE  DownIsIdle'
  BY <1>9, GroupsUnchanged, CoreConstants DEF IInv, DownIsIdle,
     PollBegins, Idle, GoTo, TypeOK, CallerType, ChildType
<1>10. ASSUME NEW c \in Callers, RunEnds(c)
      PROVE  DownIsIdle'
  BY <1>10, GroupsUnchanged DEF IInv, DownIsIdle, RunEnds, Replied,
     Return, GoTo, Unsuccessful, NoReply, kill
<1>11. ASSUME NEW c \in Callers, Stop(c)
      PROVE  DownIsIdle'
  BY <1>11, GroupsUnchanged DEF IInv, DownIsIdle, Stop, GoTo
<1>12. ASSUME NEW c \in Callers, StopEnds(c)
      PROVE  DownIsIdle'
  BY <1>12 DEF IInv, DownIsIdle, StopEnds, Replied, invalidate, kill, GoTo
<1>13. ASSUME NEW c \in Callers, SetConfigStopped(c)
      PROVE  DownIsIdle'
  BY <1>13 DEF IInv, DownIsIdle, SetConfigStopped, invalidate, kill, GoTo,
     Return
<1>14. ASSUME NEW c \in Callers, ReplaceKeyStopped(c)
      PROVE  DownIsIdle'
  BY <1>14 DEF IInv, DownIsIdle, ReplaceKeyStopped, invalidate, kill, GoTo
<1>15. ASSUME NEW c \in Callers, PairStopped(c)
      PROVE  DownIsIdle'
  BY <1>15, GroupsUnchanged DEF IInv, DownIsIdle, PairStopped, GoTo,
     Return
<1>16. ASSUME NEW c \in Callers, KeygenEnds(c)
      PROVE  DownIsIdle'
  BY <1>16, GroupsUnchanged DEF IInv, DownIsIdle, KeygenEnds, Replied,
     GoTo, Unsuccessful, NoReply, kill, Return
<1>17. ASSUME NEW c \in Callers, WritePub(c)
      PROVE  DownIsIdle'
  BY <1>17, GroupsUnchanged DEF IInv, DownIsIdle, WritePub, Return, GoTo,
     invalidate, kill
<1>18. ASSUME NEW c \in Callers, PairAnswered(c)
      PROVE  DownIsIdle'
  BY <1>18, GroupsUnchanged DEF IInv, DownIsIdle, PairAnswered, Replied,
     GoTo, Unsuccessful, NoReply, kill, Return
<1>19. ASSUME NEW c \in Callers, SavePaired(c)
      PROVE  DownIsIdle'
  BY <1>19, GroupsUnchanged DEF IInv, DownIsIdle, SavePaired, GoTo, Return
<1>20. ASSUME NEW c \in Callers, StartChecks(c)
      PROVE  DownIsIdle'
  BY <1>20, GroupsUnchanged DEF IInv, DownIsIdle, StartChecks,
     StartReturns, Return, GoTo, invalidate, kill
<1>21. ASSUME NEW c \in Callers, StartEnds(c)
      PROVE  DownIsIdle'
  BY <1>21, GroupsUnchanged DEF IInv, DownIsIdle, StartEnds, Replied,
     StartReturns, Return, GoTo, Unsuccessful, NoReply, kill
<1>22. ASSUME NEW c \in Callers, PollRestarts(c)
      PROVE  DownIsIdle'
  BY <1>22, GroupsUnchanged DEF IInv, DownIsIdle, PollRestarts,
     invalidate, kill, GoTo, Return
<1>23. ASSUME NEW c \in Callers, Dropped(c)
      PROVE  DownIsIdle'
  BY <1>23 DEF IInv, DownIsIdle, Dropped, Forgets
<1>24. CASE ChildServes
  BY <1>24, GroupsUnchanged DEF IInv, DownIsIdle, ChildServes,
     ServesPresence, Replies, ServesKeygen, ServesPair, ServesCommand
<1>25. CASE ChildDies
  BY <1>25, GroupsUnchanged DEF IInv, DownIsIdle, ChildDies
<1>26. CASE LoopOpensBus
  BY <1>26, GroupsUnchanged DEF IInv, DownIsIdle, LoopOpensBus
<1>27. CASE LoopGivesUp
  BY <1>27, GroupsUnchanged DEF IInv, DownIsIdle, LoopGivesUp
<1>28. CASE LinkUp
  BY <1>28, GroupsUnchanged DEF IInv, DownIsIdle, LinkUp
<1>29. CASE LinkLost
  BY <1>29, GroupsUnchanged DEF IInv, DownIsIdle, LinkLost
<1>30. CASE ReaderHangsUp \/ ReaderReports
  BY <1>30, GroupsUnchanged DEF IInv, DownIsIdle, ReaderHangsUp,
     ReaderReports
<1>31. CASE SendToChild
  BY <1>31, GroupsUnchanged DEF IInv, DownIsIdle, SendToChild, kill
<1>32. CASE SendSpawns
  BY <1>32, GroupsUnchanged DEF IInv, DownIsIdle, SendSpawns
<1>33. CASE Boot
  BY <1>33, GroupsUnchanged DEF IInv, DownIsIdle, Boot
<1>34. CASE Crash
  BY <1>34 DEF IInv, DownIsIdle, Crash, Forgets
<1>35. CASE RetryComesDue
  BY <1>35, GroupsUnchanged DEF IInv, DownIsIdle, RetryComesDue
<1>36. ASSUME NEW c \in Callers, Returns(c)
      PROVE  DownIsIdle'
  BY <1>36, GroupsUnchanged DEF IInv, DownIsIdle, Returns, GoTo
<1>37. CASE LoopReports
  BY <1>37, GroupsUnchanged DEF IInv, DownIsIdle, LoopReports
<1> QED
  BY <1>1, <1>2, <1>3, <1>4, <1>5, <1>6, <1>7, <1>8, <1>9, <1>10, <1>11,
     <1>12, <1>13, <1>14, <1>15, <1>16, <1>17, <1>18, <1>19, <1>20, <1>21,
     <1>22, <1>23, <1>24, <1>25, <1>26, <1>27, <1>28, <1>29, <1>30, <1>31,
     <1>32, <1>33, <1>34, <1>35, <1>36, <1>37 DEF Next, Begins, GoesOn, Client,
     ChildSteps

\* IInv is inductive: a live child was spawned for the configured VIN, and
\* presence is only maintained for a paired key.
LEMMA ChildServesConfiguredKept ==
    ASSUME IInv, Next
    PROVE  ChildServesConfigured'
<1>1. ASSUME NEW c \in Callers, ResumeBegins(c)
      PROVE  ChildServesConfigured'
  BY <1>1, GroupsUnchanged DEF IInv, ChildServesConfigured, ResumeBegins,
     invalidate, kill
<1>2. ASSUME NEW c \in Callers,
             (\E o \in {"run", "share"} : RunBegins(c, o)) \/
             GenerateKeyBegins(c) \/ ReplaceKeyBegins(c) \/ SetConfigBegins(c)
             \/ PairBegins(c) \/ DropBegins(c) \/ StartBegins(c) \/
             PollBegins(c)
      PROVE  ChildServesConfigured'
  <2>1. childVin' = childVin /\ mode' = mode /\ cfg' = cfg /\ priv' = priv
    BY <1>2, GroupsUnchanged DEF RunBegins, GenerateKeyBegins,
       ReplaceKeyBegins, SetConfigBegins, PairBegins, DropBegins,
       StartBegins, PollBegins
  <2> QED
    BY <2>1 DEF IInv, ChildServesConfigured
<1>3. ASSUME NEW c \in Callers, RunEnds(c)
      PROVE  ChildServesConfigured'
  BY <1>3, GroupsUnchanged DEF IInv, ChildServesConfigured, RunEnds,
     Replied, Unsuccessful, NoReply, kill
<1>4. ASSUME NEW c \in Callers, StopEnds(c)
      PROVE  ChildServesConfigured'
  BY <1>4, GroupsUnchanged DEF IInv, ChildServesConfigured, StopEnds,
     Replied, invalidate, kill
<1>5. ASSUME NEW c \in Callers, SetConfigStopped(c)
      PROVE  ChildServesConfigured'
  BY <1>5, GroupsUnchanged DEF IInv, ChildServesConfigured,
     SetConfigStopped, invalidate, kill
<1>6. ASSUME NEW c \in Callers, ReplaceKeyStopped(c)
      PROVE  ChildServesConfigured'
  BY <1>6, GroupsUnchanged DEF IInv, ChildServesConfigured,
     ReplaceKeyStopped, invalidate, kill
<1>7. ASSUME NEW c \in Callers, KeygenEnds(c)
      PROVE  ChildServesConfigured'
  BY <1>7, GroupsUnchanged DEF IInv, ChildServesConfigured, KeygenEnds,
     Replied, Unsuccessful, NoReply, kill
<1>8. ASSUME NEW c \in Callers, WritePub(c)
      PROVE  ChildServesConfigured'
  BY <1>8, GroupsUnchanged DEF IInv, ChildServesConfigured, WritePub,
     invalidate, kill
<1>9. ASSUME NEW c \in Callers, PairAnswered(c)
      PROVE  ChildServesConfigured'
  BY <1>9, GroupsUnchanged DEF IInv, ChildServesConfigured, PairAnswered,
     Replied, Unsuccessful, NoReply, kill
<1>10. ASSUME NEW c \in Callers, SavePaired(c)
      PROVE  ChildServesConfigured'
  BY <1>10, GroupsUnchanged DEF IInv, ChildServesConfigured, SavePaired,
     StartIsEligible, ReplacedIsUnpaired, DownIsIdle, GateHeld,
     RequestHasCaller, Gated, Position, Request, Replacing, Changing,
     TypeOK, CallerType, ServiceType, DiskType, Config, ChildType
<1>11. ASSUME NEW c \in Callers, StartChecks(c)
      PROVE  ChildServesConfigured'
  BY <1>11, GroupsUnchanged, CoreConstants DEF IInv,
     ChildServesConfigured, StartChecks, IsPresenceActive, IsAlive,
     StartReturns, Return, GoTo, Eligible, invalidate, kill,
     StartIsEligible, ReplacedIsUnpaired, DownIsIdle, GateHeld,
     RequestHasCaller, Gated, Position, Request, Replacing, Changing,
     TypeOK, CallerType, ServiceType, DiskType, Config, ChildType
<1>12. ASSUME NEW c \in Callers, StartEnds(c)
      PROVE  ChildServesConfigured'
  BY <1>12, GroupsUnchanged, CoreConstants DEF IInv,
     ChildServesConfigured, StartEnds, Replied, StartReturns, Return,
     GoTo, Unsuccessful, NoReply, kill, transport_failed, StartIsEligible,
     ReplacedIsUnpaired, DownIsIdle, GateHeld, RequestHasCaller, Gated,
     Position, Request, Replacing, Changing, TypeOK, CallerType,
     ServiceType, DiskType, Config, ChildType
<1>13. ASSUME NEW c \in Callers, PollRestarts(c)
      PROVE  ChildServesConfigured'
  BY <1>13, GroupsUnchanged DEF IInv, ChildServesConfigured, PollRestarts,
     invalidate, kill
<1>14. ASSUME NEW c \in Callers, Dropped(c)
      PROVE  ChildServesConfigured'
  BY <1>14, GroupsUnchanged DEF IInv, ChildServesConfigured, Dropped,
     Forgets
<1>15. ASSUME NEW c \in Callers, Stop(c) \/ PairStopped(c)
      PROVE  ChildServesConfigured'
  BY <1>15, GroupsUnchanged DEF IInv, ChildServesConfigured, Stop,
     PairStopped
<1>16. CASE ChildServes
  <2>1. childVin' = childVin /\ cfg' = cfg /\ (priv => priv')
    BY <1>16, GroupsUnchanged DEF ChildServes, ServesPresence, ServesKeygen,
       ServesPair, ServesCommand
  <2>2. childVin # None /\ gate \in Callers
    BY <1>16 DEF ChildServes, IInv, RequestHasCaller
  <2>3. CASE mode' \in {mode, "off"}
    BY <2>1, <2>2, <2>3 DEF IInv, ChildServesConfigured
  <2>4. CASE pc[gate] = "presence-start"
    <3>1. cfg.paired /\ priv
      BY <2>2, <2>4 DEF IInv, StartIsEligible, Eligible
    <3> QED
      BY <2>1, <2>2, <3>1 DEF IInv, ChildServesConfigured
  <2>5. pc[gate] # "presence-start" => mode' \in {mode, "off"}
    BY <1>16 DEF ChildServes, ServesPresence, ServesKeygen, ServesPair,
       ServesCommand
  <2> QED
    BY <2>3, <2>4, <2>5
<1>17. CASE ChildDies
  BY <1>17, GroupsUnchanged DEF IInv, ChildServesConfigured, ChildDies
<1>18. CASE LoopOpensBus
  BY <1>18, GroupsUnchanged DEF IInv, ChildServesConfigured, LoopOpensBus
<1>19. CASE LoopGivesUp
  BY <1>19, GroupsUnchanged DEF IInv, ChildServesConfigured, LoopGivesUp
<1>20. CASE LinkUp
  BY <1>20, GroupsUnchanged DEF IInv, ChildServesConfigured, LinkUp
<1>21. CASE LinkLost
  BY <1>21, GroupsUnchanged DEF IInv, ChildServesConfigured, LinkLost
<1>22. CASE ReaderHangsUp \/ ReaderReports
  BY <1>22, GroupsUnchanged DEF IInv, ChildServesConfigured,
     ReaderHangsUp, ReaderReports
<1>23. CASE SendToChild
  BY <1>23, GroupsUnchanged DEF IInv, ChildServesConfigured, SendToChild,
     kill
<1>24. CASE SendSpawns
  BY <1>24, GroupsUnchanged DEF IInv, ChildServesConfigured, SendSpawns
<1>25. CASE Boot
  BY <1>25, GroupsUnchanged DEF IInv, ChildServesConfigured, Boot,
     StartIsEligible, ReplacedIsUnpaired, DownIsIdle, GateHeld,
     RequestHasCaller, Gated, Position, Request, Replacing, Changing
<1>26. CASE Crash
  BY <1>26, GroupsUnchanged DEF IInv, ChildServesConfigured, Crash,
     Forgets
<1>27. CASE RetryComesDue
  BY <1>27, GroupsUnchanged DEF IInv, ChildServesConfigured, RetryComesDue
<1>28. ASSUME NEW c \in Callers, Returns(c)
      PROVE  ChildServesConfigured'
  BY <1>28, GroupsUnchanged DEF IInv, ChildServesConfigured, Returns
<1>29. CASE LoopReports
  BY <1>29, GroupsUnchanged DEF IInv, ChildServesConfigured, LoopReports
<1> QED
  BY <1>1, <1>2, <1>3, <1>4, <1>5, <1>6, <1>7, <1>8, <1>9, <1>10, <1>11,
     <1>12, <1>13, <1>14, <1>15, <1>16, <1>17, <1>18, <1>19, <1>20, <1>21,
     <1>22, <1>23, <1>24, <1>25, <1>26, <1>27, <1>28, <1>29 DEF Next, Begins,
     GoesOn, Client, ChildSteps

\* IInv is inductive: a request to start presence is only made for a
\* paired key.
LEMMA StartIsEligibleKept ==
    ASSUME IInv, Next
    PROVE  StartIsEligible'
<1>1. ASSUME NEW c \in Callers, NEW o \in {"run", "share"}, RunBegins(c, o)
      PROVE  StartIsEligible'
  BY <1>1, GroupsUnchanged DEF IInv, StartIsEligible, Eligible, RunBegins,
     Enter, GoTo, Refuse, GateHeld, DownIsIdle, Gated, Position, Request,
     TypeOK, CallerType, ServiceType, DiskType, Config
<1>2. ASSUME NEW c \in Callers, GenerateKeyBegins(c)
      PROVE  StartIsEligible'
  BY <1>2, GroupsUnchanged DEF IInv, StartIsEligible, Eligible,
     GenerateKeyBegins, Refuse, GoTo, Enter, GateHeld, DownIsIdle, Gated,
     Position, Request, TypeOK, CallerType, ServiceType, DiskType, Config
<1>3. ASSUME NEW c \in Callers, ReplaceKeyBegins(c)
      PROVE  StartIsEligible'
  BY <1>3 DEF IInv, StartIsEligible, Eligible, ReplaceKeyBegins, Enter,
     GoTo, Refuse, GateHeld, DownIsIdle, Gated, Position, Request, TypeOK,
     CallerType, ServiceType, DiskType, Config
<1>4. ASSUME NEW c \in Callers, SetConfigBegins(c)
      PROVE  StartIsEligible'
  BY <1>4 DEF IInv, StartIsEligible, Eligible, SetConfigBegins, Enter,
     GoTo, Refuse, GateHeld, DownIsIdle, Gated, Position, Request, TypeOK,
     CallerType, ServiceType, DiskType, Config
<1>5. ASSUME NEW c \in Callers, PairBegins(c)
      PROVE  StartIsEligible'
  BY <1>5, GroupsUnchanged DEF IInv, StartIsEligible, Eligible,
     PairBegins, Refuse, GoTo, Enter, GateHeld, DownIsIdle, Gated,
     Position, Request, TypeOK, CallerType, ServiceType, DiskType, Config
<1>6. ASSUME NEW c \in Callers, DropBegins(c)
      PROVE  StartIsEligible'
  BY <1>6, GroupsUnchanged DEF IInv, StartIsEligible, Eligible,
     DropBegins, Enter, GoTo
<1>7. ASSUME NEW c \in Callers, ResumeBegins(c)
      PROVE  StartIsEligible'
  BY <1>7, GroupsUnchanged DEF IInv, StartIsEligible, Eligible,
     ResumeBegins, GoTo
<1>8. ASSUME NEW c \in Callers, StartBegins(c)
      PROVE  StartIsEligible'
  BY <1>8, GroupsUnchanged DEF IInv, StartIsEligible, Eligible,
     StartBegins, GoTo
<1>9. ASSUME NEW c \in Callers, PollBegins(c)
      PROVE  StartIsEligible'
  BY <1>9, GroupsUnchanged DEF IInv, StartIsEligible, Eligible,
     PollBegins, GoTo, GateHeld, DownIsIdle, Gated, Position, Request,
     TypeOK, CallerType, ServiceType, DiskType, Config
<1>10. ASSUME NEW c \in Callers, RunEnds(c)
      PROVE  StartIsEligible'
  BY <1>10, GroupsUnchanged DEF IInv, StartIsEligible, Eligible, RunEnds,
     Return, GoTo, GateHeld, DownIsIdle, Gated, Position, Request, TypeOK,
     CallerType, ServiceType, DiskType, Config
<1>11. ASSUME NEW c \in Callers, Stop(c)
      PROVE  StartIsEligible'
  BY <1>11, GroupsUnchanged DEF IInv, StartIsEligible, Eligible, Stop,
     GoTo, GateHeld, DownIsIdle, Gated, Position, Request, TypeOK,
     CallerType, ServiceType, DiskType, Config
<1>12. ASSUME NEW c \in Callers, StopEnds(c)
      PROVE  StartIsEligible'
  BY <1>12, GroupsUnchanged DEF IInv, StartIsEligible, Eligible, StopEnds,
     GoTo
<1>13. ASSUME NEW c \in Callers, SetConfigStopped(c)
      PROVE  StartIsEligible'
  BY <1>13, GroupsUnchanged DEF IInv, StartIsEligible, Eligible,
     SetConfigStopped, GoTo, Return, GateHeld, DownIsIdle, Gated,
     Position, Request, TypeOK, CallerType, ServiceType, DiskType, Config
<1>14. ASSUME NEW c \in Callers, ReplaceKeyStopped(c)
      PROVE  StartIsEligible'
  BY <1>14, GroupsUnchanged DEF IInv, StartIsEligible, Eligible,
     ReplaceKeyStopped, GoTo, GateHeld, DownIsIdle, Gated, Position,
     Request
<1>15. ASSUME NEW c \in Callers, PairStopped(c)
      PROVE  StartIsEligible'
  BY <1>15, GroupsUnchanged DEF IInv, StartIsEligible, Eligible,
     PairStopped, GoTo, Return, GateHeld, DownIsIdle, Gated, Position,
     Request, TypeOK, CallerType, ServiceType, DiskType, Config
<1>16. ASSUME NEW c \in Callers, KeygenEnds(c)
      PROVE  StartIsEligible'
  BY <1>16, GroupsUnchanged DEF IInv, StartIsEligible, Eligible,
     KeygenEnds, GoTo, Return, GateHeld, DownIsIdle, Gated, Position,
     Request, TypeOK, CallerType, ServiceType, DiskType, Config
<1>17. ASSUME NEW c \in Callers, WritePub(c)
      PROVE  StartIsEligible'
  BY <1>17 DEF IInv, StartIsEligible, Eligible, WritePub, Return, GoTo,
     GateHeld, DownIsIdle, Gated, Position, Request, TypeOK, CallerType,
     ServiceType, DiskType, Config
<1>18. ASSUME NEW c \in Callers, PairAnswered(c)
      PROVE  StartIsEligible'
  BY <1>18, GroupsUnchanged DEF IInv, StartIsEligible, Eligible,
     PairAnswered, GoTo, Return, GateHeld, DownIsIdle, Gated, Position,
     Request, TypeOK, CallerType, ServiceType, DiskType, Config
<1>19. ASSUME NEW c \in Callers, SavePaired(c)
      PROVE  StartIsEligible'
  BY <1>19 DEF IInv, StartIsEligible, Eligible, SavePaired, GoTo, Return,
     GateHeld, DownIsIdle, Gated, Position, Request, TypeOK, CallerType,
     ServiceType, DiskType, Config
<1>20. ASSUME NEW c \in Callers, StartChecks(c)
      PROVE  StartIsEligible'
  BY <1>20, GroupsUnchanged DEF IInv, StartIsEligible, Eligible,
     StartChecks, StartReturns, Return, GoTo, GateHeld, DownIsIdle, Gated,
     Position, Request, TypeOK, CallerType, ServiceType, DiskType, Config
<1>21. ASSUME NEW c \in Callers, StartEnds(c)
      PROVE  StartIsEligible'
  BY <1>21, GroupsUnchanged DEF IInv, StartIsEligible, Eligible,
     StartEnds, StartReturns, Return, GoTo
<1>22. ASSUME NEW c \in Callers, PollRestarts(c)
      PROVE  StartIsEligible'
  BY <1>22, GroupsUnchanged DEF IInv, StartIsEligible, Eligible,
     PollRestarts, GoTo, Return, GateHeld, DownIsIdle, Gated, Position,
     Request, TypeOK, CallerType, ServiceType, DiskType, Config
<1>23. ASSUME NEW c \in Callers, Dropped(c)
      PROVE  StartIsEligible'
  BY <1>23, GroupsUnchanged DEF IInv, StartIsEligible, Eligible, Dropped,
     Forgets
<1>24. CASE ChildServes
  BY <1>24, GroupsUnchanged DEF IInv, StartIsEligible, Eligible,
     ChildServes, ServesPresence, ServesKeygen, ServesPair, ServesCommand
<1>25. CASE ReaderHangsUp \/ ReaderReports \/ ChildDies \/ LoopOpensBus \/
           LoopGivesUp \/ LinkUp \/ LinkLost \/ LoopReports
  BY <1>25, GroupsUnchanged DEF IInv, StartIsEligible, Eligible,
     ReaderHangsUp, ReaderReports, ChildDies, LoopOpensBus, LoopGivesUp,
     LinkUp, LinkLost, LoopReports
<1>26. CASE Boot
  BY <1>26, GroupsUnchanged DEF IInv, StartIsEligible, Eligible, Boot,
     GateHeld, DownIsIdle, Gated, Position, Request
<1>27. CASE Crash
  BY <1>27, GroupsUnchanged DEF IInv, StartIsEligible, Eligible, Crash,
     Forgets
<1>28. CASE SendToChild \/ SendSpawns \/ RetryComesDue
  BY <1>28, GroupsUnchanged DEF IInv, StartIsEligible, Eligible,
     SendToChild, SendSpawns, RetryComesDue
<1>29. ASSUME NEW c \in Callers, Returns(c)
      PROVE  StartIsEligible'
  BY <1>29, GroupsUnchanged DEF IInv, StartIsEligible, Eligible, Returns,
     GoTo
<1> QED
  BY <1>1, <1>2, <1>3, <1>4, <1>5, <1>6, <1>7, <1>8, <1>9, <1>10, <1>11,
     <1>12, <1>13, <1>14, <1>15, <1>16, <1>17, <1>18, <1>19, <1>20, <1>21,
     <1>22, <1>23, <1>24, <1>25, <1>26, <1>27, <1>28, <1>29 DEF Next,
     Begins, GoesOn, Client, ChildSteps

\* IInv is inductive: from the first step of a key replacement the file
\* says unpaired, and when the new key is made memory does too.
LEMMA ReplacedIsUnpairedKept ==
    ASSUME IInv, Next
    PROVE  ReplacedIsUnpaired'
<1>1. ASSUME NEW c \in Callers, NEW o \in {"run", "share"}, RunBegins(c, o)
      PROVE  ReplacedIsUnpaired'
  BY <1>1, GroupsUnchanged DEF IInv, ReplacedIsUnpaired, Replacing,
     Changing, RunBegins, Enter, GoTo, Refuse, GateHeld, DownIsIdle,
     Gated, Position, Request, TypeOK, CallerType, ServiceType, DiskType,
     Config
<1>2. ASSUME NEW c \in Callers, GenerateKeyBegins(c)
      PROVE  ReplacedIsUnpaired'
  BY <1>2, GroupsUnchanged DEF IInv, ReplacedIsUnpaired, Replacing,
     Changing, GenerateKeyBegins, Refuse, GoTo, Enter, GateHeld,
     DownIsIdle, Gated, Position, Request, TypeOK, CallerType,
     ServiceType, DiskType, Config
<1>3. ASSUME NEW c \in Callers, ReplaceKeyBegins(c)
      PROVE  ReplacedIsUnpaired'
  BY <1>3 DEF IInv, ReplacedIsUnpaired, Replacing, Changing,
     ReplaceKeyBegins, SaveOk, Enter, GoTo, SaveFails, Refuse, GateHeld,
     DownIsIdle, Gated, Position, Request, TypeOK, CallerType,
     ServiceType, DiskType, Config
<1>4. ASSUME NEW c \in Callers, SetConfigBegins(c)
      PROVE  ReplacedIsUnpaired'
  BY <1>4, GroupsUnchanged, CoreConstants DEF IInv, ReplacedIsUnpaired,
     Replacing, Changing, SetConfigBegins, Idle, SaveOk, Enter, GoTo,
     SaveFails, Refuse, GateHeld, DownIsIdle, Gated, Position, Request,
     TypeOK, CallerType, ServiceType, DiskType, Config
<1>5. ASSUME NEW c \in Callers, PairBegins(c)
      PROVE  ReplacedIsUnpaired'
  BY <1>5, GroupsUnchanged DEF IInv, ReplacedIsUnpaired, Replacing,
     Changing, PairBegins, Refuse, GoTo, Enter, GateHeld, DownIsIdle,
     Gated, Position, Request, TypeOK, CallerType, ServiceType, DiskType,
     Config
<1>6. ASSUME NEW c \in Callers, DropBegins(c)
      PROVE  ReplacedIsUnpaired'
  BY <1>6, GroupsUnchanged DEF IInv, ReplacedIsUnpaired, Replacing,
     Changing, DropBegins, Enter, GoTo, GateHeld, DownIsIdle, Gated,
     Position, Request, TypeOK, CallerType, ServiceType, DiskType, Config
<1>7. ASSUME NEW c \in Callers, ResumeBegins(c)
      PROVE  ReplacedIsUnpaired'
  BY <1>7, GroupsUnchanged DEF IInv, ReplacedIsUnpaired, Replacing,
     Changing, ResumeBegins, GoTo
<1>8. ASSUME NEW c \in Callers, StartBegins(c)
      PROVE  ReplacedIsUnpaired'
  BY <1>8, GroupsUnchanged DEF IInv, ReplacedIsUnpaired, Replacing,
     Changing, StartBegins, GoTo
<1>9. ASSUME NEW c \in Callers, PollBegins(c)
      PROVE  ReplacedIsUnpaired'
  BY <1>9, GroupsUnchanged DEF IInv, ReplacedIsUnpaired, Replacing,
     Changing, PollBegins, GoTo, GateHeld, DownIsIdle, Gated, Position,
     Request, TypeOK, CallerType, ServiceType, DiskType, Config
<1>10. ASSUME NEW c \in Callers, RunEnds(c)
      PROVE  ReplacedIsUnpaired'
  BY <1>10, GroupsUnchanged DEF IInv, ReplacedIsUnpaired, Replacing,
     Changing, RunEnds, Return, GoTo, GateHeld, DownIsIdle, Gated,
     Position, Request, TypeOK, CallerType, ServiceType, DiskType, Config
<1>11. ASSUME NEW c \in Callers, Stop(c)
      PROVE  ReplacedIsUnpaired'
  BY <1>11, GroupsUnchanged DEF IInv, ReplacedIsUnpaired, Replacing,
     Changing, Stop, GoTo, GateHeld, DownIsIdle, Gated, Position, Request,
     TypeOK, CallerType, ServiceType, DiskType, Config
<1>12. ASSUME NEW c \in Callers, StopEnds(c)
      PROVE  ReplacedIsUnpaired'
  BY <1>12, GroupsUnchanged DEF IInv, ReplacedIsUnpaired, Replacing,
     Changing, StopEnds, GoTo
<1>13. ASSUME NEW c \in Callers, SetConfigStopped(c)
      PROVE  ReplacedIsUnpaired'
  BY <1>13, GroupsUnchanged DEF IInv, ReplacedIsUnpaired, Replacing,
     Changing, SetConfigStopped, GoTo, Return, GateHeld, DownIsIdle,
     Gated, Position, Request, TypeOK, CallerType, ServiceType, DiskType,
     Config
<1>14. ASSUME NEW c \in Callers, ReplaceKeyStopped(c)
      PROVE  ReplacedIsUnpaired'
  BY <1>14, GroupsUnchanged DEF IInv, ReplacedIsUnpaired, Replacing,
     Changing, ReplaceKeyStopped, GoTo
<1>15. ASSUME NEW c \in Callers, PairStopped(c)
      PROVE  ReplacedIsUnpaired'
  BY <1>15, GroupsUnchanged DEF IInv, ReplacedIsUnpaired, Replacing,
     Changing, PairStopped, GoTo, Return, GateHeld, DownIsIdle, Gated,
     Position, Request, TypeOK, CallerType, ServiceType, DiskType, Config
<1>16. ASSUME NEW c \in Callers, KeygenEnds(c)
      PROVE  ReplacedIsUnpaired'
  BY <1>16, GroupsUnchanged DEF IInv, ReplacedIsUnpaired, Replacing,
     Changing, KeygenEnds, GoTo, Return, GateHeld, DownIsIdle, Gated,
     Position, Request, TypeOK, CallerType, ServiceType, DiskType, Config
<1>17. ASSUME NEW c \in Callers, WritePub(c)
      PROVE  ReplacedIsUnpaired'
  BY <1>17 DEF IInv, ReplacedIsUnpaired, Replacing, Changing, WritePub,
     Return, GoTo, GateHeld, DownIsIdle, Gated, Position, Request, TypeOK,
     CallerType, ServiceType, DiskType, Config
<1>18. ASSUME NEW c \in Callers, PairAnswered(c)
      PROVE  ReplacedIsUnpaired'
  BY <1>18, GroupsUnchanged DEF IInv, ReplacedIsUnpaired, Replacing,
     Changing, PairAnswered, GoTo, Return, GateHeld, DownIsIdle, Gated,
     Position, Request, TypeOK, CallerType, ServiceType, DiskType, Config
<1>19. ASSUME NEW c \in Callers, SavePaired(c)
      PROVE  ReplacedIsUnpaired'
  BY <1>19 DEF IInv, ReplacedIsUnpaired, Replacing, Changing, SavePaired,
     SaveOk, GoTo, SaveFails, Return, GateHeld, DownIsIdle, Gated,
     Position, Request, TypeOK, CallerType, ServiceType, DiskType, Config
<1>20. ASSUME NEW c \in Callers, StartChecks(c)
      PROVE  ReplacedIsUnpaired'
  BY <1>20, GroupsUnchanged DEF IInv, ReplacedIsUnpaired, Replacing,
     Changing, StartChecks, StartReturns, Return, GoTo, GateHeld,
     DownIsIdle, Gated, Position, Request, TypeOK, CallerType,
     ServiceType, DiskType, Config
<1>21. ASSUME NEW c \in Callers, StartEnds(c)
      PROVE  ReplacedIsUnpaired'
  BY <1>21, GroupsUnchanged DEF IInv, ReplacedIsUnpaired, Replacing,
     Changing, StartEnds, StartReturns, Return, GoTo, GateHeld,
     DownIsIdle, Gated, Position, Request, TypeOK, CallerType,
     ServiceType, DiskType, Config
<1>22. ASSUME NEW c \in Callers, PollRestarts(c)
      PROVE  ReplacedIsUnpaired'
  BY <1>22, GroupsUnchanged DEF IInv, ReplacedIsUnpaired, Replacing,
     Changing, PollRestarts, GoTo, Return, GateHeld, DownIsIdle, Gated,
     Position, Request, TypeOK, CallerType, ServiceType, DiskType, Config
<1>23. ASSUME NEW c \in Callers, Dropped(c)
      PROVE  ReplacedIsUnpaired'
  BY <1>23, GroupsUnchanged DEF IInv, ReplacedIsUnpaired, Replacing,
     Changing, Dropped, Forgets
<1>24. CASE ReaderHangsUp \/ ReaderReports \/ ChildServes \/ ChildDies \/
           LoopOpensBus \/ LoopGivesUp \/ LinkUp \/ LinkLost \/ LoopReports
  BY <1>24, GroupsUnchanged DEF IInv, ReplacedIsUnpaired, Replacing,
     Changing, ReaderHangsUp, ReaderReports, ChildServes, ChildDies,
     LoopOpensBus, LoopGivesUp, LinkUp, LinkLost, LoopReports
<1>25. CASE Boot
  BY <1>25, GroupsUnchanged DEF IInv, ReplacedIsUnpaired, Replacing,
     Changing, Boot, SaveOk, SaveFails, GateHeld, DownIsIdle, Gated,
     Position, Request
<1>26. CASE Crash
  BY <1>26, GroupsUnchanged DEF IInv, ReplacedIsUnpaired, Replacing,
     Changing, Crash, Forgets
<1>27. CASE SendToChild \/ SendSpawns \/ RetryComesDue
  BY <1>27, GroupsUnchanged DEF IInv, ReplacedIsUnpaired, Replacing,
     Changing, SendToChild, SendSpawns, RetryComesDue
<1>28. ASSUME NEW c \in Callers, Returns(c)
      PROVE  ReplacedIsUnpaired'
  BY <1>28, GroupsUnchanged DEF IInv, ReplacedIsUnpaired, Replacing,
     Changing, Returns, GoTo
<1> QED
  BY <1>1, <1>2, <1>3, <1>4, <1>5, <1>6, <1>7, <1>8, <1>9, <1>10, <1>11,
     <1>12, <1>13, <1>14, <1>15, <1>16, <1>17, <1>18, <1>19, <1>20, <1>21,
     <1>22, <1>23, <1>24, <1>25, <1>26, <1>27, <1>28 DEF Next, Begins,
     GoesOn, Client, ChildSteps

\* IInv is inductive: when pair has its confirmation the configured
\* vehicle knows the key.
LEMMA ConfirmedIsEnrolledKept ==
    ASSUME IInv, Next
    PROVE  ConfirmedIsEnrolled'
<1>1. ASSUME NEW c \in Callers, NEW o \in {"run", "share"}, RunBegins(c, o)
      PROVE  ConfirmedIsEnrolled'
  BY <1>1, GroupsUnchanged DEF IInv, ConfirmedIsEnrolled, RunBegins,
     Enter, GoTo, Refuse, GateHeld, DownIsIdle, ChildServesConfigured,
     RequestHasCaller, Gated, Position, Request, TypeOK, CallerType,
     ServiceType, DiskType, Config, ChildType
<1>2. ASSUME NEW c \in Callers, GenerateKeyBegins(c)
      PROVE  ConfirmedIsEnrolled'
  BY <1>2, GroupsUnchanged DEF IInv, ConfirmedIsEnrolled,
     GenerateKeyBegins, Refuse, GoTo, Enter, GateHeld, DownIsIdle,
     ChildServesConfigured, RequestHasCaller, Gated, Position, Request,
     TypeOK, CallerType, ServiceType, DiskType, Config, ChildType
<1>3. ASSUME NEW c \in Callers, ReplaceKeyBegins(c)
      PROVE  ConfirmedIsEnrolled'
  BY <1>3 DEF IInv, ConfirmedIsEnrolled, ReplaceKeyBegins, Enter, GoTo,
     Refuse, GateHeld, DownIsIdle, ChildServesConfigured,
     RequestHasCaller, Gated, Position, Request, TypeOK, CallerType,
     ServiceType, DiskType, Config, ChildType
<1>4. ASSUME NEW c \in Callers, SetConfigBegins(c)
      PROVE  ConfirmedIsEnrolled'
  BY <1>4 DEF IInv, ConfirmedIsEnrolled, SetConfigBegins, Enter, GoTo,
     Refuse, GateHeld, DownIsIdle, ChildServesConfigured,
     RequestHasCaller, Gated, Position, Request, TypeOK, CallerType,
     ServiceType, DiskType, Config, ChildType
<1>5. ASSUME NEW c \in Callers, PairBegins(c)
      PROVE  ConfirmedIsEnrolled'
  BY <1>5, GroupsUnchanged DEF IInv, ConfirmedIsEnrolled, PairBegins,
     Refuse, GoTo, Enter, GateHeld, DownIsIdle, ChildServesConfigured,
     RequestHasCaller, Gated, Position, Request, TypeOK, CallerType,
     ServiceType, DiskType, Config, ChildType
<1>6. ASSUME NEW c \in Callers, DropBegins(c)
      PROVE  ConfirmedIsEnrolled'
  BY <1>6, GroupsUnchanged DEF IInv, ConfirmedIsEnrolled, DropBegins,
     Enter, GoTo
<1>7. ASSUME NEW c \in Callers, ResumeBegins(c)
      PROVE  ConfirmedIsEnrolled'
  BY <1>7, GroupsUnchanged DEF IInv, ConfirmedIsEnrolled, ResumeBegins,
     GoTo
<1>8. ASSUME NEW c \in Callers, StartBegins(c)
      PROVE  ConfirmedIsEnrolled'
  BY <1>8, GroupsUnchanged DEF IInv, ConfirmedIsEnrolled, StartBegins,
     GoTo
<1>9. ASSUME NEW c \in Callers, PollBegins(c)
      PROVE  ConfirmedIsEnrolled'
  BY <1>9, GroupsUnchanged DEF IInv, ConfirmedIsEnrolled, PollBegins,
     GoTo, GateHeld, DownIsIdle, ChildServesConfigured, RequestHasCaller,
     Gated, Position, Request, TypeOK, CallerType, ServiceType, DiskType,
     Config, ChildType
<1>10. ASSUME NEW c \in Callers, RunEnds(c)
      PROVE  ConfirmedIsEnrolled'
  BY <1>10, GroupsUnchanged DEF IInv, ConfirmedIsEnrolled, RunEnds,
     Replied, Return, GoTo, Unsuccessful, NoReply, GateHeld, DownIsIdle,
     ChildServesConfigured, RequestHasCaller, Gated, Position, Request,
     TypeOK, CallerType, ServiceType, DiskType, Config, ChildType
<1>11. ASSUME NEW c \in Callers, Stop(c)
      PROVE  ConfirmedIsEnrolled'
  BY <1>11, GroupsUnchanged DEF IInv, ConfirmedIsEnrolled, Stop, GoTo,
     GateHeld, DownIsIdle, ChildServesConfigured, RequestHasCaller, Gated,
     Position, Request, TypeOK, CallerType, ServiceType, DiskType, Config,
     ChildType
<1>12. ASSUME NEW c \in Callers, StopEnds(c)
      PROVE  ConfirmedIsEnrolled'
  BY <1>12, GroupsUnchanged DEF IInv, ConfirmedIsEnrolled, StopEnds,
     Replied, GoTo
<1>13. ASSUME NEW c \in Callers, SetConfigStopped(c)
      PROVE  ConfirmedIsEnrolled'
  BY <1>13, GroupsUnchanged DEF IInv, ConfirmedIsEnrolled,
     SetConfigStopped, GoTo, Return, GateHeld, DownIsIdle,
     ChildServesConfigured, RequestHasCaller, Gated, Position, Request,
     TypeOK, CallerType, ServiceType, DiskType, Config, ChildType
<1>14. ASSUME NEW c \in Callers, ReplaceKeyStopped(c)
      PROVE  ConfirmedIsEnrolled'
  BY <1>14, GroupsUnchanged DEF IInv, ConfirmedIsEnrolled,
     ReplaceKeyStopped, GoTo, GateHeld, DownIsIdle, ChildServesConfigured,
     RequestHasCaller, Gated, Position, Request
<1>15. ASSUME NEW c \in Callers, PairStopped(c)
      PROVE  ConfirmedIsEnrolled'
  BY <1>15, GroupsUnchanged DEF IInv, ConfirmedIsEnrolled, PairStopped,
     GoTo, Return, GateHeld, DownIsIdle, ChildServesConfigured,
     RequestHasCaller, Gated, Position, Request, TypeOK, CallerType,
     ServiceType, DiskType, Config, ChildType
<1>16. ASSUME NEW c \in Callers, KeygenEnds(c)
      PROVE  ConfirmedIsEnrolled'
  BY <1>16, GroupsUnchanged DEF IInv, ConfirmedIsEnrolled, KeygenEnds,
     Replied, GoTo, Unsuccessful, NoReply, Return, GateHeld, DownIsIdle,
     ChildServesConfigured, RequestHasCaller, Gated, Position, Request,
     TypeOK, CallerType, ServiceType, DiskType, Config, ChildType
<1>17. ASSUME NEW c \in Callers, WritePub(c)
      PROVE  ConfirmedIsEnrolled'
  BY <1>17 DEF IInv, ConfirmedIsEnrolled, WritePub, Return, GoTo,
     GateHeld, DownIsIdle, ChildServesConfigured, RequestHasCaller, Gated,
     Position, Request, TypeOK, CallerType, ServiceType, DiskType, Config,
     ChildType
<1>18. ASSUME NEW c \in Callers, PairAnswered(c)
      PROVE  ConfirmedIsEnrolled'
  BY <1>18, GroupsUnchanged DEF IInv, ConfirmedIsEnrolled, PairAnswered,
     Replied, GoTo, Unsuccessful, NoReply, Return, GateHeld, DownIsIdle,
     ChildServesConfigured, RequestHasCaller, Gated, Position, Request,
     TypeOK, CallerType, ServiceType, DiskType, Config, ChildType
<1>19. ASSUME NEW c \in Callers, SavePaired(c)
      PROVE  ConfirmedIsEnrolled'
  BY <1>19 DEF IInv, ConfirmedIsEnrolled, SavePaired, GoTo, Return,
     GateHeld, DownIsIdle, ChildServesConfigured, RequestHasCaller, Gated,
     Position, Request, TypeOK, CallerType, ServiceType, DiskType, Config,
     ChildType
<1>20. ASSUME NEW c \in Callers, StartChecks(c)
      PROVE  ConfirmedIsEnrolled'
  BY <1>20, GroupsUnchanged DEF IInv, ConfirmedIsEnrolled, StartChecks,
     StartReturns, Return, GoTo, GateHeld, DownIsIdle,
     ChildServesConfigured, RequestHasCaller, Gated, Position, Request,
     TypeOK, CallerType, ServiceType, DiskType, Config, ChildType
<1>21. ASSUME NEW c \in Callers, StartEnds(c)
      PROVE  ConfirmedIsEnrolled'
  BY <1>21, GroupsUnchanged DEF IInv, ConfirmedIsEnrolled, StartEnds,
     Replied, StartReturns, Return, GoTo, Unsuccessful, NoReply, GateHeld,
     DownIsIdle, ChildServesConfigured, RequestHasCaller, Gated, Position,
     Request, TypeOK, CallerType, ServiceType, DiskType, Config, ChildType
<1>22. ASSUME NEW c \in Callers, PollRestarts(c)
      PROVE  ConfirmedIsEnrolled'
  BY <1>22, GroupsUnchanged DEF IInv, ConfirmedIsEnrolled, PollRestarts,
     GoTo, Return, GateHeld, DownIsIdle, ChildServesConfigured,
     RequestHasCaller, Gated, Position, Request, TypeOK, CallerType,
     ServiceType, DiskType, Config, ChildType
<1>23. ASSUME NEW c \in Callers, Dropped(c)
      PROVE  ConfirmedIsEnrolled'
  BY <1>23, GroupsUnchanged DEF IInv, ConfirmedIsEnrolled, Dropped,
     Forgets
<1>24. CASE ChildServes
  BY <1>24, GroupsUnchanged DEF IInv, ConfirmedIsEnrolled, ChildServes,
     ServesPresence, Replies, ServesKeygen, ServesPair, ServesCommand,
     GateHeld, DownIsIdle, ChildServesConfigured, RequestHasCaller, Gated,
     Position, Request
<1>25. CASE ReaderHangsUp \/ ReaderReports \/ ChildDies \/ LoopOpensBus \/
           LoopGivesUp \/ LinkUp \/ LinkLost \/ LoopReports
  BY <1>25, GroupsUnchanged DEF IInv, ConfirmedIsEnrolled, ReaderHangsUp,
     ReaderReports, ChildDies, LoopOpensBus, LoopGivesUp, LinkUp, LinkLost,
     LoopReports
<1>26. CASE SendToChild
  BY <1>26, GroupsUnchanged DEF IInv, ConfirmedIsEnrolled, SendToChild
<1>27. CASE SendSpawns
  BY <1>27, GroupsUnchanged DEF IInv, ConfirmedIsEnrolled, SendSpawns
<1>28. CASE Boot
  BY <1>28, GroupsUnchanged DEF IInv, ConfirmedIsEnrolled, Boot, GateHeld,
     DownIsIdle, ChildServesConfigured, RequestHasCaller, Gated, Position,
     Request
<1>29. CASE Crash
  BY <1>29, GroupsUnchanged DEF IInv, ConfirmedIsEnrolled, Crash, Forgets
<1>30. CASE RetryComesDue
  BY <1>30, GroupsUnchanged DEF IInv, ConfirmedIsEnrolled, RetryComesDue
<1>31. ASSUME NEW c \in Callers, Returns(c)
      PROVE  ConfirmedIsEnrolled'
  BY <1>31, GroupsUnchanged DEF IInv, ConfirmedIsEnrolled, Returns, GoTo
<1> QED
  BY <1>1, <1>2, <1>3, <1>4, <1>5, <1>6, <1>7, <1>8, <1>9, <1>10, <1>11,
     <1>12, <1>13, <1>14, <1>15, <1>16, <1>17, <1>18, <1>19, <1>20, <1>21,
     <1>22, <1>23, <1>24, <1>25, <1>26, <1>27, <1>28, <1>29, <1>30, <1>31
     DEF Next, Begins, GoesOn, Client, ChildSteps

\* IInv is inductive: PairedKeyIsEnrolled, from the others.
LEMMA PairedKeyIsEnrolledKept ==
    ASSUME IInv, Next
    PROVE  PairedKeyIsEnrolled'
<1>1. ASSUME NEW c \in Callers, ReplaceKeyBegins(c)
      PROVE  PairedKeyIsEnrolled'
  BY <1>1 DEF IInv, PairedKeyIsEnrolled, Enrolled, ReplaceKeyBegins,
     SaveOk, SaveFails, GateHeld, DownIsIdle, ReplacedIsUnpaired,
     ConfirmedIsEnrolled, OldFileIsEnrolled, RequestHasCaller,
     ReusedKeyExists, migrate, Replacing, Changing, Gated, Position,
     Request, TypeOK, CallerType, ServiceType, DiskType, Config
<1>2. ASSUME NEW c \in Callers, SetConfigBegins(c)
      PROVE  PairedKeyIsEnrolled'
  BY <1>2, GroupsUnchanged, CoreConstants DEF IInv, PairedKeyIsEnrolled,
     Enrolled, SetConfigBegins, Idle, SaveOk, Enter, GoTo, SaveFails,
     Refuse, GateHeld, DownIsIdle, ReplacedIsUnpaired,
     ConfirmedIsEnrolled, OldFileIsEnrolled, RequestHasCaller,
     ReusedKeyExists, migrate, Replacing, Changing, Gated, Position,
     Request, TypeOK, CallerType, ServiceType, DiskType, Config
<1>3. ASSUME NEW c \in Callers,
             (\E o \in {"run", "share"} : RunBegins(c, o)) \/
             GenerateKeyBegins(c) \/ PairBegins(c) \/ DropBegins(c) \/
             ResumeBegins(c) \/ StartBegins(c) \/ PollBegins(c)
      PROVE  PairedKeyIsEnrolled'
  BY <1>3, GroupsUnchanged DEF IInv, PairedKeyIsEnrolled, Enrolled,
     RunBegins, GenerateKeyBegins, PairBegins, DropBegins, ResumeBegins,
     StartBegins, PollBegins
<1>4. ASSUME NEW c \in Callers, SetConfigStopped(c)
      PROVE  PairedKeyIsEnrolled'
  BY <1>4, GroupsUnchanged DEF IInv, PairedKeyIsEnrolled, Enrolled,
     SetConfigStopped
<1>5. ASSUME NEW c \in Callers, ReplaceKeyStopped(c)
      PROVE  PairedKeyIsEnrolled'
  BY <1>5, GroupsUnchanged DEF IInv, PairedKeyIsEnrolled, Enrolled,
     ReplaceKeyStopped
<1>6. ASSUME NEW c \in Callers, SavePaired(c)
      PROVE  PairedKeyIsEnrolled'
  BY <1>6 DEF IInv, PairedKeyIsEnrolled, Enrolled, SavePaired, SaveOk,
     SaveFails, GateHeld, DownIsIdle, ReplacedIsUnpaired,
     ConfirmedIsEnrolled, OldFileIsEnrolled, RequestHasCaller,
     ReusedKeyExists, migrate, Replacing, Changing, Gated, Position,
     Request, TypeOK, CallerType, ServiceType, DiskType, Config
<1>7. ASSUME NEW c \in Callers, Dropped(c)
      PROVE  PairedKeyIsEnrolled'
  BY <1>7, GroupsUnchanged DEF IInv, PairedKeyIsEnrolled, Enrolled,
     Dropped, Forgets
<1>8. ASSUME NEW c \in Callers,
             RunEnds(c) \/ Stop(c) \/ StopEnds(c) \/ PairStopped(c) \/
             KeygenEnds(c) \/ WritePub(c) \/ PairAnswered(c) \/ StartChecks(c)
             \/ StartEnds(c) \/ PollRestarts(c)
      PROVE  PairedKeyIsEnrolled'
  BY <1>8, GroupsUnchanged, CoreConstants DEF IInv, PairedKeyIsEnrolled,
     Enrolled, RunEnds, Stop, StopEnds, PairStopped, KeygenEnds, WritePub,
     PairAnswered, StartChecks, StartEnds, PollRestarts, Replied, Return,
     GoTo, Unsuccessful, NoReply, kill, transport_failed, invalidate,
     HasCommonArgs, IsPresenceActive, IsAlive, StartReturns, Eligible,
     GateHeld, DownIsIdle, ReplacedIsUnpaired, ConfirmedIsEnrolled,
     OldFileIsEnrolled, RequestHasCaller, ReusedKeyExists, migrate,
     Replacing, Changing, Gated, Position, Request, TypeOK, CallerType,
     ServiceType, DiskType, Config
<1>9. CASE ChildServes
  BY <1>9 DEF IInv, PairedKeyIsEnrolled, Enrolled, ChildServes,
     ServesPresence, ServesKeygen, ServesPair, ServesCommand, GateHeld,
     DownIsIdle, ReplacedIsUnpaired, ConfirmedIsEnrolled,
     OldFileIsEnrolled, RequestHasCaller, ReusedKeyExists, migrate,
     Replacing, Changing, Gated, Position, Request, TypeOK, CallerType,
     ServiceType, DiskType, Config
<1>10. CASE ReaderHangsUp \/ ReaderReports \/ ChildDies \/ LoopOpensBus \/
           LoopGivesUp \/ LinkUp \/ LinkLost \/ LoopReports
  BY <1>10, GroupsUnchanged DEF IInv, PairedKeyIsEnrolled, Enrolled,
     ReaderHangsUp, ReaderReports, ChildDies, LoopOpensBus, LoopGivesUp,
     LinkUp, LinkLost, LoopReports
<1>11. CASE Boot
  BY <1>11 DEF IInv, PairedKeyIsEnrolled, Enrolled, Boot, SaveOk,
     SaveFails, GateHeld, DownIsIdle, ReplacedIsUnpaired,
     ConfirmedIsEnrolled, OldFileIsEnrolled, RequestHasCaller,
     ReusedKeyExists, migrate, Replacing, Changing, Gated, Position,
     Request, TypeOK, CallerType, ServiceType, DiskType, Config
<1>12. CASE Crash
  BY <1>12, GroupsUnchanged DEF IInv, PairedKeyIsEnrolled, Enrolled,
     Crash, Forgets
<1>13. CASE SendToChild \/ SendSpawns \/ RetryComesDue
  BY <1>13, GroupsUnchanged DEF IInv, PairedKeyIsEnrolled, Enrolled,
     SendToChild, SendSpawns, RetryComesDue
<1>14. ASSUME NEW c \in Callers, Returns(c)
      PROVE  PairedKeyIsEnrolled'
  BY <1>14, GroupsUnchanged DEF IInv, PairedKeyIsEnrolled, Enrolled,
     Returns
<1> QED
  BY <1>1, <1>2, <1>3, <1>4, <1>5, <1>6, <1>7, <1>8, <1>9, <1>10, <1>11,
     <1>12, <1>13, <1>14 DEF Next, Begins, GoesOn, Client, ChildSteps

\* IInv is inductive: a request in flight is that of the operation that
\* holds the gate.
LEMMA RequestHasCallerKept ==
    ASSUME IInv, Next
    PROVE  RequestHasCaller'
<1>1. ASSUME NEW c \in Callers, NEW o \in {"run", "share"}, RunBegins(c, o)
      PROVE  RequestHasCaller'
  BY <1>1, GroupsUnchanged, CoreConstants DEF IInv, RequestHasCaller,
     Request, RunBegins, Idle, Enter, GoTo, Refuse, GateHeld, DownIsIdle,
     Gated, Position, TypeOK, CallerType, ChildType
<1>2. ASSUME NEW c \in Callers, GenerateKeyBegins(c)
      PROVE  RequestHasCaller'
  BY <1>2, GroupsUnchanged, CoreConstants DEF IInv, RequestHasCaller,
     Request, GenerateKeyBegins, Idle, Refuse, GoTo, Enter, GateHeld,
     DownIsIdle, Gated, Position, TypeOK, CallerType, ChildType
<1>3. ASSUME NEW c \in Callers, ReplaceKeyBegins(c)
      PROVE  RequestHasCaller'
  BY <1>3, GroupsUnchanged, CoreConstants DEF IInv, RequestHasCaller,
     Request, ReplaceKeyBegins, Idle, SaveOk, Enter, GoTo, SaveFails,
     Refuse, GateHeld, DownIsIdle, Gated, Position, TypeOK, CallerType,
     ChildType
<1>4. ASSUME NEW c \in Callers, SetConfigBegins(c)
      PROVE  RequestHasCaller'
  BY <1>4, GroupsUnchanged, CoreConstants DEF IInv, RequestHasCaller,
     Request, SetConfigBegins, Idle, SaveOk, Enter, GoTo, SaveFails,
     Refuse, GateHeld, DownIsIdle, Gated, Position, TypeOK, CallerType,
     ChildType
<1>5. ASSUME NEW c \in Callers, PairBegins(c)
      PROVE  RequestHasCaller'
  BY <1>5, GroupsUnchanged, CoreConstants DEF IInv, RequestHasCaller,
     Request, PairBegins, Idle, Refuse, GoTo, Enter, GateHeld, DownIsIdle,
     Gated, Position, TypeOK, CallerType, ChildType
<1>6. ASSUME NEW c \in Callers, DropBegins(c)
      PROVE  RequestHasCaller'
  BY <1>6 DEF IInv, RequestHasCaller, Request, DropBegins, Enter, GoTo,
     GateHeld, DownIsIdle, Gated, Position, TypeOK, CallerType, ChildType
<1>7. ASSUME NEW c \in Callers, ResumeBegins(c)
      PROVE  RequestHasCaller'
  BY <1>7, GroupsUnchanged, CoreConstants DEF IInv, RequestHasCaller,
     Request, ResumeBegins, Idle, invalidate, kill, GoTo, GateHeld,
     DownIsIdle, Gated, Position, TypeOK, CallerType, ChildType
<1>8. ASSUME NEW c \in Callers, StartBegins(c)
      PROVE  RequestHasCaller'
  BY <1>8, GroupsUnchanged, CoreConstants DEF IInv, RequestHasCaller,
     Request, StartBegins, Idle, GoTo, GateHeld, DownIsIdle, Gated,
     Position, TypeOK, CallerType, ChildType
<1>9. ASSUME NEW c \in Callers, PollBegins(c)
      PROVE  RequestHasCaller'
  BY <1>9, GroupsUnchanged, CoreConstants DEF IInv, RequestHasCaller,
     Request, PollBegins, Idle, GoTo, GateHeld, DownIsIdle, Gated,
     Position, TypeOK, CallerType, ChildType
<1>10. ASSUME NEW c \in Callers, RunEnds(c)
      PROVE  RequestHasCaller'
  BY <1>10 DEF IInv, RequestHasCaller, Request, RunEnds, Replied, Return,
     GoTo, Unsuccessful, NoReply, GateHeld, DownIsIdle, Gated, Position,
     TypeOK, CallerType, ChildType
<1>11. ASSUME NEW c \in Callers, Stop(c)
      PROVE  RequestHasCaller'
  BY <1>11 DEF IInv, RequestHasCaller, Request, Stop, GoTo, GateHeld,
     DownIsIdle, Gated, Position, TypeOK, CallerType, ChildType
<1>12. ASSUME NEW c \in Callers, StopEnds(c)
      PROVE  RequestHasCaller'
  BY <1>12 DEF IInv, RequestHasCaller, Request, StopEnds, Replied, GoTo,
     GateHeld, DownIsIdle, Gated, Position, TypeOK, CallerType, ChildType
<1>13. ASSUME NEW c \in Callers, SetConfigStopped(c)
      PROVE  RequestHasCaller'
  BY <1>13 DEF IInv, RequestHasCaller, Request, SetConfigStopped, GoTo,
     Return, GateHeld, DownIsIdle, Gated, Position, TypeOK, CallerType,
     ChildType
<1>14. ASSUME NEW c \in Callers, ReplaceKeyStopped(c)
      PROVE  RequestHasCaller'
  BY <1>14 DEF IInv, RequestHasCaller, Request, ReplaceKeyStopped, GoTo,
     GateHeld, DownIsIdle, Gated, Position, TypeOK, CallerType, ChildType
<1>15. ASSUME NEW c \in Callers, PairStopped(c)
      PROVE  RequestHasCaller'
  BY <1>15 DEF IInv, RequestHasCaller, Request, PairStopped, GoTo, Return,
     GateHeld, DownIsIdle, Gated, Position, TypeOK, CallerType, ChildType
<1>16. ASSUME NEW c \in Callers, KeygenEnds(c)
      PROVE  RequestHasCaller'
  BY <1>16 DEF IInv, RequestHasCaller, Request, KeygenEnds, Replied, GoTo,
     Unsuccessful, NoReply, Return, GateHeld, DownIsIdle, Gated, Position,
     TypeOK, CallerType, ChildType
<1>17. ASSUME NEW c \in Callers, WritePub(c)
      PROVE  RequestHasCaller'
  BY <1>17 DEF IInv, RequestHasCaller, Request, WritePub, Return, GoTo,
     GateHeld, DownIsIdle, Gated, Position, TypeOK, CallerType, ChildType
<1>18. ASSUME NEW c \in Callers, PairAnswered(c)
      PROVE  RequestHasCaller'
  BY <1>18 DEF IInv, RequestHasCaller, Request, PairAnswered, Replied,
     GoTo, Unsuccessful, NoReply, Return, GateHeld, DownIsIdle, Gated,
     Position, TypeOK, CallerType, ChildType
<1>19. ASSUME NEW c \in Callers, SavePaired(c)
      PROVE  RequestHasCaller'
  BY <1>19 DEF IInv, RequestHasCaller, Request, SavePaired, GoTo, Return,
     GateHeld, DownIsIdle, Gated, Position, TypeOK, CallerType, ChildType
<1>20. ASSUME NEW c \in Callers, StartChecks(c)
      PROVE  RequestHasCaller'
  BY <1>20 DEF IInv, RequestHasCaller, Request, StartChecks, StartReturns,
     Return, GoTo, GateHeld, DownIsIdle, Gated, Position, TypeOK,
     CallerType, ChildType
<1>21. ASSUME NEW c \in Callers, StartEnds(c)
      PROVE  RequestHasCaller'
  BY <1>21 DEF IInv, RequestHasCaller, Request, StartEnds, Replied,
     StartReturns, Return, GoTo, Unsuccessful, NoReply, GateHeld,
     DownIsIdle, Gated, Position, TypeOK, CallerType, ChildType
<1>22. ASSUME NEW c \in Callers, PollRestarts(c)
      PROVE  RequestHasCaller'
  BY <1>22 DEF IInv, RequestHasCaller, Request, PollRestarts, GoTo,
     Return, GateHeld, DownIsIdle, Gated, Position, TypeOK, CallerType,
     ChildType
<1>23. ASSUME NEW c \in Callers, Dropped(c)
      PROVE  RequestHasCaller'
  BY <1>23 DEF IInv, RequestHasCaller, Request, Dropped, Forgets,
     GateHeld, DownIsIdle, Gated, Position, TypeOK, CallerType, ChildType
<1>24. CASE ChildServes
  BY <1>24, GroupsUnchanged DEF IInv, RequestHasCaller, Request,
     ChildServes, ServesPresence, Replies, ServesKeygen, ServesPair,
     ServesCommand, GateHeld, DownIsIdle, Gated, Position, TypeOK,
     CallerType, ChildType
<1>25. CASE ReaderHangsUp \/ ReaderReports \/ ChildDies \/ LoopOpensBus \/
           LoopGivesUp \/ LinkUp \/ LinkLost \/ LoopReports
  BY <1>25, GroupsUnchanged DEF IInv, RequestHasCaller, Request,
     ReaderHangsUp, ReaderReports, ChildDies, LoopOpensBus, LoopGivesUp,
     LinkUp, LinkLost, LoopReports
<1>26. CASE SendToChild
  BY <1>26, GroupsUnchanged DEF IInv, RequestHasCaller, Request,
     SendToChild, GateHeld, DownIsIdle, Gated, Position, TypeOK,
     CallerType, ChildType
<1>27. CASE SendSpawns
  BY <1>27, GroupsUnchanged DEF IInv, RequestHasCaller, Request,
     SendSpawns, GateHeld, DownIsIdle, Gated, Position, TypeOK,
     CallerType, ChildType
<1>28. CASE Crash
  BY <1>28 DEF IInv, RequestHasCaller, Request, Crash, Forgets, GateHeld,
     DownIsIdle, Gated, Position, TypeOK, CallerType, ChildType
<1>29. CASE RetryComesDue \/ Boot
  BY <1>29, GroupsUnchanged DEF IInv, RequestHasCaller, Request,
     RetryComesDue, Boot
<1>30. ASSUME NEW c \in Callers, Returns(c)
      PROVE  RequestHasCaller'
  BY <1>30 DEF IInv, RequestHasCaller, Request, Returns, GoTo
<1> QED
  BY <1>1, <1>2, <1>3, <1>4, <1>5, <1>6, <1>7, <1>8, <1>9, <1>10, <1>11,
     <1>12, <1>13, <1>14, <1>15, <1>16, <1>17, <1>18, <1>19, <1>20, <1>21,
     <1>22, <1>23, <1>24, <1>25, <1>26, <1>27, <1>28, <1>29, <1>30 DEF
     Next, Begins, GoesOn, Client, ChildSteps

\* IInv is inductive: the configuration in memory has the current schema
\* or a newer one.
LEMMA MemoryIsMigratedKept ==
    ASSUME IInv, Next
    PROVE  MemoryIsMigrated'
<1>1. ASSUME NEW c \in Callers,
             (\E o \in {"run", "share"} : RunBegins(c, o)) \/
             GenerateKeyBegins(c) \/ ReplaceKeyBegins(c) \/ SetConfigBegins(c)
             \/ PairBegins(c) \/ DropBegins(c) \/ ResumeBegins(c) \/
             StartBegins(c) \/ PollBegins(c)
      PROVE  MemoryIsMigrated'
  BY <1>1 DEF IInv, MemoryIsMigrated, RunBegins, GenerateKeyBegins,
     ReplaceKeyBegins, SetConfigBegins, PairBegins, DropBegins,
     ResumeBegins, StartBegins, PollBegins
<1>2. ASSUME NEW c \in Callers, SetConfigStopped(c)
      PROVE  MemoryIsMigrated'
  BY <1>2, GroupsUnchanged, CoreConstants DEF IInv, MemoryIsMigrated,
     SetConfigStopped, invalidate, kill, GoTo, Return, DownIsIdle,
     FileIsSaved, Changing, TypeOK, CallerType, ServiceType, DiskType,
     Config
<1>3. ASSUME NEW c \in Callers, ReplaceKeyStopped(c)
      PROVE  MemoryIsMigrated'
  BY <1>3, GroupsUnchanged, CoreConstants DEF IInv, MemoryIsMigrated,
     ReplaceKeyStopped, invalidate, kill, GoTo, DownIsIdle, FileIsSaved,
     Changing, TypeOK, CallerType, ServiceType, DiskType, Config
<1>4. ASSUME NEW c \in Callers, SavePaired(c)
      PROVE  MemoryIsMigrated'
  BY <1>4 DEF IInv, MemoryIsMigrated, SavePaired, DownIsIdle, FileIsSaved,
     Changing, TypeOK, CallerType, ServiceType, DiskType, Config
<1>5. ASSUME NEW c \in Callers, Dropped(c)
      PROVE  MemoryIsMigrated'
  BY <1>5 DEF IInv, MemoryIsMigrated, Dropped, Forgets, DownIsIdle,
     FileIsSaved, Changing, TypeOK, CallerType, ServiceType, DiskType,
     Config
<1>6. ASSUME NEW c \in Callers,
             RunEnds(c) \/ Stop(c) \/ StopEnds(c) \/ PairStopped(c) \/
             KeygenEnds(c) \/ WritePub(c) \/ PairAnswered(c) \/ StartChecks(c)
             \/ StartEnds(c) \/ PollRestarts(c)
      PROVE  MemoryIsMigrated'
  BY <1>6 DEF IInv, MemoryIsMigrated, RunEnds, Stop, StopEnds,
     PairStopped, KeygenEnds, WritePub, PairAnswered, StartChecks,
     StartEnds, PollRestarts
<1>7. CASE ReaderHangsUp \/ ReaderReports \/ ChildServes \/ ChildDies \/
           LoopOpensBus \/ LoopGivesUp \/ LinkUp \/ LinkLost \/ LoopReports
  BY <1>7 DEF IInv, MemoryIsMigrated, ReaderHangsUp, ReaderReports,
     ChildServes, ChildDies, LoopOpensBus, LoopGivesUp, LinkUp, LinkLost,
     LoopReports
<1>8. CASE Boot
  BY <1>8, GroupsUnchanged, CoreConstants DEF IInv, MemoryIsMigrated,
     Boot, migrate, SaveOk, SaveFails, DownIsIdle, FileIsSaved, Changing,
     TypeOK, CallerType, ServiceType, DiskType, Config
<1>9. CASE Crash
  BY <1>9 DEF IInv, MemoryIsMigrated, Crash, Forgets, DownIsIdle,
     FileIsSaved, Changing, TypeOK, CallerType, ServiceType, DiskType,
     Config
<1>10. CASE SendToChild \/ SendSpawns \/ RetryComesDue
  BY <1>10 DEF IInv, MemoryIsMigrated, SendToChild, SendSpawns,
     RetryComesDue
<1>11. ASSUME NEW c \in Callers, Returns(c)
      PROVE  MemoryIsMigrated'
  BY <1>11 DEF IInv, MemoryIsMigrated, Returns
<1> QED
  BY <1>1, <1>2, <1>3, <1>4, <1>5, <1>6, <1>7, <1>8, <1>9, <1>10, <1>11
     DEF Next, Begins, GoesOn, Client, ChildSteps

\* IInv is inductive: an operation that changes the configuration begins
\* with saving it.
LEMMA FileIsSavedKept ==
    ASSUME IInv, Next
    PROVE  FileIsSaved'
<1>1. ASSUME NEW c \in Callers, NEW o \in {"run", "share"}, RunBegins(c, o)
      PROVE  FileIsSaved'
  BY <1>1, GroupsUnchanged DEF IInv, FileIsSaved, Changing, RunBegins,
     Enter, GoTo, Refuse, GateHeld, DownIsIdle, MemoryIsMigrated, Gated,
     Position, Request, TypeOK, CallerType, ServiceType, DiskType, Config
<1>2. ASSUME NEW c \in Callers, GenerateKeyBegins(c)
      PROVE  FileIsSaved'
  BY <1>2, GroupsUnchanged DEF IInv, FileIsSaved, Changing,
     GenerateKeyBegins, Refuse, GoTo, Enter, GateHeld, DownIsIdle,
     MemoryIsMigrated, Gated, Position, Request, TypeOK, CallerType,
     ServiceType, DiskType, Config
<1>3. ASSUME NEW c \in Callers, ReplaceKeyBegins(c)
      PROVE  FileIsSaved'
  BY <1>3, GroupsUnchanged, CoreConstants DEF IInv, FileIsSaved, Changing,
     ReplaceKeyBegins, Idle, SaveOk, Enter, GoTo, SaveFails, Refuse,
     GateHeld, DownIsIdle, MemoryIsMigrated, Gated, Position, Request,
     TypeOK, CallerType, ServiceType, DiskType, Config
<1>4. ASSUME NEW c \in Callers, SetConfigBegins(c)
      PROVE  FileIsSaved'
  BY <1>4, GroupsUnchanged, CoreConstants, ZenonT(60) DEF IInv, FileIsSaved,
     Changing,
     SetConfigBegins, Idle, SaveOk, Enter, GoTo, SaveFails, Refuse,
     GateHeld, DownIsIdle, MemoryIsMigrated, Gated, Position, Request,
     TypeOK, CallerType, ServiceType, DiskType, Config
<1>5. ASSUME NEW c \in Callers, PairBegins(c)
      PROVE  FileIsSaved'
  BY <1>5, GroupsUnchanged DEF IInv, FileIsSaved, Changing, PairBegins,
     Refuse, GoTo, Enter, GateHeld, DownIsIdle, MemoryIsMigrated, Gated,
     Position, Request, TypeOK, CallerType, ServiceType, DiskType, Config
<1>6. ASSUME NEW c \in Callers, DropBegins(c)
      PROVE  FileIsSaved'
  BY <1>6, GroupsUnchanged DEF IInv, FileIsSaved, Changing, DropBegins,
     Enter, GoTo, GateHeld, DownIsIdle, MemoryIsMigrated, Gated, Position,
     Request, TypeOK, CallerType, ServiceType, DiskType, Config
<1>7. ASSUME NEW c \in Callers, ResumeBegins(c)
      PROVE  FileIsSaved'
  BY <1>7, GroupsUnchanged DEF IInv, FileIsSaved, Changing, ResumeBegins,
     GoTo, GateHeld, DownIsIdle, MemoryIsMigrated, Gated, Position,
     Request, TypeOK, CallerType, ServiceType, DiskType, Config
<1>8. ASSUME NEW c \in Callers, StartBegins(c)
      PROVE  FileIsSaved'
  BY <1>8, GroupsUnchanged DEF IInv, FileIsSaved, Changing, StartBegins,
     GoTo, GateHeld, DownIsIdle, MemoryIsMigrated, Gated, Position,
     Request, TypeOK, CallerType, ServiceType, DiskType, Config
<1>9. ASSUME NEW c \in Callers, PollBegins(c)
      PROVE  FileIsSaved'
  BY <1>9, GroupsUnchanged DEF IInv, FileIsSaved, Changing, PollBegins,
     GoTo, GateHeld, DownIsIdle, MemoryIsMigrated, Gated, Position,
     Request, TypeOK, CallerType, ServiceType, DiskType, Config
<1>10. ASSUME NEW c \in Callers, RunEnds(c)
      PROVE  FileIsSaved'
  BY <1>10, GroupsUnchanged DEF IInv, FileIsSaved, Changing, RunEnds,
     Return, GoTo, GateHeld, DownIsIdle, MemoryIsMigrated, Gated,
     Position, Request, TypeOK, CallerType, ServiceType, DiskType, Config
<1>11. ASSUME NEW c \in Callers, Stop(c)
      PROVE  FileIsSaved'
  BY <1>11, GroupsUnchanged DEF IInv, FileIsSaved, Changing, Stop, GoTo,
     GateHeld, DownIsIdle, MemoryIsMigrated, Gated, Position, Request,
     TypeOK, CallerType, ServiceType, DiskType, Config
<1>12. ASSUME NEW c \in Callers, StopEnds(c)
      PROVE  FileIsSaved'
  BY <1>12, GroupsUnchanged DEF IInv, FileIsSaved, Changing, StopEnds,
     GoTo, GateHeld, DownIsIdle, MemoryIsMigrated, Gated, Position,
     Request, TypeOK, CallerType, ServiceType, DiskType, Config
<1>13. ASSUME NEW c \in Callers, SetConfigStopped(c)
      PROVE  FileIsSaved'
  BY <1>13, GroupsUnchanged DEF IInv, FileIsSaved, Changing,
     SetConfigStopped, GoTo, Return, GateHeld, DownIsIdle,
     MemoryIsMigrated, Gated, Position, Request, TypeOK, CallerType,
     ServiceType, DiskType, Config
<1>14. ASSUME NEW c \in Callers, ReplaceKeyStopped(c)
      PROVE  FileIsSaved'
  BY <1>14, GroupsUnchanged DEF IInv, FileIsSaved, Changing,
     ReplaceKeyStopped, GoTo, GateHeld, DownIsIdle, MemoryIsMigrated,
     Gated, Position, Request, TypeOK, CallerType, ServiceType, DiskType,
     Config
<1>15. ASSUME NEW c \in Callers, PairStopped(c)
      PROVE  FileIsSaved'
  BY <1>15, GroupsUnchanged DEF IInv, FileIsSaved, Changing, PairStopped,
     GoTo, Return, GateHeld, DownIsIdle, MemoryIsMigrated, Gated,
     Position, Request, TypeOK, CallerType, ServiceType, DiskType, Config
<1>16. ASSUME NEW c \in Callers, KeygenEnds(c)
      PROVE  FileIsSaved'
  BY <1>16, GroupsUnchanged DEF IInv, FileIsSaved, Changing, KeygenEnds,
     GoTo, Return, GateHeld, DownIsIdle, MemoryIsMigrated, Gated,
     Position, Request, TypeOK, CallerType, ServiceType, DiskType, Config
<1>17. ASSUME NEW c \in Callers, WritePub(c)
      PROVE  FileIsSaved'
  BY <1>17 DEF IInv, FileIsSaved, Changing, WritePub, Return, GoTo,
     GateHeld, DownIsIdle, MemoryIsMigrated, Gated, Position, Request,
     TypeOK, CallerType, ServiceType, DiskType, Config
<1>18. ASSUME NEW c \in Callers, PairAnswered(c)
      PROVE  FileIsSaved'
  BY <1>18, GroupsUnchanged DEF IInv, FileIsSaved, Changing, PairAnswered,
     GoTo, Return, GateHeld, DownIsIdle, MemoryIsMigrated, Gated,
     Position, Request, TypeOK, CallerType, ServiceType, DiskType, Config
<1>19. ASSUME NEW c \in Callers, SavePaired(c)
      PROVE  FileIsSaved'
  BY <1>19 DEF IInv, FileIsSaved, Changing, SavePaired, SaveOk, GoTo,
     SaveFails, Return, GateHeld, DownIsIdle, MemoryIsMigrated, Gated,
     Position, Request, TypeOK, CallerType, ServiceType, DiskType, Config
<1>20. ASSUME NEW c \in Callers, StartChecks(c)
      PROVE  FileIsSaved'
  BY <1>20, GroupsUnchanged DEF IInv, FileIsSaved, Changing, StartChecks,
     StartReturns, Return, GoTo, GateHeld, DownIsIdle, MemoryIsMigrated,
     Gated, Position, Request, TypeOK, CallerType, ServiceType, DiskType,
     Config
<1>21. ASSUME NEW c \in Callers, StartEnds(c)
      PROVE  FileIsSaved'
  BY <1>21, GroupsUnchanged DEF IInv, FileIsSaved, Changing, StartEnds,
     StartReturns, Return, GoTo, GateHeld, DownIsIdle, MemoryIsMigrated,
     Gated, Position, Request, TypeOK, CallerType, ServiceType, DiskType,
     Config
<1>22. ASSUME NEW c \in Callers, PollRestarts(c)
      PROVE  FileIsSaved'
  BY <1>22, GroupsUnchanged DEF IInv, FileIsSaved, Changing, PollRestarts,
     GoTo, Return, GateHeld, DownIsIdle, MemoryIsMigrated, Gated,
     Position, Request, TypeOK, CallerType, ServiceType, DiskType, Config
<1>23. ASSUME NEW c \in Callers, Dropped(c)
      PROVE  FileIsSaved'
  BY <1>23, GroupsUnchanged DEF IInv, FileIsSaved, Changing, Dropped,
     Forgets, GateHeld, DownIsIdle, MemoryIsMigrated, Gated, Position,
     Request, TypeOK, CallerType, ServiceType, DiskType, Config
<1>24. CASE ReaderHangsUp \/ ReaderReports \/ ChildServes \/ ChildDies \/
           LoopOpensBus \/ LoopGivesUp \/ LinkUp \/ LinkLost \/ LoopReports
  BY <1>24, GroupsUnchanged DEF IInv, FileIsSaved, Changing,
     ReaderHangsUp, ReaderReports, ChildServes, ChildDies, LoopOpensBus,
     LoopGivesUp, LinkUp, LinkLost, LoopReports
<1>25. CASE Boot
  BY <1>25, GroupsUnchanged DEF IInv, FileIsSaved, Changing, Boot, SaveOk,
     SaveFails, GateHeld, DownIsIdle, MemoryIsMigrated, Gated, Position,
     Request, TypeOK, CallerType, ServiceType, DiskType, Config
<1>26. CASE Crash
  BY <1>26, GroupsUnchanged DEF IInv, FileIsSaved, Changing, Crash,
     Forgets, GateHeld, DownIsIdle, MemoryIsMigrated, Gated, Position,
     Request, TypeOK, CallerType, ServiceType, DiskType, Config
<1>27. CASE SendToChild \/ SendSpawns \/ RetryComesDue
  BY <1>27, GroupsUnchanged DEF IInv, FileIsSaved, Changing, SendToChild,
     SendSpawns, RetryComesDue
<1>28. ASSUME NEW c \in Callers, Returns(c)
      PROVE  FileIsSaved'
  BY <1>28, GroupsUnchanged DEF IInv, FileIsSaved, Changing, Returns, GoTo
<1> QED
  BY <1>1, <1>2, <1>3, <1>4, <1>5, <1>6, <1>7, <1>8, <1>9, <1>10, <1>11,
     <1>12, <1>13, <1>14, <1>15, <1>16, <1>17, <1>18, <1>19, <1>20, <1>21,
     <1>22, <1>23, <1>24, <1>25, <1>26, <1>27, <1>28 DEF Next, Begins,
     GoesOn, Client, ChildSteps

\* IInv is inductive: what the file will be migrated to only says paired
\* of an enrolled key.
LEMMA OldFileIsEnrolledKept ==
    ASSUME IInv, Next
    PROVE  OldFileIsEnrolled'
<1>1. ASSUME NEW c \in Callers, ReplaceKeyBegins(c)
      PROVE  OldFileIsEnrolled'
  BY <1>1, GroupsUnchanged, CoreConstants DEF IInv, OldFileIsEnrolled,
     Enrolled, migrate, KeyFiles, ReplaceKeyBegins, Idle, SaveOk, Enter,
     GoTo, SaveFails, Refuse, MemoryIsMigrated, FileIsSaved,
     ConfirmedIsEnrolled, ReplacedIsUnpaired, ReusedKeyExists,
     PairedKeyIsEnrolled, GateHeld, RequestHasCaller, DownIsIdle,
     Replacing, Changing, Gated, Position, Request, TypeOK, CallerType,
     ServiceType, DiskType, Config
<1>2. ASSUME NEW c \in Callers, SetConfigBegins(c)
      PROVE  OldFileIsEnrolled'
  <2>1. priv' = priv /\ pub' = pub /\ knows' = knows
    BY <1>2 DEF SetConfigBegins
  <2>2. PICK vin \in Vins \cup {None} :
          \/ file' = file
          \/ /\ cfg.version # "newer"
             /\ file' = [cfg EXCEPT !.vin = vin,
                                    !.paired = @ /\ vin = cfg.vin]
    BY <1>2, CoreConstants DEF SetConfigBegins, SaveOk, SaveFails, IInv,
       TypeOK, ServiceType, DiskType, Config
  <2>3. CASE file' = file
    BY <2>1, <2>3 DEF IInv, OldFileIsEnrolled, Enrolled, migrate, KeyFiles
  <2>4. CASE /\ cfg.version # "newer"
             /\ file' = [cfg EXCEPT !.vin = vin,
                                    !.paired = @ /\ vin = cfg.vin]
    <3>1. cfg \in Config /\ cfg.version = "V2"
      BY <1>2, <2>4 DEF IInv, TypeOK, ServiceType, MemoryIsMigrated,
         SetConfigBegins, Idle
    <3>2. /\ file'.version = "V2" /\ file'.vin = vin
          /\ file'.paired <=> cfg.paired /\ vin = cfg.vin
      BY <2>4, <3>1 DEF Config
    <3>3. file'.paired => priv' /\ file'.vin \in knows'
      BY <2>1, <3>2, <1>2 DEF IInv, PairedKeyIsEnrolled, Enrolled,
         SetConfigBegins, Idle
    <3>4. migrate(file)'.paired = file'.paired /\ migrate(file)'.vin = file'.vin
      BY <2>4, <3>1, <3>2 DEF migrate, Config
    <3> QED
      BY <3>2, <3>3, <3>4 DEF OldFileIsEnrolled, Enrolled
  <2> QED
    BY <2>2, <2>3, <2>4
<1>3. ASSUME NEW c \in Callers,
             (\E o \in {"run", "share"} : RunBegins(c, o)) \/
             GenerateKeyBegins(c) \/ PairBegins(c) \/ DropBegins(c) \/
             ResumeBegins(c) \/ StartBegins(c) \/ PollBegins(c)
      PROVE  OldFileIsEnrolled'
  BY <1>3, GroupsUnchanged DEF IInv, OldFileIsEnrolled, Enrolled, migrate,
     KeyFiles, RunBegins, GenerateKeyBegins, PairBegins, DropBegins,
     ResumeBegins, StartBegins, PollBegins
<1>4. ASSUME NEW c \in Callers, WritePub(c)
      PROVE  OldFileIsEnrolled'
  <2>1. file' = file /\ priv' = priv /\ knows' = knows /\ pub' \in {pub, "match"}
    BY <1>4 DEF WritePub
  <2>2. CASE file.version # "V0"
    BY <2>1, <2>2 DEF IInv, OldFileIsEnrolled, Enrolled, migrate, TypeOK,
       DiskType, Config
  <2>3. CASE file.version = "V0"
    <3>1. op[c] \in {"generate_key", "replace_key"}
      BY <1>4 DEF IInv, ReusedKeyExists, WritePub
    <3>2. priv /\ pub # "none"
      BY <1>4, <2>3, <3>1 DEF WritePub, IInv, FileIsSaved, Changing,
         ReusedKeyExists, OldFileIsEnrolled
    <3>3. KeyFiles' = KeyFiles
      BY <2>1, <3>2 DEF KeyFiles
    <3> QED
      BY <2>1, <3>2, <3>3 DEF IInv, OldFileIsEnrolled, Enrolled, migrate
  <2> QED
    BY <2>2, <2>3
<1>5. ASSUME NEW c \in Callers, SavePaired(c)
      PROVE  OldFileIsEnrolled'
  BY <1>5 DEF IInv, OldFileIsEnrolled, Enrolled, migrate, KeyFiles,
     SavePaired, SaveOk, SaveFails, MemoryIsMigrated, FileIsSaved,
     ConfirmedIsEnrolled, ReplacedIsUnpaired, ReusedKeyExists,
     PairedKeyIsEnrolled, GateHeld, RequestHasCaller, DownIsIdle,
     Replacing, Changing, Gated, Position, Request, TypeOK, CallerType,
     ServiceType, DiskType, Config
<1>6. ASSUME NEW c \in Callers,
             RunEnds(c) \/ Stop(c) \/ StopEnds(c) \/ SetConfigStopped(c) \/
             ReplaceKeyStopped(c) \/ PairStopped(c) \/ KeygenEnds(c) \/
             PairAnswered(c) \/ StartChecks(c) \/ StartEnds(c) \/
             PollRestarts(c) \/ Dropped(c)
      PROVE  OldFileIsEnrolled'
  <2>1. file' = file /\ priv' = priv /\ knows' = knows /\ pub' = pub
    BY <1>6, GroupsUnchanged DEF RunEnds, Stop, StopEnds, SetConfigStopped,
       ReplaceKeyStopped, PairStopped, KeygenEnds, PairAnswered,
       StartChecks, StartEnds, PollRestarts, Dropped, Forgets
  <2> QED
    BY <2>1 DEF IInv, OldFileIsEnrolled, Enrolled, migrate, KeyFiles
<1>7. CASE ChildServes
  BY <1>7 DEF IInv, OldFileIsEnrolled, Enrolled, migrate, KeyFiles,
     ChildServes, ServesPresence, ServesKeygen, ServesPair, ServesCommand,
     MemoryIsMigrated, FileIsSaved, ConfirmedIsEnrolled,
     ReplacedIsUnpaired, ReusedKeyExists, PairedKeyIsEnrolled, GateHeld,
     RequestHasCaller, DownIsIdle, Replacing, Changing, Gated, Position,
     Request, TypeOK, CallerType, ServiceType, DiskType, Config
<1>8. CASE ReaderHangsUp \/ ReaderReports \/ ChildDies \/ LoopOpensBus \/
           LoopGivesUp \/ LinkUp \/ LinkLost \/ LoopReports
  BY <1>8, GroupsUnchanged DEF IInv, OldFileIsEnrolled, Enrolled, migrate,
     KeyFiles, ReaderHangsUp, ReaderReports, ChildDies, LoopOpensBus,
     LoopGivesUp, LinkUp, LinkLost, LoopReports
<1>9. CASE Boot
  <2>1. priv' = priv /\ pub' = pub /\ knows' = knows
    BY <1>9 DEF Boot
  <2>2. file' = file \/ file' = migrate(file)
    BY <1>9 DEF Boot, SaveOk, SaveFails
  <2>3. migrate(file) \in Config /\ Enrolled(migrate(file))
    BY MigrateType DEF IInv, TypeOK, DiskType, OldFileIsEnrolled
  <2>4. CASE file' = file
    BY <2>1, <2>4 DEF IInv, OldFileIsEnrolled, Enrolled, migrate, KeyFiles
  <2>5. CASE file' = migrate(file)
    <3>1. file'.version # "V0"
      BY <2>5 DEF migrate, IInv, TypeOK, DiskType, Config
    <3>2. migrate(file)'.paired = file'.paired /\ migrate(file)'.vin = file'.vin
      BY <2>3, <2>5, <3>1 DEF migrate, Config
    <3> QED
      BY <2>1, <2>3, <2>5, <3>1, <3>2 DEF OldFileIsEnrolled, Enrolled
  <2> QED
    BY <2>2, <2>4, <2>5
<1>10. CASE SendToChild \/ SendSpawns \/ RetryComesDue \/ Crash
  BY <1>10, GroupsUnchanged DEF IInv, OldFileIsEnrolled, Enrolled,
     migrate, KeyFiles, SendToChild, SendSpawns, RetryComesDue, Crash,
     Forgets
<1>11. ASSUME NEW c \in Callers, Returns(c)
      PROVE  OldFileIsEnrolled'
  BY <1>11, GroupsUnchanged DEF IInv, OldFileIsEnrolled, Enrolled,
     migrate, KeyFiles, Returns
<1> QED
  BY <1>1, <1>2, <1>3, <1>4, <1>5, <1>6, <1>7, <1>8, <1>9, <1>10, <1>11
     DEF Next, Begins, GoesOn, Client, ChildSteps

\* IInv is inductive: generate_key only reuses a key that exists.
LEMMA ReusedKeyExistsKept ==
    ASSUME IInv, Next
    PROVE  ReusedKeyExists'
<1>1. ASSUME NEW c \in Callers, NEW o \in {"run", "share"}, RunBegins(c, o)
      PROVE  ReusedKeyExists'
  BY <1>1, GroupsUnchanged DEF IInv, ReusedKeyExists, RunBegins, Enter,
     GoTo, Refuse, GateHeld, RequestHasCaller, DownIsIdle, Gated,
     Position, Request, TypeOK, CallerType, ServiceType, DiskType, Config
<1>2. ASSUME NEW c \in Callers, GenerateKeyBegins(c)
      PROVE  ReusedKeyExists'
  BY <1>2, GroupsUnchanged DEF IInv, ReusedKeyExists, GenerateKeyBegins,
     Refuse, GoTo, Enter, GateHeld, RequestHasCaller, DownIsIdle, Gated,
     Position, Request, TypeOK, CallerType, ServiceType, DiskType, Config
<1>3. ASSUME NEW c \in Callers, ReplaceKeyBegins(c)
      PROVE  ReusedKeyExists'
  BY <1>3 DEF IInv, ReusedKeyExists, ReplaceKeyBegins, Enter, GoTo,
     Refuse, GateHeld, RequestHasCaller, DownIsIdle, Gated, Position,
     Request, TypeOK, CallerType, ServiceType, DiskType, Config
<1>4. ASSUME NEW c \in Callers, SetConfigBegins(c)
      PROVE  ReusedKeyExists'
  BY <1>4 DEF IInv, ReusedKeyExists, SetConfigBegins, Enter, GoTo, Refuse,
     GateHeld, RequestHasCaller, DownIsIdle, Gated, Position, Request,
     TypeOK, CallerType, ServiceType, DiskType, Config
<1>5. ASSUME NEW c \in Callers, PairBegins(c)
      PROVE  ReusedKeyExists'
  BY <1>5, GroupsUnchanged DEF IInv, ReusedKeyExists, PairBegins, Refuse,
     GoTo, Enter, GateHeld, RequestHasCaller, DownIsIdle, Gated, Position,
     Request, TypeOK, CallerType, ServiceType, DiskType, Config
<1>6. ASSUME NEW c \in Callers, DropBegins(c)
      PROVE  ReusedKeyExists'
  BY <1>6, GroupsUnchanged DEF IInv, ReusedKeyExists, DropBegins, Enter,
     GoTo, GateHeld, RequestHasCaller, DownIsIdle, Gated, Position,
     Request, TypeOK, CallerType, ServiceType, DiskType, Config
<1>7. ASSUME NEW c \in Callers, ResumeBegins(c)
      PROVE  ReusedKeyExists'
  BY <1>7, GroupsUnchanged DEF IInv, ReusedKeyExists, ResumeBegins, GoTo,
     GateHeld, RequestHasCaller, DownIsIdle, Gated, Position, Request,
     TypeOK, CallerType, ServiceType, DiskType, Config
<1>8. ASSUME NEW c \in Callers, StartBegins(c)
      PROVE  ReusedKeyExists'
  BY <1>8, GroupsUnchanged DEF IInv, ReusedKeyExists, StartBegins, GoTo,
     GateHeld, RequestHasCaller, DownIsIdle, Gated, Position, Request,
     TypeOK, CallerType, ServiceType, DiskType, Config
<1>9. ASSUME NEW c \in Callers, PollBegins(c)
      PROVE  ReusedKeyExists'
  BY <1>9, GroupsUnchanged DEF IInv, ReusedKeyExists, PollBegins, GoTo,
     GateHeld, RequestHasCaller, DownIsIdle, Gated, Position, Request,
     TypeOK, CallerType, ServiceType, DiskType, Config
<1>10. ASSUME NEW c \in Callers, RunEnds(c)
      PROVE  ReusedKeyExists'
  BY <1>10, GroupsUnchanged DEF IInv, ReusedKeyExists, RunEnds, Return,
     GoTo, GateHeld, RequestHasCaller, DownIsIdle, Gated, Position,
     Request, TypeOK, CallerType, ServiceType, DiskType, Config
<1>11. ASSUME NEW c \in Callers, Stop(c)
      PROVE  ReusedKeyExists'
  BY <1>11, GroupsUnchanged DEF IInv, ReusedKeyExists, Stop, GoTo,
     GateHeld, RequestHasCaller, DownIsIdle, Gated, Position, Request,
     TypeOK, CallerType, ServiceType, DiskType, Config
<1>12. ASSUME NEW c \in Callers, StopEnds(c)
      PROVE  ReusedKeyExists'
  BY <1>12, GroupsUnchanged DEF IInv, ReusedKeyExists, StopEnds, GoTo,
     GateHeld, RequestHasCaller, DownIsIdle, Gated, Position, Request,
     TypeOK, CallerType, ServiceType, DiskType, Config
<1>13. ASSUME NEW c \in Callers, SetConfigStopped(c)
      PROVE  ReusedKeyExists'
  BY <1>13, GroupsUnchanged DEF IInv, ReusedKeyExists, SetConfigStopped,
     GoTo, Return, GateHeld, RequestHasCaller, DownIsIdle, Gated,
     Position, Request, TypeOK, CallerType, ServiceType, DiskType, Config
<1>14. ASSUME NEW c \in Callers, ReplaceKeyStopped(c)
      PROVE  ReusedKeyExists'
  BY <1>14, GroupsUnchanged DEF IInv, ReusedKeyExists, ReplaceKeyStopped,
     GoTo, GateHeld, RequestHasCaller, DownIsIdle, Gated, Position,
     Request, TypeOK, CallerType, ServiceType, DiskType, Config
<1>15. ASSUME NEW c \in Callers, PairStopped(c)
      PROVE  ReusedKeyExists'
  BY <1>15, GroupsUnchanged DEF IInv, ReusedKeyExists, PairStopped, GoTo,
     Return, GateHeld, RequestHasCaller, DownIsIdle, Gated, Position,
     Request, TypeOK, CallerType, ServiceType, DiskType, Config
<1>16. ASSUME NEW c \in Callers, KeygenEnds(c)
      PROVE  ReusedKeyExists'
  BY <1>16, GroupsUnchanged DEF IInv, ReusedKeyExists, KeygenEnds, GoTo,
     Return, GateHeld, RequestHasCaller, DownIsIdle, Gated, Position,
     Request, TypeOK, CallerType, ServiceType, DiskType, Config
<1>17. ASSUME NEW c \in Callers, WritePub(c)
      PROVE  ReusedKeyExists'
  BY <1>17 DEF IInv, ReusedKeyExists, WritePub, Return, GoTo, GateHeld,
     RequestHasCaller, DownIsIdle, Gated, Position, Request, TypeOK,
     CallerType, ServiceType, DiskType, Config
<1>18. ASSUME NEW c \in Callers, PairAnswered(c)
      PROVE  ReusedKeyExists'
  BY <1>18, GroupsUnchanged DEF IInv, ReusedKeyExists, PairAnswered, GoTo,
     Return, GateHeld, RequestHasCaller, DownIsIdle, Gated, Position,
     Request, TypeOK, CallerType, ServiceType, DiskType, Config
<1>19. ASSUME NEW c \in Callers, SavePaired(c)
      PROVE  ReusedKeyExists'
  BY <1>19 DEF IInv, ReusedKeyExists, SavePaired, GoTo, Return, GateHeld,
     RequestHasCaller, DownIsIdle, Gated, Position, Request, TypeOK,
     CallerType, ServiceType, DiskType, Config
<1>20. ASSUME NEW c \in Callers, StartChecks(c)
      PROVE  ReusedKeyExists'
  BY <1>20, GroupsUnchanged DEF IInv, ReusedKeyExists, StartChecks,
     StartReturns, Return, GoTo, GateHeld, RequestHasCaller, DownIsIdle,
     Gated, Position, Request, TypeOK, CallerType, ServiceType, DiskType,
     Config
<1>21. ASSUME NEW c \in Callers, StartEnds(c)
      PROVE  ReusedKeyExists'
  BY <1>21, GroupsUnchanged DEF IInv, ReusedKeyExists, StartEnds,
     StartReturns, Return, GoTo, GateHeld, RequestHasCaller, DownIsIdle,
     Gated, Position, Request, TypeOK, CallerType, ServiceType, DiskType,
     Config
<1>22. ASSUME NEW c \in Callers, PollRestarts(c)
      PROVE  ReusedKeyExists'
  BY <1>22, GroupsUnchanged DEF IInv, ReusedKeyExists, PollRestarts, GoTo,
     Return, GateHeld, RequestHasCaller, DownIsIdle, Gated, Position,
     Request, TypeOK, CallerType, ServiceType, DiskType, Config
<1>23. ASSUME NEW c \in Callers, Dropped(c)
      PROVE  ReusedKeyExists'
  BY <1>23, GroupsUnchanged DEF IInv, ReusedKeyExists, Dropped, Forgets,
     GateHeld, RequestHasCaller, DownIsIdle, Gated, Position, Request,
     TypeOK, CallerType, ServiceType, DiskType, Config
<1>24. CASE ChildServes
  BY <1>24, GroupsUnchanged DEF IInv, ReusedKeyExists, ChildServes,
     ServesPresence, ServesKeygen, ServesPair, ServesCommand, GateHeld,
     RequestHasCaller, DownIsIdle, Gated, Position, Request, TypeOK,
     CallerType, ServiceType, DiskType, Config
<1>25. CASE ReaderHangsUp \/ ReaderReports \/ ChildDies \/ LoopOpensBus \/
           LoopGivesUp \/ LinkUp \/ LinkLost \/ LoopReports
  BY <1>25, GroupsUnchanged DEF IInv, ReusedKeyExists, ReaderHangsUp,
     ReaderReports, ChildDies, LoopOpensBus, LoopGivesUp, LinkUp, LinkLost,
     LoopReports
<1>26. CASE Crash
  BY <1>26, GroupsUnchanged DEF IInv, ReusedKeyExists, Crash, Forgets,
     GateHeld, RequestHasCaller, DownIsIdle, Gated, Position, Request,
     TypeOK, CallerType, ServiceType, DiskType, Config
<1>27. CASE SendToChild \/ SendSpawns \/ RetryComesDue \/ Boot
  BY <1>27, GroupsUnchanged DEF IInv, ReusedKeyExists, SendToChild,
     SendSpawns, RetryComesDue, Boot
<1>28. ASSUME NEW c \in Callers, Returns(c)
      PROVE  ReusedKeyExists'
  BY <1>28, GroupsUnchanged DEF IInv, ReusedKeyExists, Returns, GoTo
<1> QED
  BY <1>1, <1>2, <1>3, <1>4, <1>5, <1>6, <1>7, <1>8, <1>9, <1>10, <1>11,
     <1>12, <1>13, <1>14, <1>15, <1>16, <1>17, <1>18, <1>19, <1>20, <1>21,
     <1>22, <1>23, <1>24, <1>25, <1>26, <1>27, <1>28 DEF Next, Begins,
     GoesOn, Client, ChildSteps

-----------------------------------------------------------------------------
\* A fresh process has nothing under way, and only knows what is on disk.
LEMMA InitInv == Init => IInv
<1> SUFFICES ASSUME Init
             PROVE  IInv
  OBVIOUS
<1>1. TypeOK
  BY InitType
<1>2. GateHeld /\ StartIsEligible /\ ReplacedIsUnpaired /\ ConfirmedIsEnrolled
  BY DEF Init, Fresh, GateHeld, Gated, StartIsEligible, ReplacedIsUnpaired,
     Replacing, Changing, ConfirmedIsEnrolled
<1>3. DownIsIdle /\ ChildServesConfigured /\ RequestHasCaller
  BY DEF Init, Fresh, DownIsIdle, ChildServesConfigured, RequestHasCaller
<1>4. MemoryIsMigrated /\ FileIsSaved /\ ReusedKeyExists
  BY DEF Init, Fresh, MemoryIsMigrated, FileIsSaved, Changing, ReusedKeyExists
<1>5. OldFileIsEnrolled
  BY DEF Init, OldFileIsEnrolled
<1>6. PairedKeyIsEnrolled
  BY <1>1 DEF Init, PairedKeyIsEnrolled, Enrolled, migrate, TypeOK, DiskType,
     Config
<1> QED
  BY <1>1, <1>2, <1>3, <1>4, <1>5, <1>6 DEF IInv

LEMMA InvKept ==
    ASSUME IInv, [Next]_vars
    PROVE  IInv'
<1>1. CASE Next
  <2>1. TypeOK'
    BY TypeKept DEF IInv
  <2> QED
    BY <1>1, <2>1, GateHeldKept, DownIsIdleKept, ChildServesConfiguredKept,
       StartIsEligibleKept, ReplacedIsUnpairedKept, ConfirmedIsEnrolledKept,
       PairedKeyIsEnrolledKept, RequestHasCallerKept, MemoryIsMigratedKept,
       FileIsSavedKept, OldFileIsEnrolledKept, ReusedKeyExistsKept
       DEF IInv
<1>2. CASE UNCHANGED vars
  <2>1. /\ UNCHANGED <<up, file, priv, pub, knows, cfg, pc, op, gate>>
        /\ UNCHANGED <<childVin, mode, wire>>
    BY <1>2, GroupsUnchanged DEF vars
  <2>2. TypeOK'
    BY TypeKept DEF IInv
  <2>3. /\ GateHeld' /\ DownIsIdle' /\ ChildServesConfigured'
        /\ RequestHasCaller' /\ MemoryIsMigrated' /\ FileIsSaved'
    BY <2>1 DEF IInv, GateHeld, DownIsIdle, ChildServesConfigured,
       RequestHasCaller, MemoryIsMigrated, FileIsSaved
  <2>4. /\ StartIsEligible' /\ ReplacedIsUnpaired' /\ ConfirmedIsEnrolled'
        /\ ReusedKeyExists'
    BY <2>1 DEF IInv, StartIsEligible, Eligible, ReplacedIsUnpaired, Replacing,
       ConfirmedIsEnrolled, ReusedKeyExists
  <2>5. OldFileIsEnrolled' /\ PairedKeyIsEnrolled'
    BY <2>1 DEF IInv, OldFileIsEnrolled, PairedKeyIsEnrolled, Enrolled, migrate,
       KeyFiles
  <2> QED
    BY <2>2, <2>3, <2>4, <2>5 DEF IInv
<1> QED
  BY <1>1, <1>2

\* IInv holds throughout.
LEMMA Invariant == Spec => []IInv
<1> QED
  BY InitInv, InvKept, PTL DEF Spec

\* Whatever fails or is killed between the writes of a key replacement, a
\* pairing or a change of VIN, what says paired, on disk or in memory, is a key
\* the vehicle has enrolled (generate_key, pair, set_config, Core::new).
THEOREM PairedKeysAreEnrolled == Spec => []PairedKeyIsEnrolled
<1>1. IInv => PairedKeyIsEnrolled
  BY DEF IInv
<1> QED
  BY <1>1, Invariant, PTL

\* No command is served by a child of another VIN than the configured one,
\* which holds because set_config retires the child with the old VIN.
THEOREM CommandsGoToConfiguredVehicle == Spec => []CommandsReachConfiguredVehicle
<1>1. IInv => CommandsReachConfiguredVehicle
  BY DEF IInv, ChildServesConfigured, CommandsReachConfiguredVehicle
<1> QED
  BY <1>1, Invariant, PTL

-----------------------------------------------------------------------------
(* The refinement.                                                         *)

\* The configuration, and whether there is one, only changes while nothing is
\* served: a step that changes it retires the child or finds none.
LEMMA PairingChangesAtRest ==
    ASSUME IInv, Next
    PROVE  UNCHANGED <<up, cfg>> \/ mode' = "off"
<1>1. ASSUME NEW c \in Callers, Begins(c)
      PROVE  UNCHANGED <<up, cfg>>
  BY <1>1 DEF Begins, RunBegins, GenerateKeyBegins, ReplaceKeyBegins,
     SetConfigBegins, PairBegins, DropBegins, ResumeBegins, StartBegins,
     PollBegins
<1>2. ASSUME NEW c \in Callers, SavePaired(c)
      PROVE  UNCHANGED <<up, cfg>> \/ mode' = "off"
  <2>1. CASE cfg.paired
    <3>1. [cfg EXCEPT !.paired = TRUE] = cfg
      BY <2>1 DEF IInv, TypeOK, ServiceType, Config
    <3> QED
      BY <1>2, <3>1 DEF SavePaired
  <2>2. CASE ~cfg.paired
    BY <1>2, <2>2, GroupsUnchanged DEF SavePaired, IInv, ChildServesConfigured,
       TypeOK, ServiceType, Config
  <2> QED
    BY <2>1, <2>2
<1>3. ASSUME NEW c \in Callers, SetConfigStopped(c) \/ ReplaceKeyStopped(c) \/ Dropped(c)
      PROVE  mode' = "off"
  BY <1>3 DEF SetConfigStopped, ReplaceKeyStopped, Dropped, Forgets, invalidate,
     kill
<1>4. ASSUME NEW c \in Callers,
             RunEnds(c) \/ Stop(c) \/ StopEnds(c) \/ PairStopped(c) \/ KeygenEnds(c)
             \/ WritePub(c) \/ PairAnswered(c) \/ StartChecks(c) \/ StartEnds(c)
             \/ PollRestarts(c) \/ Returns(c)
      PROVE  UNCHANGED <<up, cfg>>
  BY <1>4 DEF RunEnds, Stop, StopEnds, PairStopped, KeygenEnds, WritePub,
     PairAnswered, StartChecks, StartEnds, PollRestarts, Returns
<1>5. CASE Client \/ ChildSteps \/ RetryComesDue
  BY <1>5 DEF Client, SendToChild, SendSpawns, ChildSteps, ReaderHangsUp,
     ReaderReports, ChildServes, ChildDies, LoopOpensBus, LoopGivesUp, LinkUp,
     LinkLost, LoopReports, RetryComesDue
<1>6. CASE Boot
  BY <1>6, GroupsUnchanged DEF Boot, IInv, DownIsIdle
<1>7. CASE Crash
  BY <1>7 DEF Crash, Forgets
<1> QED
  BY <1>1, <1>2, <1>3, <1>4, <1>5, <1>6, <1>7 DEF Next, GoesOn

\* What is served is the paired vehicle or nothing.
LEMMA ServedIsPaired ==
    IInv => IF mode = "off" THEN TRUE
            ELSE up /\ cfg.paired /\ childVin = cfg.vin /\ childVin # None
BY DEF IInv, ChildServesConfigured, DownIsIdle

\* The core implements PhoneKeyService: each of its steps serves the paired
\* vehicle, ceases to, changes the pairing while nothing is served, or is none
\* of its user's business (start_phone_key, stop_phone_key_locked, invalidate).
THEOREM CoreImplementsService == Spec => ImplementsService
<1> DEFINE paired == IF up /\ cfg.paired THEN cfg.vin ELSE None
           serving == IF mode = "off" THEN None ELSE childVin
<1>1. Init => Service!Init
  BY DEF Init, Fresh, Service!Init
<1>2. ASSUME IInv, IInv', [Next]_vars
      PROVE  [Service!Next]_(Service!serviceState)
  <2>1. CASE UNCHANGED vars
    BY <2>1, GroupsUnchanged DEF vars, Service!serviceState
  <2>2. CASE Next /\ UNCHANGED <<up, cfg>>
    <3>1. paired' = paired
      BY <2>2
    <3>2. serving \in {None, paired}
      BY <1>2, ServedIsPaired
    <3>3. serving' \in {None, paired'}
      BY <1>2 DEF IInv, ChildServesConfigured, DownIsIdle
    <3> QED
      BY <3>1, <3>2, <3>3 DEF Service!serviceState, Service!Next, Service!Serve,
         Service!Cease
  <2>3. CASE mode' = "off"
    <3>1. paired' \in Vins \cup {None} /\ serving' = None
      BY <1>2, <2>3 DEF IInv, TypeOK, ServiceType, Config
    <3> QED
      BY <3>1 DEF Service!serviceState, Service!Next, Service!Pair
  <2> QED
    BY <1>2, <2>1, <2>2, <2>3, PairingChangesAtRest
<1> QED
  BY <1>1, <1>2, Invariant, PTL DEF Spec, ImplementsService, Service!Spec
=============================================================================
