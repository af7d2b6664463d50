--------------------------- MODULE DashboardProofs ---------------------------
(***************************************************************************)
(* The front page waits for one request at a time, and shows the vehicle   *)
(* as it is when it is at rest, whichever requests fail.                   *)
(***************************************************************************)
EXTENDS DashboardProperties, TLAPS

-----------------------------------------------------------------------------
(* Queues.                                                                 *)

\* Nothing in a queue is the page's own.
Silent(q) == \A i \in DOMAIN q : q[i].id = "cover"
\* One message of it is, and it is for stage s.
Alone(q, s) ==
    \E k \in DOMAIN q :
      /\ q[k].id = s /\ s # "cover"
      /\ \A i \in DOMAIN q \ {k} : q[i].id = "cover"
\* What has been read is so of vehicle c.
Reads(q, c) == \A i \in DOMAIN q : q[i].id \in Leg => q[i].reading = c

LEMMA AppendElements ==
    ASSUME NEW S, NEW q \in Seq(S), NEW m \in S
    PROVE  /\ Append(q, m) \in Seq(S)
           /\ DOMAIN q = 1 .. Len(q) /\ Len(q) \in Nat
           /\ DOMAIN Append(q, m) = 1 .. Len(q) + 1
           /\ \A i \in 1 .. Len(q) : Append(q, m)[i] = q[i]
           /\ Append(q, m)[Len(q) + 1] = m
OBVIOUS

LEMMA TailElements ==
    ASSUME NEW S, NEW q \in Seq(S), q # <<>>
    PROVE  /\ Head(q) \in S /\ Tail(q) \in Seq(S)
           /\ DOMAIN q = 1 .. Len(q) /\ Len(q) \in Nat \ {0}
           /\ Head(q) = q[1]
           /\ DOMAIN Tail(q) = 1 .. Len(q) - 1
           /\ \A i \in 1 .. Len(q) - 1 : Tail(q)[i] = q[i + 1]
OBVIOUS

\* A message that is queued.
LEMMA AppendAsks ==
    ASSUME NEW S, NEW q \in Seq(S), NEW m \in S, NEW s, NEW c
    PROVE  /\ Silent(q) /\ m.id = "cover" => Silent(Append(q, m))
           /\ Silent(q) /\ m.id # "cover" => Alone(Append(q, m), m.id)
           /\ Alone(q, s) /\ m.id = "cover" => Alone(Append(q, m), s)
           /\ Reads(q, c) /\ (m.id \in Leg => m.reading = c) =>
                Reads(Append(q, m), c)
<1> DEFINE a == Append(q, m)
           n == Len(q) + 1
<1>1. /\ DOMAIN q = 1 .. Len(q) /\ Len(q) \in Nat
      /\ DOMAIN a = DOMAIN q \cup {n} /\ n \notin DOMAIN q
      /\ a[n] = m /\ \A i \in DOMAIN q : a[i] = q[i]
  BY AppendElements
<1> HIDE DEF a, n
<1>2. Silent(q) /\ m.id = "cover" => Silent(a)
  BY <1>1 DEF Silent
<1>3. ASSUME Silent(q), m.id # "cover"  PROVE Alone(a, m.id)
  <2>1. n \in DOMAIN a /\ a[n].id = m.id
    BY <1>1
  <2>2. \A i \in DOMAIN a \ {n} : a[i].id = "cover"
    BY <1>1, <1>3 DEF Silent
  <2> QED
    BY <1>3, <2>1, <2>2 DEF Alone
<1>4. ASSUME Alone(q, s), m.id = "cover"  PROVE Alone(a, s)
  <2>1. PICK k \in DOMAIN q :
          /\ q[k].id = s /\ s # "cover"
          /\ \A i \in DOMAIN q \ {k} : q[i].id = "cover"
    BY <1>4 DEF Alone
  <2>2. k \in DOMAIN a /\ a[k].id = s
    BY <1>1, <2>1
  <2>3. \A i \in DOMAIN a \ {k} : a[i].id = "cover"
    BY <1>1, <1>4, <2>1
  <2> QED
    BY <2>1, <2>2, <2>3 DEF Alone
<1>5. Reads(q, c) /\ (m.id \in Leg => m.reading = c) => Reads(a, c)
  BY <1>1 DEF Reads
<1> QED
  BY <1>2, <1>3, <1>4, <1>5 DEF a

\* A message that is taken.
LEMMA TailAsks ==
    ASSUME NEW S, NEW q \in Seq(S), q # <<>>, NEW s, NEW c
    PROVE  /\ Silent(q) => Head(q).id = "cover" /\ Silent(Tail(q))
           /\ Alone(q, s) /\ Head(q).id = "cover" => Alone(Tail(q), s)
           /\ Alone(q, s) /\ Head(q).id # "cover" =>
                Head(q).id = s /\ Silent(Tail(q))
           /\ Reads(q, c) => Reads(Tail(q), c)
                /\ (Head(q).id \in Leg => Head(q).reading = c)
<1> DEFINE t == Tail(q)
<1>1. /\ 1 \in DOMAIN q /\ Head(q) = q[1]
      /\ \A i \in DOMAIN t : i + 1 \in DOMAIN q /\ i + 1 # 1 /\ t[i] = q[i + 1]
      /\ \A i \in DOMAIN q : i # 1 => i - 1 \in DOMAIN t /\ t[i - 1] = q[i]
      /\ DOMAIN q \subseteq Nat /\ DOMAIN t \subseteq Nat
  BY TailElements
<1> HIDE DEF t
<1>2. Silent(q) => Head(q).id = "cover" /\ Silent(t)
  BY <1>1 DEF Silent
<1>3. ASSUME Alone(q, s)
      PROVE  /\ Head(q).id = "cover" => Alone(t, s)
             /\ Head(q).id # "cover" => Head(q).id = s /\ Silent(t)
  <2>1. PICK k \in DOMAIN q :
          /\ q[k].id = s /\ s # "cover"
          /\ \A i \in DOMAIN q \ {k} : q[i].id = "cover"
    BY <1>3 DEF Alone
  <2>2. CASE k = 1
    BY <1>1, <2>1, <2>2 DEF Silent
  <2>3. CASE k # 1
    <3>1. k - 1 \in DOMAIN t /\ t[k - 1].id = s
      BY <1>1, <2>1, <2>3
    <3>2. \A i \in DOMAIN t \ {k - 1} : t[i].id = "cover"
      <4> SUFFICES ASSUME NEW i \in DOMAIN t, i # k - 1
                   PROVE  t[i].id = "cover"
        OBVIOUS
      <4>1. i + 1 \in DOMAIN q /\ i + 1 # k /\ t[i] = q[i + 1]
        BY <1>1, <2>1
      <4> QED
        BY <2>1, <4>1
    <3>3. Head(q).id = "cover"
      BY <1>1, <2>1, <2>3
    <3> QED
      BY <2>1, <3>1, <3>2, <3>3 DEF Alone
  <2> QED
    BY <2>2, <2>3
<1>4. Reads(q, c) => Reads(t, c) /\ (Head(q).id \in Leg => Head(q).reading = c)
  BY <1>1 DEF Reads
<1> QED
  BY <1>2, <1>3, <1>4 DEF t

-----------------------------------------------------------------------------
(* Types.  The flags are apart: they are used as formulas.                 *)

FlagsOK ==
    /\ visible \in BOOLEAN /\ updated \in BOOLEAN
    /\ statusError \in BOOLEAN /\ settling \in BOOLEAN
    /\ commandBusy \in BOOLEAN /\ overtaken \in BOOLEAN
DataOK ==
    /\ car \in [Field -> Value] /\ telemetry \in [Field -> Value]
    /\ vehicleStatus \in [Field -> Value \cup {"unknown"}]
    /\ vehicleStatus["isClimateOn"] \in Value
    /\ vehicleStatus["windowsOpen"] \in Value
    /\ statusStage \in Stage
    /\ calls \in Seq(Call) /\ replies \in Seq(Reply)

LEMMA TypeParts == TypeOK <=> FlagsOK /\ DataOK
BY DEF TypeOK, FlagsOK, DataOK

\* A step of the page that starts the chain, or does not.
LEMMA RefreshSteps ==
    ASSUME NEW hasty, refreshStatus(hasty)
    PROVE  \/ /\ visible' /\ statusStage = "" /\ statusStage' = "body"
              /\ ~statusError' /\ calls' = Append(calls, [id |-> "body"])
              /\ overtaken' = hasty
           \/ /\ ~(visible' /\ statusStage = "")
              /\ UNCHANGED <<statusError, statusStage, calls, overtaken>>
BY DEF refreshStatus, runCommand

LEMMA RefreshType ==
    ASSUME DataOK, NEW hasty, refreshStatus(hasty)
    PROVE  statusStage' \in Stage /\ calls' \in Seq(Call)
<1>1. [id |-> "body"] \in Call
  BY DEF Call, Leg
<1>2. Append(calls, [id |-> "body"]) \in Seq(Call)
  BY <1>1 DEF DataOK
<1> QED
  BY <1>2, RefreshSteps DEF DataOK, Stage, Leg

LEMMA ToggleType ==
    ASSUME DataOK, NEW f \in Field, toggle(f)
    PROVE  DataOK'
<1> DEFINE v == IF vehicleStatus[f] = "off" THEN "on" ELSE "off"
           set == [field |-> f, value |-> v]
           call == [id |-> "toggle", set |-> set]
<1>1. v \in Value
  BY DEF Value
<1>2. set \in [field : Field, value : Value]
  BY <1>1
<1>3. call \in [id : {"toggle", "cover"}, set : Setting]
  BY <1>2 DEF Setting
<1>4. calls' = Append(calls, call) /\ call \in Call
  BY <1>3 DEF toggle, runCommand, Call
<1>5. calls' \in Seq(Call)
  BY <1>4 DEF DataOK
<1>6. /\ vehicleStatus' = [vehicleStatus EXCEPT ![f] = Not(vehicleStatus[f])]
      /\ Not(vehicleStatus[f]) \in Value
  BY DEF toggle, optimistic, Not, Value
<1>7. /\ vehicleStatus' \in [Field -> Value \cup {"unknown"}]
      /\ vehicleStatus'["isClimateOn"] \in Value
      /\ vehicleStatus'["windowsOpen"] \in Value
  BY <1>6 DEF DataOK, Field
<1>8. statusStage' = "toggle" /\ UNCHANGED <<car, telemetry, replies>>
  BY DEF toggle, vehicle
<1> QED
  BY <1>5, <1>7, <1>8 DEF DataOK, Stage

LEMMA OtherCallsType ==
    ASSUME DataOK, openTrunk \/ runCoverCommand
    PROVE  DataOK'
<1>1. \A s \in Setting, n \in {"toggle", "cover"} : [id |-> n, set |-> s] \in Call
  BY DEF Call
<1>2. /\ [field |-> "none"] \in Setting
      /\ [field |-> "locked", value |-> "on"] \in Setting
  BY DEF Setting, Field, Value
<1>3. PICK m \in Call : calls' = Append(calls, m)
  BY <1>1, <1>2 DEF openTrunk, runCoverCommand, runCommand
<1>4. calls' \in Seq(Call)
  BY <1>3 DEF DataOK
<1>5. /\ statusStage' \in {"toggle", statusStage}
      /\ UNCHANGED <<car, telemetry, vehicleStatus, replies>>
  BY DEF openTrunk, runCoverCommand, vehicle, page
<1> QED
  BY <1>4, <1>5 DEF DataOK, Stage

LEMMA RefreshersType ==
    ASSUME DataOK, RefreshTapped \/ onConfigLoaded \/ settled
    PROVE  DataOK'
<1>1. statusStage' \in Stage /\ calls' \in Seq(Call)
  BY RefreshType DEF RefreshTapped, onConfigLoaded, settled
<1>2. UNCHANGED <<car, telemetry, vehicleStatus, replies>>
  BY DEF RefreshTapped, onConfigLoaded, settled, vehicle
<1> QED
  BY <1>1, <1>2 DEF DataOK

\* A reading that is merged.
LEMMA MergeType ==
    ASSUME DataOK, NEW leg \in Leg, NEW r \in [Field -> Value],
           vehicleStatus' = merge(leg, vehicleStatus, r)
    PROVE  /\ vehicleStatus' \in [Field -> Value \cup {"unknown"}]
           /\ vehicleStatus'["isClimateOn"] \in Value
           /\ vehicleStatus'["windowsOpen"] \in Value
<1> USE DEF DataOK, Field, merge
<1>1. CASE leg = "body"
  BY <1>1 DEF mergeBodyControllerState
<1>2. CASE leg = "closures"
  BY <1>2 DEF mergeClosuresState
<1>3. CASE leg = "climate"
  BY <1>3 DEF mergeClimateState
<1>4. CASE leg = "charge"
  BY <1>4
<1> QED
  BY <1>1, <1>2, <1>3, <1>4 DEF Leg

LEMMA LegFinishedSteps ==
    ASSUME NEW r, LegFinished(r)
    PROVE  /\ r.id \in Leg /\ r.outcome # "error"
           /\ \/ /\ r.outcome = "ok"
                 /\ vehicleStatus' = merge(r.id, vehicleStatus, r.reading)
                 /\ UNCHANGED statusError
              \/ statusError' /\ UNCHANGED vehicleStatus
           /\ \/ /\ r.id = "body" /\ statusStage' = "closures"
                 /\ calls' = Append(calls, [id |-> "closures"])
              \/ /\ r.id = "closures" /\ statusStage' = "climate"
                 /\ calls' = Append(calls, [id |-> "climate"])
              \/ /\ r.id = "climate" /\ statusStage' = "charge"
                 /\ calls' = Append(calls, [id |-> "charge"])
              \/ r.id = "charge" /\ statusStage' = "" /\ calls' = calls
           /\ UNCHANGED <<settling, commandBusy, overtaken>>
<1>1. r.id \in Leg /\ r.outcome # "error" /\ statusStage' = NextLeg(r.id)
  BY DEF LegFinished
<1>2. \/ /\ r.outcome = "ok"
         /\ vehicleStatus' = merge(r.id, vehicleStatus, r.reading)
         /\ UNCHANGED statusError
      \/ statusError' /\ UNCHANGED vehicleStatus
  BY DEF LegFinished
<1>3. IF r.id = "charge" THEN calls' = calls
      ELSE calls' = Append(calls, [id |-> NextLeg(r.id)])
  BY DEF LegFinished, runCommand
<1>4. UNCHANGED <<settling, commandBusy, overtaken>>
  BY DEF LegFinished
<1>5. /\ NextLeg("body") = "closures" /\ NextLeg("closures") = "climate"
      /\ NextLeg("climate") = "charge" /\ NextLeg("charge") = ""
  BY DEF NextLeg
<1> QED
  BY <1>1, <1>2, <1>3, <1>4, <1>5 DEF Leg

LEMMA DeliveredType ==
    ASSUME DataOK, Delivered
    PROVE  DataOK'
<1> DEFINE r == Head(replies)
<1>1. replies # <<>> /\ replies' = Tail(replies) /\ UNCHANGED <<car, telemetry>>
  BY DEF Delivered, vehicle
<1>2. r \in Reply /\ replies' \in Seq(Reply)
  BY <1>1, TailElements DEF DataOK
<1>3. LegFinished(r) \/ ToggleFinished(r) \/ StatusError(r) \/ CoverFinished(r)
  BY DEF Delivered
<1> HIDE DEF r
<1>4. CASE LegFinished(r)
  <2>1. r.reading \in [Field -> Value]
    BY <1>2 DEF Reply
  <2>2. /\ vehicleStatus' \in [Field -> Value \cup {"unknown"}]
        /\ vehicleStatus'["isClimateOn"] \in Value
        /\ vehicleStatus'["windowsOpen"] \in Value
    BY <1>4, <2>1, LegFinishedSteps, MergeType DEF DataOK
  <2>3. \A leg \in Leg : Append(calls, [id |-> leg]) \in Seq(Call)
    <3> SUFFICES ASSUME NEW leg \in Leg
                 PROVE  Append(calls, [id |-> leg]) \in Seq(Call)
      OBVIOUS
    <3>1. [id |-> leg] \in Call
      BY DEF Call
    <3> QED
      BY <3>1, AppendElements DEF DataOK
  <2>4. statusStage' \in Stage /\ calls' \in Seq(Call)
    BY <1>4, <2>3, LegFinishedSteps DEF Stage, Leg, DataOK
  <2> QED
    BY <1>1, <1>2, <2>2, <2>4 DEF DataOK
<1>5. CASE ToggleFinished(r) \/ StatusError(r) \/ CoverFinished(r)
  <2>1. /\ statusStage' \in {"", statusStage}
        /\ UNCHANGED <<vehicleStatus, calls>>
    BY <1>5 DEF ToggleFinished, StatusError, CoverFinished
  <2> QED
    BY <1>1, <1>2, <2>1 DEF DataOK, Stage
<1> QED
  BY <1>3, <1>4, <1>5

\* What the worker makes of a call.
LEMMA WorkerSteps ==
    ASSUME DataOK, WorkerCalls
    PROVE  \E call \in Call, m \in Reply :
             /\ calls # <<>> /\ call = Head(calls) /\ calls' = Tail(calls)
             /\ replies' = Append(replies, m) /\ m.id = call.id
             /\ call.id \in Leg => car' = car
             /\ m.reading \in {car, telemetry}
             /\ car' \in [Field -> Value]
             /\ overtaken' <=> overtaken \/ (call.id = "cover" /\ car' # car)
             /\ UNCHANGED <<telemetry, page, commandBusy>>
<1> DEFINE call == Head(calls)
           done == IF call.id \in Leg \/ call.set.field = "none" THEN {car}
                   ELSE {car, [car EXCEPT ![call.set.field] = call.set.value]}
           reply(o) == [id |-> call.id, outcome |-> o,
                        reading |-> IF call.id = "body" THEN car ELSE telemetry]
<1>1. calls # <<>> /\ calls' = Tail(calls)
  BY DEF WorkerCalls
<1>2. call \in Call
  BY <1>1, TailElements DEF DataOK
<1>3. car' \in done
  BY DEF WorkerCalls
<1>4. PICK o \in Outcome : replies' = Append(replies, reply(o))
  BY DEF WorkerCalls
<1>5. overtaken' = (overtaken \/ (call.id = "cover" /\ car' # car))
  BY DEF WorkerCalls
<1>6. UNCHANGED <<telemetry, page, commandBusy>>
  BY DEF WorkerCalls
<1>7. call.id \in Leg \cup {"toggle", "cover"}
  BY <1>2 DEF Call
<1>8. reply(o) \in Reply
  BY <1>7 DEF Reply, DataOK
<1>9. call.id \notin Leg => call.set \in Setting
  BY <1>2 DEF Call
<1>10. car' \in [Field -> Value]
  <2>1. CASE call.id \in Leg \/ call.set.field = "none"
    BY <1>3, <2>1 DEF DataOK
  <2>2. CASE ~(call.id \in Leg \/ call.set.field = "none")
    <3>1. call.set.field \in Field /\ call.set.value \in Value
      BY <1>9, <2>2 DEF Setting
    <3> QED
      BY <1>3, <2>2, <3>1 DEF DataOK
  <2> QED
    BY <2>1, <2>2
<1>11. call.id \in Leg => car' = car
  BY <1>3
<1>12. reply(o).id = call.id /\ reply(o).reading \in {car, telemetry}
  OBVIOUS
<1> HIDE DEF call, reply
<1> QED
  BY <1>1, <1>2, <1>4, <1>5, <1>6, <1>8, <1>10, <1>11, <1>12 DEF call

LEMMA WorkerType ==
    ASSUME DataOK, WorkerCalls
    PROVE  DataOK'
<1>1. PICK call \in Call, m \in Reply :
        /\ calls # <<>> /\ calls' = Tail(calls)
        /\ replies' = Append(replies, m)
        /\ car' \in [Field -> Value]
        /\ UNCHANGED <<telemetry, page>>
  BY WorkerSteps
<1>2. calls' \in Seq(Call) /\ replies' \in Seq(Reply)
  BY <1>1, TailElements, AppendElements DEF DataOK
<1> QED
  BY <1>1, <1>2 DEF DataOK, page

LEMMA DataKept ==
    ASSUME DataOK, [Next]_vars
    PROVE  DataOK'
<1>1. CASE UNCHANGED vars
  BY <1>1 DEF DataOK, vars, vehicle, page, queues
<1>2. CASE CatchesUp
  BY <1>2 DEF CatchesUp, DataOK, page, queues
<1> QED
  BY <1>1, <1>2, ToggleType, OtherCallsType, RefreshersType, DeliveredType,
     WorkerType DEF Next, UserActs

LEMMA FlagsKept ==
    ASSUME FlagsOK, [Next]_vars
    PROVE  FlagsOK'
<1> USE DEF FlagsOK, page
<1>1. ASSUME NEW f \in Field, toggle(f)
      PROVE  FlagsOK'
  BY <1>1, Zenon DEF toggle
<1>2. CASE openTrunk
  BY <1>2, Zenon DEF openTrunk
<1>3. CASE RefreshTapped
  BY <1>3, Zenon DEF RefreshTapped, refreshStatus
<1>4. CASE onConfigLoaded
  BY <1>4, Zenon DEF onConfigLoaded, refreshStatus
<1>5. CASE settled
  BY <1>5, Zenon DEF settled, refreshStatus
<1>6. CASE runCoverCommand
  BY <1>6, Zenon DEF runCoverCommand
<1>7. CASE Delivered
  <2>1. visible' = visible
    BY <1>7 DEF Delivered
  <2>2. PICK r : \/ LegFinished(r) \/ ToggleFinished(r)
                 \/ StatusError(r) \/ CoverFinished(r)
    BY <1>7 DEF Delivered
  <2>3. CASE LegFinished(r)
    BY <2>1, <2>3, Zenon DEF LegFinished
  <2>4. CASE ToggleFinished(r)
    BY <2>1, <2>4, Zenon DEF ToggleFinished
  <2>5. CASE StatusError(r)
    BY <2>1, <2>5, Zenon DEF StatusError
  <2>6. CASE CoverFinished(r)
    BY <2>1, <2>6, Zenon DEF CoverFinished
  <2> QED
    BY <2>2, <2>3, <2>4, <2>5, <2>6
<1>8. CASE WorkerCalls
  <2>1. overtaken' \in BOOLEAN
    BY <1>8, Zenon DEF WorkerCalls
  <2>2. UNCHANGED <<visible, updated, statusError, settling, commandBusy>>
    BY <1>8 DEF WorkerCalls
  <2> QED
    BY <2>1, <2>2, Zenon
<1>9. CASE CatchesUp
  BY <1>9, Zenon DEF CatchesUp
<1>10. CASE UNCHANGED vars
  BY <1>10 DEF vars
<1> QED
  BY <1>1, <1>2, <1>3, <1>4, <1>5, <1>6, <1>7, <1>8, <1>9, <1>10
     DEF Next, UserActs

\* Every variable keeps its type: a status is only unknown where the page is
\* made for it, and whatever is queued is a request or an answer.
THEOREM TypeCorrect == Spec => []TypeOK
<1>1. ASSUME Init
      PROVE  DataOK
  <2>1. car \in [Field -> Value] /\ telemetry \in [Field -> Value]
    BY <1>1 DEF Init
  <2>2. /\ vehicleStatus \in [Field -> Value \cup {"unknown"}]
        /\ vehicleStatus["isClimateOn"] \in Value
        /\ vehicleStatus["windowsOpen"] \in Value
    BY <1>1 DEF Init, emptyStatus, Field, Value
  <2>3. statusStage \in Stage
    BY <1>1 DEF Init, Stage
  <2>4. calls \in Seq(Call) /\ replies \in Seq(Reply)
    <3>1. \A S : <<>> \in Seq(S)
      OBVIOUS
    <3> QED
      BY <1>1, <3>1 DEF Init
  <2> QED
    BY <2>1, <2>2, <2>3, <2>4 DEF DataOK
<1>2. Init => FlagsOK
  BY Zenon DEF Init, FlagsOK
<1>3. Spec => [](DataOK /\ FlagsOK)
  BY <1>1, <1>2, DataKept, FlagsKept, PTL DEF Spec
<1>4. DataOK /\ FlagsOK => TypeOK
  BY TypeParts
<1> QED
  BY <1>3, <1>4, PTL

-----------------------------------------------------------------------------
(* One request of the page.                                                *)

\* While the page waits, one message is its own, on its way to the worker or
\* back, and it is for the stage the page is at.
OneInv ==
    IF statusStage = "" THEN Silent(calls) /\ Silent(replies)
    ELSE \/ Alone(calls, statusStage) /\ Silent(replies)
         \/ Silent(calls) /\ Alone(replies, statusStage)

\* A request that a page at rest makes is the one it waits for.
LEMMA AskedOnce ==
    ASSUME DataOK, OneInv, statusStage = "", NEW m \in Call,
           m.id # "cover", m.id # "",
           statusStage' = m.id, calls' = Append(calls, m), replies' = replies
    PROVE  OneInv'
<1>1. Silent(calls) /\ Silent(replies)
  BY DEF OneInv
<1>2. Alone(Append(calls, m), m.id)
  BY <1>1, AppendAsks DEF DataOK
<1> QED
  BY <1>1, <1>2 DEF OneInv

\* An answer to the page is the one it waits for, and was all there was.
LEMMA AnswerIsAwaited ==
    ASSUME DataOK, OneInv, replies # <<>>, Head(replies).id # "cover"
    PROVE  /\ Head(replies).id = statusStage
           /\ Silent(calls) /\ Silent(Tail(replies))
<1>1. ~Silent(replies)
  BY TailAsks DEF DataOK
<1>2. Silent(calls) /\ Alone(replies, statusStage)
  BY <1>1 DEF OneInv
<1> QED
  BY <1>2, TailAsks DEF DataOK

\* So is a call that the worker takes for the page.
LEMMA CallIsAwaited ==
    ASSUME DataOK, OneInv, calls # <<>>, Head(calls).id # "cover"
    PROVE  /\ Head(calls).id = statusStage /\ statusStage # ""
           /\ Silent(Tail(calls)) /\ Silent(replies)
<1>1. ~Silent(calls)
  BY TailAsks DEF DataOK
<1>2. statusStage # "" /\ Silent(replies) /\ Alone(calls, statusStage)
  BY <1>1 DEF OneInv
<1> QED
  BY <1>2, TailAsks DEF DataOK

LEMMA ToggleOne ==
    ASSUME DataOK, OneInv, \/ \E f \in Field : toggle(f)
                           \/ openTrunk
    PROVE  OneInv'
<1>1. PICK set \in Setting :
        calls' = Append(calls, [id |-> "toggle", set |-> set])
  <2>1. [field |-> "none"] \in Setting
    BY DEF Setting
  <2>2. ASSUME NEW f \in Field, NEW v \in {"on", "off"}
        PROVE  [field |-> f, value |-> v] \in Setting
    BY <2>2 DEF Setting, Value
  <2> QED
    BY <2>1, <2>2 DEF toggle, openTrunk, runCommand
<1>2. [id |-> "toggle", set |-> set] \in Call
  BY DEF Call
<1>3. statusStage = "" /\ statusStage' = "toggle" /\ replies' = replies
  BY DEF toggle, openTrunk
<1> QED
  BY <1>1, <1>2, <1>3, AskedOnce

LEMMA CoverOne ==
    ASSUME DataOK, OneInv, runCoverCommand
    PROVE  OneInv'
<1>1. PICK set \in Setting :
        calls' = Append(calls, [id |-> "cover", set |-> set])
  <2>1. /\ [field |-> "none"] \in Setting
        /\ [field |-> "locked", value |-> "on"] \in Setting
    BY DEF Setting, Field, Value
  <2> QED
    BY <2>1 DEF runCoverCommand, runCommand
<1> DEFINE m == [id |-> "cover", set |-> set]
<1>2. m \in Call /\ m.id = "cover"
  BY DEF Call
<1> HIDE DEF m
<1>3. /\ Silent(calls) => Silent(Append(calls, m))
      /\ Alone(calls, statusStage) => Alone(Append(calls, m), statusStage)
  BY <1>2, AppendAsks DEF DataOK
<1>4. UNCHANGED <<statusStage, replies>> /\ calls' = Append(calls, m)
  BY <1>1 DEF runCoverCommand, page, m
<1> QED
  BY <1>3, <1>4 DEF OneInv

LEMMA RefreshOne ==
    ASSUME DataOK, OneInv, RefreshTapped \/ onConfigLoaded \/ settled
    PROVE  OneInv'
<1>1. PICK hasty : refreshStatus(hasty)
  BY DEF RefreshTapped, onConfigLoaded, settled
<1>2. replies' = replies
  BY DEF RefreshTapped, onConfigLoaded, settled
<1>3. [id |-> "body"] \in Call
  BY DEF Call, Leg
<1>4. CASE /\ statusStage = "" /\ statusStage' = "body"
           /\ calls' = Append(calls, [id |-> "body"])
  BY <1>2, <1>3, <1>4, AskedOnce
<1>5. CASE UNCHANGED <<statusStage, calls>>
  BY <1>2, <1>5 DEF OneInv
<1> QED
  BY <1>1, <1>4, <1>5, RefreshSteps

LEMMA DeliveredOne ==
    ASSUME DataOK, OneInv, Delivered
    PROVE  OneInv'
<1> DEFINE r == Head(replies)
<1>1. replies # <<>> /\ replies' = Tail(replies)
  BY DEF Delivered
<1>2. LegFinished(r) \/ ToggleFinished(r) \/ StatusError(r) \/ CoverFinished(r)
  BY DEF Delivered
<1>3. r.id # "cover" => Silent(calls) /\ Silent(replies')
  BY <1>1, AnswerIsAwaited
<1>4. r.id = "cover" =>
        /\ Silent(replies) => Silent(replies')
        /\ Alone(replies, statusStage) => Alone(replies', statusStage)
  BY <1>1, TailAsks DEF DataOK
<1> HIDE DEF r
<1>5. CASE LegFinished(r)
  <2>1. Silent(calls) /\ Silent(replies')
    BY <1>3, <1>5 DEF LegFinished, Leg
  <2>2. CASE statusStage' = "" /\ calls' = calls
    BY <2>1, <2>2 DEF OneInv
  <2>3. ASSUME NEW leg \in Leg, statusStage' = leg,
               calls' = Append(calls, [id |-> leg])
        PROVE  OneInv'
    <3> DEFINE m == [id |-> leg]
    <3>1. m \in Call /\ m.id = leg /\ leg # "cover" /\ leg # ""
      BY DEF Call, Leg
    <3> HIDE DEF m
    <3>2. Alone(Append(calls, m), m.id)
      BY <2>1, <3>1, AppendAsks DEF DataOK
    <3>3. calls' = Append(calls, m) /\ statusStage' = m.id
      BY <2>3, <3>1 DEF m
    <3> QED
      BY <2>1, <3>1, <3>2, <3>3 DEF OneInv
  <2> QED
    BY <1>5, <2>2, <2>3, LegFinishedSteps DEF Leg
<1>6. CASE ToggleFinished(r) \/ StatusError(r)
  <2>1. r.id # "cover" /\ statusStage' = "" /\ calls' = calls
    BY <1>6 DEF ToggleFinished, StatusError
  <2> QED
    BY <1>3, <2>1 DEF OneInv
<1>7. CASE CoverFinished(r)
  <2>1. r.id = "cover" /\ UNCHANGED <<statusStage, calls>>
    BY <1>7 DEF CoverFinished
  <2> QED
    BY <1>4, <2>1 DEF OneInv
<1> QED
  BY <1>2, <1>5, <1>6, <1>7

LEMMA WorkerOne ==
    ASSUME DataOK, OneInv, WorkerCalls
    PROVE  OneInv'
<1>1. PICK call \in Call, m \in Reply :
        /\ calls # <<>> /\ call = Head(calls) /\ calls' = Tail(calls)
        /\ replies' = Append(replies, m) /\ m.id = call.id
        /\ UNCHANGED page
  BY WorkerSteps
<1>2. statusStage' = statusStage
  BY <1>1 DEF page
<1>3. CASE call.id = "cover"
  <2>1. /\ Silent(calls) => Silent(calls')
        /\ Alone(calls, statusStage) => Alone(calls', statusStage)
    BY <1>1, <1>3, TailAsks DEF DataOK
  <2>2. /\ Silent(replies) => Silent(replies')
        /\ Alone(replies, statusStage) => Alone(replies', statusStage)
    BY <1>1, <1>3, AppendAsks DEF DataOK
  <2> QED
    BY <1>2, <2>1, <2>2 DEF OneInv
<1>4. CASE call.id # "cover"
  <2>1. /\ m.id = statusStage /\ statusStage # ""
        /\ Silent(calls') /\ Silent(replies)
    BY <1>1, <1>4, CallIsAwaited
  <2>2. Alone(replies', m.id)
    BY <1>1, <1>4, <2>1, AppendAsks DEF DataOK
  <2> QED
    BY <1>2, <2>1, <2>2 DEF OneInv
<1> QED
  BY <1>3, <1>4

LEMMA OneKept ==
    ASSUME DataOK, OneInv, [Next]_vars
    PROVE  OneInv'
<1>1. CASE UNCHANGED vars \/ CatchesUp
  <2>1. UNCHANGED <<statusStage, calls, replies>>
    BY <1>1 DEF CatchesUp, vars, page, queues
  <2> QED
    BY <2>1 DEF OneInv
<1> QED
  BY <1>1, ToggleOne, CoverOne, RefreshOne, DeliveredOne, WorkerOne
     DEF Next, UserActs

LEMMA OneStays == Spec => [](DataOK /\ OneInv)
<1>1. ASSUME Init
      PROVE  OneInv
  <2>1. statusStage = "" /\ calls = <<>> /\ replies = <<>>
    BY <1>1 DEF Init
  <2>2. Silent(<<>>)
    BY DEF Silent
  <2> QED
    BY <2>1, <2>2 DEF OneInv
<1>2. Spec => []DataOK
  BY TypeCorrect, TypeParts, PTL
<1> QED
  BY <1>1, <1>2, OneKept, PTL DEF Spec

\* The page has one request under way exactly while it says so: it never
\* stacks them (toggleLock and refreshStatus return early), and each of its
\* handlers takes the answer of the request it is for.
THEOREM PageAsksOnce == Spec => []OneStatusRequest
<1>1. ASSUME OneInv
      PROVE  OneStatusRequest
  <2>1. ASSUME NEW q
        PROVE  Silent(q) <=> Asked(q) = {}
    BY DEF Silent, Asked
  <2>2. ASSUME NEW q, Alone(q, statusStage)
        PROVE  /\ Asked(q) # {}
               /\ \A i, j \in Asked(q) : i = j /\ q[i].id = statusStage
    BY <2>2 DEF Alone, Asked
  <2> QED
    BY <1>1, <2>1, <2>2 DEF OneInv, OneStatusRequest
<1> QED
  BY <1>1, OneStays, PTL

-----------------------------------------------------------------------------
(* What is shown.                                                          *)

Shown(F) == \A f \in F : vehicleStatus[f] = car[f]
\* What the chain has read once it is at a leg.
ReadBy(leg) ==
    CASE leg = "body"     -> {}
      [] leg = "closures" -> {"locked"}
      [] leg = "climate"  -> {"locked", "windowsOpen"}
      [] leg = "charge"   -> Field

\* A chain that nothing got behind reads a vehicle that has settled, and what
\* it has read is shown unless a leg of it failed.
ChainIsFresh ==
    statusStage \in Leg /\ ~overtaken =>
      /\ telemetry = car /\ ~settling /\ Reads(replies, car)
      /\ ~statusError => Shown(ReadBy(statusStage))
\* A page at rest has read everything.
RestIsFresh ==
    AtRest /\ visible /\ updated /\ ~statusError /\ ~overtaken => Shown(Field)
FreshInv == ChainIsFresh /\ RestIsFresh

\* A leg that is answered adds what it reads.
LEMMA LegShows ==
    ASSUME DataOK, NEW leg \in Leg, Shown(ReadBy(leg)), car' = car,
           vehicleStatus' = merge(leg, vehicleStatus, car)
    PROVE  /\ leg = "body" => Shown(ReadBy("closures"))'
           /\ leg = "closures" => Shown(ReadBy("climate"))'
           /\ leg = "climate" => Shown(ReadBy("charge"))'
           /\ leg = "charge" => Shown(Field)'
<1>1. /\ ReadBy("body") = {} /\ ReadBy("closures") = {"locked"}
      /\ ReadBy("climate") = {"locked", "windowsOpen"}
      /\ ReadBy("charge") = Field
  BY DEF ReadBy
<1>2. CASE leg = "body"
  BY <1>1, <1>2 DEF Shown, DataOK, Field, merge, mergeBodyControllerState
<1>3. CASE leg = "closures"
  BY <1>1, <1>3 DEF Shown, DataOK, Field, merge, mergeClosuresState
<1>4. CASE leg = "climate"
  BY <1>1, <1>4 DEF Shown, DataOK, Field, merge, mergeClimateState
<1>5. CASE leg = "charge"
  BY <1>1, <1>5 DEF Shown, merge
<1> QED
  BY <1>2, <1>3, <1>4, <1>5 DEF Leg

LEMMA ActedFresh ==
    ASSUME FreshInv, \/ \E f \in Field : toggle(f)
                     \/ openTrunk
    PROVE  FreshInv'
<1>1. statusStage' = "toggle"
  BY DEF toggle, openTrunk
<1> QED
  BY <1>1 DEF FreshInv, ChainIsFresh, RestIsFresh, AtRest, Leg

\* A chain is started without anything behind it, or counts as overtaken.
LEMMA RefreshFresh ==
    ASSUME DataOK, OneInv, FreshInv, RefreshTapped \/ onConfigLoaded \/ settled
    PROVE  FreshInv'
<1>1. PICK hasty :
        /\ refreshStatus(hasty)
        /\ UNCHANGED <<car, telemetry, vehicleStatus, updated, replies>>
        /\ settling' => settling
        /\ ~hasty => telemetry = car /\ ~settling'
  <2>1. CASE RefreshTapped \/ onConfigLoaded
    <3>1. refreshStatus(settling \/ telemetry # car)
      BY <2>1 DEF RefreshTapped, onConfigLoaded
    <3>2. UNCHANGED <<car, telemetry, vehicleStatus, updated, replies, settling>>
      BY <2>1 DEF RefreshTapped, onConfigLoaded, vehicle
    <3> QED
      BY <3>1, <3>2
  <2>2. CASE settled
    <3>1. refreshStatus(FALSE) /\ telemetry = car /\ ~settling'
      BY <2>2 DEF settled
    <3>2. UNCHANGED <<car, telemetry, vehicleStatus, updated, replies>>
      BY <2>2 DEF settled, vehicle
    <3> QED
      BY <3>1, <3>2
  <2> QED
    BY <2>1, <2>2
<1>2. CASE /\ statusStage = "" /\ statusStage' = "body"
           /\ overtaken' = hasty
  <2>1. Reads(replies', car')
    BY <1>1, <1>2 DEF OneInv, Silent, Reads, Leg
  <2>2. Shown(ReadBy("body"))'
    BY DEF Shown, ReadBy
  <2>3. ~overtaken' => telemetry' = car' /\ ~settling'
    BY <1>1, <1>2
  <2> QED
    BY <1>2, <2>1, <2>2, <2>3 DEF FreshInv, ChainIsFresh, RestIsFresh, AtRest
<1>3. CASE /\ ~(visible' /\ statusStage = "")
           /\ UNCHANGED <<statusError, statusStage, calls, overtaken>>
  <2>1. RestIsFresh'
    BY <1>3 DEF RestIsFresh, AtRest
  <2>2. ChainIsFresh'
    BY <1>1, <1>3 DEF FreshInv, ChainIsFresh, Shown
  <2> QED
    BY <2>1, <2>2 DEF FreshInv
<1> QED
  BY <1>1, <1>2, <1>3, RefreshSteps

LEMMA CoverFresh ==
    ASSUME FreshInv, runCoverCommand
    PROVE  FreshInv'
BY DEF runCoverCommand, vehicle, page, FreshInv, ChainIsFresh, RestIsFresh,
       AtRest, Shown

LEMMA DeliveredFresh ==
    ASSUME DataOK, OneInv, FreshInv, Delivered
    PROVE  FreshInv'
<1> DEFINE r == Head(replies)
<1>1. replies # <<>> /\ replies' = Tail(replies)
  BY DEF Delivered
<1>2. UNCHANGED <<car, telemetry, visible>>
  BY DEF Delivered, vehicle
<1>3. LegFinished(r) \/ ToggleFinished(r) \/ StatusError(r) \/ CoverFinished(r)
  BY DEF Delivered
<1>4. r.id # "cover" => r.id = statusStage
  BY <1>1, AnswerIsAwaited
<1>5. Reads(replies, car) =>
        Reads(replies', car') /\ (r.id \in Leg => r.reading = car)
  BY <1>1, <1>2, TailAsks DEF DataOK
<1> HIDE DEF r
<1>6. CASE LegFinished(r)
  <2>1. r.id \in Leg /\ statusStage = r.id
    BY <1>4, <1>6 DEF LegFinished, Leg
  <2>2. UNCHANGED <<settling, overtaken>>
    BY <1>6, LegFinishedSteps
  <2>3. ASSUME ~overtaken
        PROVE  /\ telemetry' = car' /\ ~settling' /\ Reads(replies', car')
    BY <1>2, <1>5, <2>1, <2>2, <2>3 DEF FreshInv, ChainIsFresh
  <2>4. ASSUME ~overtaken, ~statusError'
        PROVE  /\ ~statusError
               /\ vehicleStatus' = merge(r.id, vehicleStatus, car)
    <3>1. r.reading = car
      BY <1>5, <2>1, <2>4 DEF FreshInv, ChainIsFresh
    <3> QED
      BY <1>6, <2>4, <3>1, LegFinishedSteps
  <2>5. ASSUME ~overtaken, ~statusError'
        PROVE  /\ r.id = "body" => Shown(ReadBy("closures"))'
               /\ r.id = "closures" => Shown(ReadBy("climate"))'
               /\ r.id = "climate" => Shown(ReadBy("charge"))'
               /\ r.id = "charge" => Shown(Field)'
    <3>1. Shown(ReadBy(r.id))
      BY <2>1, <2>4, <2>5 DEF FreshInv, ChainIsFresh
    <3> QED
      BY <1>2, <2>1, <2>4, <2>5, <3>1, LegShows
  <2>6. \/ r.id = "body" /\ statusStage' = "closures"
        \/ r.id = "closures" /\ statusStage' = "climate"
        \/ r.id = "climate" /\ statusStage' = "charge"
        \/ r.id = "charge" /\ statusStage' = ""
    BY <1>6, LegFinishedSteps
  <2>7. ChainIsFresh'
    BY <2>2, <2>3, <2>5, <2>6 DEF ChainIsFresh, Leg
  <2>8. RestIsFresh'
    BY <2>2, <2>5, <2>6 DEF RestIsFresh, AtRest
  <2> QED
    BY <2>7, <2>8 DEF FreshInv
<1>7. CASE ToggleFinished(r)
  BY <1>7 DEF ToggleFinished, FreshInv, ChainIsFresh, RestIsFresh, AtRest, Leg
<1>8. CASE StatusError(r)
  BY <1>8 DEF StatusError, FreshInv, ChainIsFresh, RestIsFresh, AtRest, Leg
<1>9. CASE CoverFinished(r)
  <2>1. UNCHANGED <<vehicleStatus, updated, statusStage, statusError, settling,
                    overtaken>>
    BY <1>9 DEF CoverFinished
  <2> QED
    BY <1>2, <1>5, <2>1 DEF FreshInv, ChainIsFresh, RestIsFresh, AtRest, Shown
<1> QED
  BY <1>3, <1>6, <1>7, <1>8, <1>9

\* A call of the page that may change the vehicle is a quick action, and then
\* the page is at no leg of the chain and not at rest.
LEMMA WorkerFresh ==
    ASSUME DataOK, OneInv, FreshInv, WorkerCalls
    PROVE  FreshInv'
<1>1. PICK call \in Call, m \in Reply :
        /\ calls # <<>> /\ call = Head(calls)
        /\ replies' = Append(replies, m) /\ m.id = call.id
        /\ call.id \in Leg => car' = car
        /\ m.reading \in {car, telemetry}
        /\ overtaken' <=> overtaken \/ (call.id = "cover" /\ car' # car)
        /\ UNCHANGED <<telemetry, page>>
  BY WorkerSteps
<1>2. UNCHANGED <<visible, vehicleStatus, updated, statusStage, statusError,
                  settling>>
  BY <1>1 DEF page
<1>3. call.id # "cover" => call.id = statusStage /\ statusStage # ""
  BY <1>1, CallIsAwaited
<1>4. ASSUME ~overtaken', statusStage \in Leg \cup {""}
      PROVE  ~overtaken /\ car' = car
  <2>1. CASE call.id = "cover"
    BY <1>1, <1>4, <2>1
  <2>2. CASE call.id # "cover"
    BY <1>1, <1>3, <1>4, <2>2
  <2> QED
    BY <2>1, <2>2
<1>5. ASSUME Reads(replies, car), telemetry = car
      PROVE  Reads(replies', car)
  BY <1>1, <1>5, AppendAsks DEF DataOK
<1>6. ChainIsFresh'
  BY <1>1, <1>2, <1>4, <1>5 DEF FreshInv, ChainIsFresh, Shown
<1>7. RestIsFresh'
  BY <1>2, <1>4 DEF FreshInv, RestIsFresh, AtRest, Shown
<1> QED
  BY <1>6, <1>7 DEF FreshInv

LEMMA FreshKept ==
    ASSUME DataOK, OneInv, FreshInv, [Next]_vars
    PROVE  FreshInv'
<1>1. CASE CatchesUp
  BY <1>1 DEF CatchesUp, page, queues, FreshInv, ChainIsFresh, RestIsFresh,
              AtRest, Shown
<1>2. CASE UNCHANGED vars
  BY <1>2 DEF vars, vehicle, page, queues, FreshInv, ChainIsFresh, RestIsFresh,
              AtRest, Shown
<1> QED
  BY <1>1, <1>2, ActedFresh, RefreshFresh, CoverFresh, DeliveredFresh,
     WorkerFresh DEF Next, UserActs

\* Whatever quick actions showed in advance, a page at rest shows the vehicle
\* as it is: toggleSettleTimer starts the chain once the vehicle has settled,
\* nothing else the page does gets between its legs, and a leg that fails is
\* told (statusError).
THEOREM RestShowsCar == Spec => []AtRestShowsCar
<1>1. ASSUME Init
      PROVE  FreshInv
  <2>1. statusStage = "" /\ ~updated
    BY <1>1 DEF Init
  <2> QED
    BY <2>1 DEF FreshInv, ChainIsFresh, RestIsFresh, Leg
<1>2. Spec => [](DataOK /\ OneInv /\ FreshInv)
  <2>1. Spec => [](DataOK /\ OneInv)
    BY OneStays
  <2> QED
    BY <1>1, <2>1, FreshKept, PTL DEF Spec
<1>3. FreshInv => AtRestShowsCar
  BY QuickActions DEF FreshInv, RestIsFresh, AtRestShowsCar, Shown
<1> QED
  BY <1>2, <1>3, PTL
=============================================================================
