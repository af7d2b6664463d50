------------------------------ MODULE Dashboard ------------------------------
(***************************************************************************)
(* The front page (app/qml/pages/FirstPage.qml) and the cover: quick       *)
(* actions that show their effect before they have one, the chain of       *)
(* requests that reads the vehicle's state, and the timer between the two. *)
(* Requests go to the worker thread in a queue, and its signals come back  *)
(* in another.                                                             *)
(*                                                                         *)
(* Of the status the values that quick actions toggle are kept, as "on"    *)
(* and "off" ("on" is locked).  VCSEC carries out quick actions and reads  *)
(* the locks at once; Infotainment reads telemetry, which lags behind.     *)
(* An operator named X_Suffix is a variant of X with a plausible mistake   *)
(* that no action uses.                                                    *)
(***************************************************************************)
EXTENDS Naturals, Sequences

CONSTANT Toggles  \* the quick actions the user uses

Field == {"locked", "isClimateOn", "windowsOpen"}
Value == {"on", "off"}

ASSUME QuickActions == Toggles \subseteq Field

VARIABLES
    car,          \* the vehicle
    telemetry,    \* what Infotainment takes it for
    visible,      \* the page has a VIN and a key, and so shows its buttons
    vehicleStatus,
    updated,      \* vehicleStatus.updatedAt is set
    statusStage,
    statusError,  \* statusError is not empty
    settling,     \* toggleSettleTimer runs
    commandBusy,  \* CoverPage.commandBusy
    calls,        \* requests queued for the worker
    replies,      \* its signals, queued for the pages
    overtaken     \* history: the vehicle or the page was acted on behind the
                  \* back of the last quick action (see AtRestShowsCar)

vehicle == <<car, telemetry>>
page    == <<visible, vehicleStatus, updated, statusStage, statusError, settling>>
queues  == <<calls, replies>>
vars    == <<vehicle, page, commandBusy, queues, overtaken>>

Leg     == {"body", "closures", "climate", "charge"}
Stage   == Leg \cup {"", "toggle"}
Outcome == {"ok", "failed", "error"}  \* commandFinished or commandError

\* A request, for a reading unless it sets a field of the vehicle, or none
\* that is modelled.
Setting == [field : Field, value : Value] \cup {[field |-> "none"]}
Call    == [id : Leg] \cup [id : {"toggle", "cover"}, set : Setting]
Reply   == [id : Leg \cup {"toggle", "cover"}, outcome : Outcome,
            reading : [Field -> Value]]

TypeOK ==
    /\ car \in [Field -> Value] /\ telemetry \in [Field -> Value]
    /\ visible \in BOOLEAN /\ updated \in BOOLEAN
    /\ vehicleStatus \in [Field -> Value \cup {"unknown"}]
    /\ vehicleStatus["isClimateOn"] \in Value
    /\ vehicleStatus["windowsOpen"] \in Value
    /\ statusStage \in Stage
    /\ statusError \in BOOLEAN /\ settling \in BOOLEAN
    /\ commandBusy \in BOOLEAN /\ overtaken \in BOOLEAN
    /\ calls \in Seq(Call) /\ replies \in Seq(Reply)

emptyStatus == [f \in Field |-> IF f = "locked" THEN "unknown" ELSE "off"]

Init ==
    /\ car \in {c \in [Field -> Value] : \A f \in Field \ Toggles : c[f] = "off"}
    /\ telemetry = car
    /\ visible = FALSE /\ vehicleStatus = emptyStatus /\ updated = FALSE
    /\ statusStage = "" /\ statusError = FALSE /\ settling = FALSE
    /\ commandBusy = FALSE
    /\ calls = <<>> /\ replies = <<>>
    /\ overtaken = FALSE

-----------------------------------------------------------------------------
(* VehicleState.js: a reading is merged into the status.                   *)

mergeClosuresState_Raw(s, r) ==
    [s EXCEPT !["locked"] = IF r["locked"] = "on" THEN "on" ELSE "unknown",
              !["windowsOpen"] = IF r["windowsOpen"] = "on" THEN "on" ELSE "unknown"]

mergeBodyControllerState(s, r) == [s EXCEPT !["locked"] = r["locked"]]
mergeClosuresState(s, r) ==
    [s EXCEPT !["locked"] = r["locked"], !["windowsOpen"] = r["windowsOpen"]]
mergeClimateState(s, r) == [s EXCEPT !["isClimateOn"] = r["isClimateOn"]]

merge(leg, s, r) ==
    CASE leg = "body"     -> mergeBodyControllerState(s, r)
      [] leg = "closures" -> mergeClosuresState(s, r)
      [] leg = "climate"  -> mergeClimateState(s, r)
      [] leg = "charge"   -> s  \* mergeChargeState: no field of these

-----------------------------------------------------------------------------
(* FirstPage.                                                              *)

runCommand(call) == calls' = Append(calls, call)

Not(v) == IF v \in {"unknown", "off"} THEN "on" ELSE "off"
optimistic(f) == vehicleStatus' = [vehicleStatus EXCEPT ![f] = Not(@)]

\* Nothing, if the page has nothing to ask for or waits for an answer.  A hasty
\* one may read telemetry that lags behind.
refreshStatus(hasty) ==
    IF visible' /\ statusStage = ""
    THEN /\ statusError' = FALSE /\ statusStage' = "body"
         /\ runCommand([id |-> "body"])
         /\ overtaken' = hasty
    ELSE UNCHANGED <<statusError, statusStage, calls, overtaken>>

\* toggleLock, toggleClimate, toggleWindows.  Unless the doors are known to be
\* unlocked, toggleLock unlocks them.
toggle_Stacking(f) ==
    /\ visible /\ f \in Toggles
    /\ optimistic(f) /\ statusStage' = "toggle"
    /\ runCommand([id |-> "toggle",
                   set |-> [field |-> f,
                            value |-> IF vehicleStatus[f] = "off" THEN "on" ELSE "off"]])
    /\ UNCHANGED <<vehicle, visible, updated, statusError, settling, commandBusy,
                   replies, overtaken>>

toggle(f) ==
    /\ visible /\ statusStage = "" /\ f \in Toggles
    /\ optimistic(f) /\ statusStage' = "toggle"
    /\ runCommand([id |-> "toggle",
                   set |-> [field |-> f,
                            value |-> IF vehicleStatus[f] = "off" THEN "on" ELSE "off"]])
    /\ UNCHANGED <<vehicle, visible, updated, statusError, settling, commandBusy,
                   replies, overtaken>>

\* openFrunk, openTrunk: nothing to show.
openTrunk ==
    /\ visible /\ statusStage = ""
    /\ statusStage' = "toggle"
    /\ runCommand([id |-> "toggle", set |-> [field |-> "none"]])
    /\ UNCHANGED <<vehicle, visible, vehicleStatus, updated, statusError, settling,
                   commandBusy, replies, overtaken>>

\* "Refresh Status" of the menu.
RefreshTapped ==
    /\ visible /\ UNCHANGED visible /\ refreshStatus(settling \/ telemetry # car)
    /\ UNCHANGED <<vehicle, vehicleStatus, updated, settling, commandBusy, replies>>

\* onConfigLoaded: at start, when the page is shown again, and at any time
\* another page has asked for the configuration.
onConfigLoaded ==
    /\ visible' \in BOOLEAN /\ refreshStatus(settling \/ telemetry # car)
    /\ UNCHANGED <<vehicle, vehicleStatus, updated, settling, commandBusy, replies>>

\* toggleSettleTimer has run 2.5 s.  It is taken to be long enough for
\* telemetry to catch up.
settled ==
    /\ settling /\ telemetry = car
    /\ settling' = FALSE
    /\ UNCHANGED visible /\ refreshStatus(FALSE)
    /\ UNCHANGED <<vehicle, vehicleStatus, updated, commandBusy, replies>>

NextLeg(leg) == CASE leg = "body" -> "closures" [] leg = "closures" -> "climate"
                [] leg = "climate" -> "charge" [] leg = "charge" -> ""

\* onCommandFinished for a leg of the chain: on with the next one, whatever
\* became of this one.
LegFinished(r) ==
    /\ r.id \in Leg /\ r.outcome # "error"
    /\ IF r.outcome = "ok"
       THEN /\ vehicleStatus' = merge(r.id, vehicleStatus, r.reading)
            /\ updated' = TRUE /\ UNCHANGED statusError
       ELSE statusError' = TRUE /\ UNCHANGED <<vehicleStatus, updated>>
    /\ statusStage' = NextLeg(r.id)
    /\ IF r.id = "charge" THEN UNCHANGED calls ELSE runCommand([id |-> NextLeg(r.id)])
    /\ UNCHANGED <<settling, commandBusy, overtaken>>

\* onCommandFinished for a quick action: it is confirmed later.
ToggleFinished_AtOnce(r) ==
    /\ r.id = "toggle" /\ r.outcome # "error"
    /\ statusStage' = "body" /\ statusError' = FALSE /\ runCommand([id |-> "body"])
    /\ UNCHANGED <<vehicleStatus, updated, settling, commandBusy, overtaken>>

ToggleFinished(r) ==
    /\ r.id = "toggle" /\ r.outcome # "error"
    /\ statusStage' = "" /\ settling' = TRUE
    /\ UNCHANGED <<vehicleStatus, updated, statusError, commandBusy, calls, overtaken>>

\* onCommandError: what was shown in advance is confirmed, too.
StatusError_KeepsStage(r) ==
    /\ r.id # "cover" /\ r.outcome = "error"
    /\ statusError' = TRUE
    /\ settling' = (settling \/ r.id = "toggle")
    /\ UNCHANGED <<vehicleStatus, updated, statusStage, commandBusy, calls, overtaken>>

StatusError(r) ==
    /\ r.id # "cover" /\ r.outcome = "error"
    /\ statusStage' = "" /\ statusError' = TRUE
    /\ settling' = (settling \/ r.id = "toggle")
    /\ UNCHANGED <<vehicleStatus, updated, commandBusy, calls, overtaken>>

-----------------------------------------------------------------------------
(* CoverPage.                                                              *)

runCoverCommand ==
    /\ ~commandBusy /\ visible
    /\ commandBusy' = TRUE
    /\ \E set \in {[field |-> "locked", value |-> "on"], [field |-> "none"]} :
         runCommand([id |-> "cover", set |-> set])
    /\ UNCHANGED <<vehicle, page, replies, overtaken>>

CoverFinished(r) ==
    /\ r.id = "cover"
    /\ commandBusy' = FALSE
    /\ UNCHANGED <<vehicleStatus, updated, statusStage, statusError, settling, calls,
                   overtaken>>

-----------------------------------------------------------------------------
(* Around the pages.                                                       *)

\* A signal of the worker is delivered to the pages.
Delivered ==
    /\ replies # <<>> /\ replies' = Tail(replies)
    /\ LET r == Head(replies) IN
       LegFinished(r) \/ ToggleFinished(r) \/ StatusError(r) \/ CoverFinished(r)
    /\ UNCHANGED <<vehicle, visible>>

\* The worker makes a call of the core.  A command may be carried out or not
\* whatever its outcome, and a reading is that of VCSEC or of Infotainment.
WorkerCalls ==
    /\ calls # <<>> /\ calls' = Tail(calls)
    /\ LET call == Head(calls)
           done == IF call.id \in Leg \/ call.set.field = "none" THEN {car}
                   ELSE {car, [car EXCEPT ![call.set.field] = call.set.value]} IN
       /\ car' \in done
       /\ \E outcome \in Outcome :
            replies' = Append(replies,
                [id |-> call.id, outcome |-> outcome,
                 reading |-> IF call.id = "body" THEN car ELSE telemetry])
       /\ overtaken' = (overtaken \/ (call.id = "cover" /\ car' # car))
    /\ UNCHANGED <<telemetry, page, commandBusy>>

\* Infotainment catches up with the vehicle.
CatchesUp ==
    /\ telemetry # car /\ telemetry' = car
    /\ UNCHANGED <<car, page, commandBusy, queues, overtaken>>

UserActs ==
    \/ \E f \in Field : toggle(f)
    \/ openTrunk \/ RefreshTapped \/ onConfigLoaded \/ runCoverCommand

Next == UserActs \/ settled \/ Delivered \/ WorkerCalls \/ CatchesUp

Spec == Init /\ [][Next]_vars
Fairness ==
    WF_vars(settled) /\ WF_vars(Delivered) /\ WF_vars(WorkerCalls) /\ WF_vars(CatchesUp)
FairSpec == Spec /\ Fairness
=============================================================================
