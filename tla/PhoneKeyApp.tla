----------------------------- MODULE PhoneKeyApp ----------------------------
(***************************************************************************)
(* The application around the core (app/src/teslaclient.cpp): CoreWorker,  *)
(* the one thread that calls the core, and what TeslaClient makes of its   *)
(* signals: phoneKeyActive, which keeps the phone awake, and the status    *)
(* the pages and the cover show.  Signals are delivered in order, so the   *)
(* state of TeslaClient is that after the last one emitted.                *)
(***************************************************************************)
EXTENDS PhoneKeyCore

CONSTANT Worker  \* the worker thread

ASSUME OneWorker == Callers = {Worker}

VARIABLES
    todo,       \* what the worker does before it looks at its queue again
    keepAwake,  \* m_phoneKeyActive
    status,     \* m_phoneKeyStatus
    suspended,  \* m_suspended
    wake        \* a handleResume is queued

uiVars  == <<todo, keepAwake, status, suspended, wake>>
appVars == <<vars, uiVars>>

UserCalls == {"run", "share", "generate_key", "replace_key", "pair", "set_config"}

AppType ==
    /\ todo \in {"nothing", "refresh", "poll"}
    /\ keepAwake \in BOOLEAN
    /\ status \in {"none", "inactive", "scanning", "connected", "stopped"}
    /\ suspended \in BOOLEAN
    /\ wake \in BOOLEAN

AppInit ==
    /\ Init
    /\ todo = "nothing" /\ keepAwake = FALSE /\ status = "none"
    /\ suspended = FALSE /\ wake = FALSE

-----------------------------------------------------------------------------
(* TeslaClient's slots.                                                    *)

onPhoneKeyStarted(ok) ==
    /\ keepAwake' = ok
    /\ status' = IF ok THEN "scanning" ELSE "inactive"

onPhoneKeyEvent_KeepsActive(kind) ==
    /\ keepAwake' = (keepAwake \/ kind \in {"near", "restarted"})
    /\ status' = CASE kind = "near" -> "connected"
                   [] kind = "stopped" -> "stopped"
                   [] OTHER -> "scanning"

onPhoneKeyEvent(kind) ==
    /\ keepAwake' = (kind # "stopped" /\ (keepAwake \/ kind \in {"near", "restarted"}))
    /\ status' = CASE kind = "near" -> "connected"
                   [] kind = "stopped" -> "stopped"
                   [] OTHER -> "scanning"

-----------------------------------------------------------------------------
(* CoreWorker's slots: one call of the core, then what follows on it.      *)

Free == todo = "nothing" /\ pc[Worker] = "idle"

\* A call from QML.
UserCall ==
    /\ Free
    /\ Begins(Worker) /\ op'[Worker] \in UserCalls
    /\ UNCHANGED uiVars

\* pollPhoneKeyEvents, when its timer ticks.
PollTick == Free /\ PollBegins(Worker) /\ UNCHANGED uiVars

\* It goes on until no event is left.
PollAgain == todo = "poll" /\ PollBegins(Worker) /\ UNCHANGED uiVars

handleResume ==
    /\ Free /\ wake /\ ResumeBegins(Worker)
    /\ wake' = FALSE /\ UNCHANGED <<todo, keepAwake, status, suspended>>

shutdown == Free /\ DropBegins(Worker) /\ UNCHANGED uiVars

refreshPhoneKeyState ==
    todo = "refresh" /\ StartBegins(Worker) /\ UNCHANGED uiVars

Follows_OnSuccess(o, r) ==
    CASE o \in {"generate_key", "replace_key", "pair", "set_config", "resume"} ->
           IF r = "ok" THEN "refresh" ELSE "nothing"
      [] o = "poll" -> IF r = "none" THEN "nothing" ELSE "poll"
      [] OTHER -> "nothing"

\* generateKey and pair refresh whatever the outcome, setConfig when it is ok.
Follows(o, r) ==
    CASE o \in {"generate_key", "replace_key", "pair", "resume"} -> "refresh"
      [] o = "set_config" -> IF r = "ok" THEN "refresh" ELSE "nothing"
      [] o = "poll" -> IF r = "none" THEN "nothing" ELSE "poll"
      [] OTHER -> "nothing"

CallReturns ==
    /\ Returns(Worker)
    /\ LET o == op[Worker]  r == out[Worker] IN
       /\ todo' = Follows(o, r)
       /\ CASE o = "start" -> onPhoneKeyStarted(r = "ok")
            [] o = "poll" /\ r # "none" -> onPhoneKeyEvent(r)
            [] OTHER -> UNCHANGED <<keepAwake, status>>
    /\ UNCHANGED <<suspended, wake>>

-----------------------------------------------------------------------------
(* The application's life.                                                 *)

\* The constructor queues initialize: core_new, then refreshPhoneKeyState.
Launch ==
    /\ Boot
    /\ todo' = "refresh" /\ keepAwake' = FALSE /\ status' = "none"
    /\ suspended' \in BOOLEAN /\ wake' = FALSE

\* onApplicationStateChanged.  Hidden and inactive change nothing.  Of several
\* calls of handleResume in the queue only one is kept: the application can be
\* suspended and activated again as soon as it is taken.
Suspends ==
    /\ up /\ ~suspended /\ suspended' = TRUE
    /\ UNCHANGED <<vars, todo, keepAwake, status, wake>>
Activates ==
    /\ up /\ suspended /\ suspended' = FALSE /\ wake' = TRUE
    /\ UNCHANGED <<vars, todo, keepAwake, status>>

WorkerSteps ==
    \/ PollAgain \/ refreshPhoneKeyState \/ CallReturns
    \/ (GoesOn(Worker) \/ Client) /\ UNCHANGED uiVars

AppNext ==
    \/ UserCall \/ PollTick \/ handleResume \/ shutdown
    \/ WorkerSteps
    \/ (ChildSteps \/ RetryComesDue \/ Crash) /\ UNCHANGED uiVars
    \/ Launch \/ Suspends \/ Activates

AppSpec == AppInit /\ [][AppNext]_appVars
=============================================================================
