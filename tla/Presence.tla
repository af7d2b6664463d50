------------------------------- MODULE Presence -------------------------------
(***************************************************************************)
(* How the presence loop of the session child (helper/session/main.go)     *)
(* judges whether the vehicle is near: presenceStep with its counter and   *)
(* its clock, and the loop's own updates of the same locals around it.     *)
(* SessionChild has the loop's locking and its links, without time.        *)
(*                                                                         *)
(* A tick takes its time before it waits for the scanner.  Time is in      *)
(* units shorter than the scan interval.  An operator named X_Suffix is a  *)
(* variant of X with a plausible mistake that no action uses.              *)
(***************************************************************************)
EXTENDS Integers, Sequences

CONSTANTS
    NearConfirm, FarTimeout, ScanInterval,  \* presenceConfig
    MaxTicks                                \* bound on a behaviour

ASSUME Config == /\ NearConfirm \in Nat \ {0} /\ ScanInterval \in Nat \ {0}
                 /\ FarTimeout \in Nat

VARIABLES
    clock,
    gattUp,                      \* s.car is set
    near, consecNear, lastSeen,  \* locals of runPresenceWatcher
    ticks                        \* history: what each tick saw, and when

vars == <<clock, gattUp, near, consecNear, lastSeen, ticks>>

Init ==
    /\ clock = 0 /\ gattUp \in BOOLEAN
    /\ near = FALSE /\ consecNear = 0 /\ lastSeen = 0
    /\ ticks = <<>>

\* A tick that began now and took d.
Took(d)       == clock' = clock + d
Records(s, d) == ticks' = Append(ticks, [saw |-> s, at |-> clock, until |-> clock + d])

Durations == 1 .. ScanInterval

-----------------------------------------------------------------------------

\* The pure core.  strong: an advertisement at or above nearRSSI was seen.
presenceStep_Forgiving(strong) ==
    LET seen  == IF strong THEN clock ELSE lastSeen
        count == IF strong THEN consecNear + 1 ELSE consecNear
        arrives == ~near /\ count >= NearConfirm
        departs == near /\ clock - seen > FarTimeout
    IN  [near  |-> arrives \/ (near /\ ~departs),
         count |-> IF arrives \/ departs THEN 0 ELSE count,
         seen  |-> seen]

presenceStep(strong) ==
    LET seen  == IF strong THEN clock ELSE lastSeen
        count == IF strong THEN consecNear + 1 ELSE 0
        arrives == ~near /\ count >= NearConfirm
        departs == near /\ clock - seen > FarTimeout
    IN  [near  |-> arrives \/ (near /\ ~departs),
         count |-> IF arrives \/ departs THEN 0 ELSE count,
         seen  |-> seen]

\* What follows from a strong advertisement of a vehicle that is near: no
\* connect (backoff, or no target), a link, or a failure.
Outcome == {"strong", "connected", "failed"}

\* A tick without a link: the scanner answers within the scan interval, and a
\* connect takes its own time.
Look(strong, outcome, d) ==
    /\ ~gattUp
    /\ LET step   == presenceStep(strong)
           failed == outcome = "failed"
       IN /\ outcome # "strong" => strong /\ step.near
          /\ near' = (step.near /\ ~failed)
          /\ consecNear' = IF failed THEN 0 ELSE step.count
          /\ lastSeen' = step.seen
          /\ gattUp' = (outcome = "connected")
    /\ Records(IF ~strong THEN "weak" ELSE IF outcome = "failed" THEN "failed" ELSE "strong", d)
    /\ \E connecting \in IF outcome = "strong" THEN {0} ELSE {0, ScanInterval} :
          Took(d + connecting)

\* The scanner fails: the loop goes on with what it knew.
PeekFails(d) == /\ ~gattUp /\ Took(d)
                /\ UNCHANGED <<gattUp, near, consecNear, lastSeen, ticks>>

\* A tick with a link, which may drop while the tick waits.
GattTick_Ageing(d) ==
    /\ gattUp /\ near' = TRUE
    /\ gattUp' \in BOOLEAN
    /\ Records("gatt", d) /\ Took(d)
    /\ UNCHANGED <<consecNear, lastSeen>>

GattTick(d) ==
    /\ gattUp /\ near' = TRUE /\ lastSeen' = clock
    /\ gattUp' \in BOOLEAN
    /\ Records("gatt", d) /\ Took(d)
    /\ UNCHANGED consecNear

\* A request of the parent connects, or closes the link it had, between ticks.
CommandMoves == /\ gattUp' = ~gattUp
                /\ UNCHANGED <<clock, near, consecNear, lastSeen, ticks>>

Next ==
    \/ /\ Len(ticks) < MaxTicks
       /\ \E d \in Durations :
             \/ \E strong \in BOOLEAN, outcome \in Outcome : Look(strong, outcome, d)
             \/ GattTick(d)
       \* bound: scanner failures take no longer than two scan intervals
    \/ /\ clock <= 2 * ScanInterval
       /\ \E d \in Durations : PeekFails(d)
    \/ CommandMoves

Spec == Init /\ [][Next]_vars

-----------------------------------------------------------------------------
(* Properties.                                                             *)

Saw(i, kinds) == ticks[i].saw \in kinds

\* The vehicle arrives with a link, or with NearConfirm strong advertisements
\* in a row; a failed connect starts the count again.
Arrival(i) ==
    \/ Saw(i, {"gatt"})
    \/ i >= NearConfirm /\ \A k \in i - NearConfirm + 1 .. i : Saw(k, {"strong"})

\* Nothing was seen of it for the far timeout before tick i, and nothing in it.
Departure(i) ==
    /\ Saw(i, {"weak"})
    /\ \A k \in 1 .. i - 1 :
          Saw(k, {"strong", "gatt"}) => ticks[i].at - ticks[k].at > FarTimeout

\* The vehicle is taken for near exactly when, by the record of all ticks, it
\* has arrived and neither departed nor refused a connect since: the running
\* counter and the one timestamp of runPresenceWatcher (nearConfirm and
\* farTimeout, main.go:619) carry all that matters of the past.
NearIsAsDefined ==
    near <=> \E i \in DOMAIN ticks :
                /\ Arrival(i)
                /\ \A j \in i + 1 .. Len(ticks) : ~Saw(j, {"failed"}) /\ ~Departure(j)

\* A departure ends a session that can still be needed: measured at the moments
\* the vehicle was really seen, rather than at the starts of ticks, at which
\* the loop takes the time, nothing was seen of it for the far timeout less
\* one scan interval.
DropoutIsBridged ==
    [][ near /\ ~near' /\ ticks'[Len(ticks')].saw = "weak" =>
           \A k \in DOMAIN ticks :
              Saw(k, {"strong", "gatt"}) => clock' - ticks[k].until > FarTimeout - ScanInterval
      ]_vars
=============================================================================
