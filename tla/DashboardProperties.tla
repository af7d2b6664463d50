------------------------- MODULE DashboardProperties ------------------------
(***************************************************************************)
(* What the front page promises.                                           *)
(***************************************************************************)
EXTENDS Dashboard

\* The messages of a queue that are the page's own.
Asked(q) == {i \in DOMAIN q : q[i].id # "cover"}

\* The page has one request under way exactly while it says so, and it is the
\* one it waits for ("statusStage tracks which leg is in flight ... and refuse
\* to stack requests"): no answer is taken for that of another request, and no
\* failure leaves the buttons disabled.
OneStatusRequest ==
    /\ Asked(calls) = {} \/ Asked(replies) = {}
    /\ statusStage = "" <=> Asked(calls) = {} /\ Asked(replies) = {}
    /\ \A q \in {calls, replies} : \A i, j \in Asked(q) :
         i = j /\ q[i].id = statusStage

\* A page at rest shows the vehicle as it is: whatever quick actions showed in
\* advance, and whether or not they were carried out, the chain that follows
\* them reads a vehicle that has settled ("re-fetch so the dashboard reflects
\* reality rather than an assumed new state").  Two things get behind it: a
\* refresh that the user starts before the timer ends, which keeps the timer
\* from starting its own, and a command of the cover, which nothing re-reads.
AtRest == statusStage = "" /\ ~settling
AtRestShowsCar ==
    AtRest /\ visible /\ updated /\ ~statusError /\ ~overtaken =>
        \A f \in Toggles : vehicleStatus[f] = car[f]

\* Once the user leaves it alone, the page comes to rest and the cover accepts
\* commands again, whichever requests fail (onCommandError).
LeftAlone == <>[][~UserActs]_vars
ComesToRest == LeftAlone => <>[](AtRest /\ ~commandBusy)
=============================================================================
