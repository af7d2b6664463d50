--------------------------- MODULE PhoneKeyService --------------------------
(***************************************************************************)
(* What the phone key is for its user, without the processes, files and    *)
(* retries behind it: the phone is paired with at most one vehicle, and    *)
(* may be serving as its key.  It serves no other vehicle, pairing changes *)
(* only when nothing is served any more.                                   *)
(***************************************************************************)
CONSTANTS Vins, None

VARIABLES paired,  \* the vehicle this phone is paired with, or None
          serving  \* the vehicle it is the key of right now, or None

serviceState == <<paired, serving>>

Init == paired = None /\ serving = None

Serve ==
    /\ paired # None /\ serving = None
    /\ serving' = paired /\ UNCHANGED paired

Cease ==
    /\ serving # None /\ serving' = None
    /\ UNCHANGED paired

Pair ==
    /\ paired' \in Vins \cup {None}
    /\ serving' = None

Next == Serve \/ Cease \/ Pair

Spec == Init /\ [][Next]_serviceState
=============================================================================
