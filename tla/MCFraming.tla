------------------------------ MODULE MCFraming ------------------------------
(***************************************************************************)
(* Framing for TLC.  One message is as long as a message can be and takes  *)
(* two chunks; the payload of the other begins like the length of a        *)
(* message, and its chunks divide that length.                             *)
(***************************************************************************)
EXTENDS Framing

MCMessages == {<<0, 2, 3>>, <<0, 1>>}

\* The two directions share no variable and no property is about both, so each
\* is explored while the other has not begun.
OneDirection == messages = 0 \/ \A s \in Senders : outcome[s] = "none"
=============================================================================
