--------------------------- MODULE FirmwareUpdate ---------------------------
(***************************************************************************)
(* What a node's owner sees of an over-the-air update, whatever the banks  *)
(* and the transfer behind it: the node runs one complete, authentic       *)
(* image; installing another keeps the one before it until the new one is  *)
(* confirmed; reverting brings that very image back.                       *)
(***************************************************************************)
CONSTANTS
    Images,     \* complete, authentic firmware images
    NoImage     \* no image to go back to, not one of Images

VARIABLES
    running,    \* the image the node executes
    previous    \* the image a revert brings back, or NoImage

firmwareVars == <<running, previous>>

Init ==
    /\ running \in Images
    /\ previous = NoImage

Install ==
    /\ running' \in Images
    /\ previous' = running

Confirm ==
    /\ previous' = NoImage
    /\ UNCHANGED running

Revert ==
    /\ previous # NoImage
    /\ running' = previous
    /\ previous' = NoImage

Next == Install \/ Confirm \/ Revert

Spec == Init /\ [][Next]_firmwareVars

=============================================================================
