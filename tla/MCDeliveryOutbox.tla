-------------------------- MODULE MCDeliveryOutbox --------------------------
(***************************************************************************)
(* Small instances of DeliveryOutbox.  Nothing is bounded but the rows and *)
(* the attempts: time is relative, so every behaviour is covered.          *)
(***************************************************************************)
EXTENDS DeliveryOutbox

TwoItems   == 1..2
ThreeItems == 1..3
=============================================================================
