------------------------- MODULE MCOutreachDelivery -------------------------
(* Instances of OutreachDelivery for TLC.                                  *)
EXTENDS OutreachDelivery, TLC
=============================================================================
