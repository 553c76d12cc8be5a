--------------------------- MODULE MCMailDelivery ---------------------------
(* Small instances of MailDelivery for TLC.                                *)
EXTENDS MailDelivery
=============================================================================
