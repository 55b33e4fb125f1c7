--------------------------- MODULE MCSmsRecovery ---------------------------
(* SmsRecovery with two ordinary fragments and a control message.          *)
EXTENDS SmsRecovery

CONSTANTS f, g, c

=============================================================================
