--------------------------- MODULE DurableReceipt ---------------------------
(***************************************************************************)
(* What the message store promises to a caller that holds another copy of  *)
(* a message (include/services/message_service.h): a tracked delivery is   *)
(* reported as committed only once its fragment is on the media, or was    *)
(* deliberately filtered.  One delivery is tracked at a time.  The modem   *)
(* service deletes the module's copy on the strength of this.              *)
(***************************************************************************)
CONSTANT Frag

VARIABLES
    receipt,    \* the tracked delivery: none, waiting or committed
    subject,    \* its fragment, as a set that is empty once discarded
    stored      \* fragments on the media

receiptVars == <<receipt, subject, stored>>

Init ==
    /\ receipt = "none"
    /\ subject = {}
    /\ stored = {}

(* A control message is recognised on admission and needs no write.        *)
Admit(f) ==
    /\ receipt = "none"
    /\ \/ receipt' = "waiting" /\ subject' = {f}
       \/ receipt' = "committed" /\ subject' = {}
    /\ stored' = stored

Commit ==
    /\ receipt = "waiting"
    /\ receipt' = "committed"
    /\ subject \subseteq stored'
    /\ stored' \subseteq Frag
    /\ subject' = subject

(* Everything else the store does: it writes fragments, and discards those *)
(* that are deleted, expired or filtered, the tracked one included.        *)
Change ==
    /\ receipt' = receipt
    /\ stored' \subseteq Frag
    /\ IF receipt = "committed" THEN subject' \in {subject \cap stored', {}}
       ELSE subject' = subject

(* Forgetting a receipt never removes what was admitted.                   *)
Forget ==
    /\ receipt # "none"
    /\ receipt' = "none"
    /\ subject' = {}
    /\ stored' = stored

(* A restart forgets it too, and keeps the media.                          *)
Restart ==
    /\ receipt' = "none"
    /\ subject' = {}
    /\ stored' = stored

Next ==
    \/ \E f \in Frag : Admit(f)
    \/ Commit
    \/ Change
    \/ Forget
    \/ Restart

Spec == Init /\ [][Next]_receiptVars

=============================================================================
