-------------------------- MODULE PersistentRecords --------------------------
(***************************************************************************)
(* What the phone expects of its record stores: each record has a value in *)
(* use and a durable one.  The durable value is only ever replaced as a    *)
(* whole, by the value in use; a damaged record is left as it is; an       *)
(* orderly power-off loses nothing but what a failed medium has refused.   *)
(***************************************************************************)
CONSTANTS Record, Factory, Missing, Damaged

VARIABLES value,    \* the values in use
          durable,  \* what a restart finds
          failed,   \* the records whose medium refuses, or was found damaged
          power     \* "on", "off" or, after a power cut, "cut"

vars == <<value, durable, failed, power>>

Init ==
    /\ value = Factory /\ DOMAIN durable = Record
    /\ failed \subseteq Record /\ power = "off"

(* A durable value is replaced by the one in use, or stays.                *)
Saves(v) ==
    \A r \in Record :
        durable'[r] \in {durable[r]} \union
                            IF durable[r] = Damaged THEN {} ELSE {v[r]}

Use ==
    /\ power = "on" /\ power' = "on"
    /\ DOMAIN value' = Record
    /\ Saves(value')

Cut == power = "on" /\ power' = "cut" /\ value' = value /\ Saves(value)

Off ==
    /\ power = "on" /\ power' = "off" /\ value' = value /\ failed' = failed
    /\ Saves(value)
    /\ \A r \in Record \ failed : durable'[r] = value[r]

On ==
    /\ power # "on" /\ power' = "on"
    /\ value' = [r \in Record |-> IF durable[r] \in {Missing, Damaged}
                                  THEN Factory[r] ELSE durable[r]]
    /\ \A r \in Record : durable'[r] # durable[r] =>
           durable[r] = Missing /\ durable'[r] = Factory[r]

Next == Use \/ Cut \/ Off \/ On

Spec == Init /\ [][Next]_vars
=============================================================================
