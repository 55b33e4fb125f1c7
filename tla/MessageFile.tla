---------------------------- MODULE MessageFile ----------------------------
(***************************************************************************)
(* The meaning of one stored short message: the DELIVER fragments held by  *)
(* a file of the inbox or of the staging collection, and what adding a     *)
(* fragment does to it (src/services/message_file_codec.c).                *)
(*                                                                         *)
(* A fragment stands for the bytes of one PDU.  Group is the outcome of    *)
(* same_group: concatenation reference, total, address, protocol and       *)
(* coding within the one-day window.  A message that is not concatenated   *)
(* is a group of one part.  A file is the set of its fragments; the empty  *)
(* set is no file.                                                         *)
(***************************************************************************)
EXTENDS Naturals, FiniteSets

CONSTANTS
    Frag,           \* encoded fragments, equal when byte-identical
    Group,          \* concatenation groups
    GroupOf,        \* the group of a fragment
    SeqOf,          \* concat_seq of a fragment
    PartsOf,        \* concat_total of a group; 1 when not concatenated
    ControlGroup,   \* groups that a recognised control message makes up
    PartLimit       \* MESSAGE_FILE_PART_LIMIT

ASSUME MessageFileAssumption ==
    /\ GroupOf \in [Frag -> Group]
    /\ SeqOf \in [Frag -> Nat \ {0}]
    /\ PartsOf \in [Group -> Nat \ {0}]
    /\ ControlGroup \subseteq Group
    /\ PartLimit \in Nat \ {0}

NoFile == {}

File == SUBSET Frag

(* Two different parts with one sequence number: kept, never spliced. *)
Quarantined(file) ==
    \E f, g \in file : f # g /\ SeqOf[f] = SeqOf[g]

(* message_file_complete: a quarantined file counts as complete. *)
Complete(file) ==
    /\ file # NoFile
    /\ \/ Quarantined(file)
       \/ \A f \in file : {SeqOf[g] : g \in file} = 1 .. PartsOf[GroupOf[f]]

(* message_file_control # SMS_CONTROL_KEEP.  A Type 0 message is a control *)
(* from its first fragment on: its group counts as one of one part.        *)
Control(file) ==
    /\ Complete(file)
    /\ ~ Quarantined(file)
    /\ \A f \in file : GroupOf[f] \in ControlGroup

(* Fault for Merge: parts are put together by number alone.               *)
MergeAnyGroup(file, frag) ==
    IF frag \in file THEN "DUPLICATE"
    ELSE IF Cardinality(file) >= PartLimit THEN "FULL" ELSE "ADDED"

(* message_file_merge.  A message without concatenation is related to      *)
(* nothing but its own retransmission.                                     *)
Merge(file, frag) ==
    IF frag \in file THEN "DUPLICATE"
    ELSE IF \/ PartsOf[GroupOf[frag]] = 1
            \/ \E f \in file : GroupOf[f] # GroupOf[frag]
    THEN "UNRELATED"
    ELSE IF Cardinality(file) >= PartLimit THEN "FULL" ELSE "ADDED"

=============================================================================
