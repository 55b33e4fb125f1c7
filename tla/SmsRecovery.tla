---------------------------- MODULE SmsRecovery ----------------------------
(***************************************************************************)
(* Recovery of messages left in the modem's own memory (ME):               *)
(* src/services/modem_sms_recovery.c, and its driver in modem_service.c.   *)
(* A record is read, handed to the local store, read again once the store  *)
(* has reported it durable, and only then deleted from the modem.          *)
(*                                                                         *)
(* The recovery state r is a record, and the functions of                  *)
(* modem_sms_recovery.c are functions from states to states.  The modem is *)
(* part of the model: it answers the one command on the wire line by line, *)
(* late, or never.  When a retry falls due is left open.  A fragment's     *)
(* bytes are one value; Control holds those the direct receiver reports as *)
(* FILTERED.  Text, ringtone and picture fragments go to different stores  *)
(* with one contract, DurableReceipt.                                      *)
(***************************************************************************)
EXTENDS Naturals, FiniteSets

CONSTANTS
    Frag,           \* stored messages, equal when byte-identical
    Control,        \* those that are deliberately filtered
    Capacity,       \* ME slots
    Empty,          \* no record
    MaxArrivals,    \* bound: records the network adds to ME
    MaxTrouble      \* bound: errors, timeouts, SIM losses, debug commands

ASSUME SmsRecoveryAssumption ==
    /\ Control \subseteq Frag
    /\ Empty \notin Frag
    /\ Capacity \in Nat \ {0}
    /\ MaxArrivals \in Nat
    /\ MaxTrouble \in Nat

Slot == 1 .. Capacity
Steps == {"NONE", "SELECT", "READ", "STORE", "VERIFY", "DELETE"}

VARIABLES
    slot,           \* modem: the records in ME
    wire,           \* the command in progress, and what it has answered
    cmti,           \* modem: a +CMTI line not yet read
    simReady,       \* status_sim_ready_snapshot
    completing,     \* the pass that follows a SIM readiness edge
    r,              \* s_sms_recovery
    admitted,       \* s_recovery_admitted
    invalidated,    \* s_recovery_invalidated
    receipt, subject, stored,   \* the store, see DurableReceipt
    refused,        \* history: fragments whose contents were refused
    arrivals, trouble

Store == INSTANCE DurableReceipt

store == <<receipt, subject, stored>>
vars == <<slot, wire, cmti, simReady, completing, r, admitted, invalidated,
          store, refused, arrivals, trouble>>

Recovery ==
    [step : Steps, issued : BOOLEAN, pending : BOOLEAN, again : BOOLEAN,
     retry : BOOLEAN, selected : BOOLEAN, header : BOOLEAN, payload : BOOLEAN,
     readable : BOOLEAN, match : BOOLEAN, filtered : BOOLEAN,
     index : 0 .. Capacity + 1, remaining : 0 .. Capacity,
     pdu : Frag \union {Empty}]

Fresh ==
    [step |-> "NONE", issued |-> FALSE, pending |-> FALSE, again |-> FALSE,
     retry |-> FALSE, selected |-> FALSE, header |-> FALSE, payload |-> FALSE,
     readable |-> FALSE, match |-> FALSE, filtered |-> FALSE,
     index |-> 0, remaining |-> 0, pdu |-> Empty]

Wire ==
    [owner : {"none", "recovery", "drain", "debug"},
     cmd : {"none", "SELECT", "CMGR", "CMGD", "other"},
     at : 0 .. Capacity + 1, said : {"nothing", "header", "body", "done"}]

Quiet == [owner |-> "none", cmd |-> "none", at |-> 0, said |-> "nothing"]

TypeOK ==
    /\ slot \in [Slot -> Frag \union {Empty}]
    /\ wire \in Wire
    /\ cmti \in BOOLEAN
    /\ simReady \in BOOLEAN
    /\ completing \in BOOLEAN
    /\ r \in Recovery
    /\ admitted \in BOOLEAN
    /\ invalidated \in BOOLEAN
    /\ receipt \in {"none", "waiting", "committed"}
    /\ subject \subseteq Frag
    /\ stored \subseteq Frag
    /\ refused \subseteq Frag
    /\ arrivals \in Nat
    /\ trouble \in Nat

-----------------------------------------------------------------------------
(* modem_sms_recovery.c                                                    *)

(* Fault for Requested: an indication during a pass is dropped.            *)
RequestedOnce(x) ==
    IF x.step # "NONE" THEN x ELSE [x EXCEPT !.pending = TRUE]

Requested(x) ==
    IF x.step # "NONE" \/ x.pending THEN [x EXCEPT !.again = TRUE]
    ELSE [x EXCEPT !.pending = TRUE]

(* Fault for Done: a failed pass is not tried again.                       *)
DoneForGood(x) ==
    [x EXCEPT !.step = "NONE", !.issued = FALSE, !.pending = x.again,
              !.again = FALSE]

Done(x) ==
    [x EXCEPT !.step = "NONE", !.issued = FALSE,
              !.pending = x.again \/ x.retry, !.again = FALSE]

Deferred(x) == Done([x EXCEPT !.retry = TRUE])

(* Fault for Advanced: a record that came after the count underflows it.   *)
AdvancedUncounted(x) ==
    LET left == IF x.header THEN x.remaining - 1 ELSE x.remaining
        next == [x EXCEPT !.remaining = left, !.index = @ + 1]
    IN IF next.index > Capacity THEN Done(next)
       ELSE [next EXCEPT !.step = "READ"]

Advanced(x) ==
    LET left == IF x.header /\ x.remaining > 0 THEN x.remaining - 1
                ELSE x.remaining
        next == [x EXCEPT !.remaining = left, !.index = @ + 1]
    IN IF next.index > Capacity \/ left = 0 THEN Done(next)
       ELSE [next EXCEPT !.step = "READ"]

Rejected(x) == IF x.step = "STORE" THEN Advanced(x) ELSE x

Committed(x) == IF x.step = "STORE" THEN [x EXCEPT !.step = "VERIFY"] ELSE x

(* modem_sms_recovery_command issues a command only then.                  *)
MayCommand(x) ==
    /\ ~ x.issued
    /\ x.step # "STORE"
    /\ x.step = "NONE" => x.pending

Commanded(x) ==
    LET begun == IF x.step = "NONE"
                 THEN [x EXCEPT !.pending = FALSE, !.retry = FALSE,
                                !.selected = FALSE, !.step = "SELECT"]
                 ELSE x
    IN [begun EXCEPT !.issued = TRUE, !.header = FALSE, !.payload = FALSE,
                     !.readable = FALSE, !.match = FALSE]

(* The +CPMS line: used is the count it gives, or garbled.                 *)
Selected(x, used, garbled) ==
    IF x.step # "SELECT" THEN x
    ELSE IF x.header \/ garbled THEN [x EXCEPT !.selected = FALSE, !.header = TRUE]
    ELSE [x EXCEPT !.selected = TRUE, !.header = TRUE, !.remaining = used]

(* The +CMGR line.                                                         *)
Headed(x, readable) ==
    IF x.step \in {"READ", "VERIFY"}
    THEN [x EXCEPT !.readable = readable /\ ~ x.header, !.header = TRUE]
    ELSE x

(* The record's body: frag, or Empty when it could not be decoded.         *)
Loaded(x, frag) ==
    IF x.step \notin {"READ", "VERIFY"} THEN x
    ELSE IF x.payload THEN [x EXCEPT !.readable = FALSE]
    ELSE IF ~ x.readable \/ frag = Empty
         THEN [x EXCEPT !.payload = TRUE, !.readable = FALSE]
    ELSE IF x.step = "VERIFY"
         THEN [x EXCEPT !.payload = TRUE,
                        !.match = (x.pdu = frag /\ x.filtered = (frag \in Control))]
    ELSE [x EXCEPT !.payload = TRUE, !.pdu = frag,
                   !.filtered = (frag \in Control)]

Finished(x, ok, emptySlot) ==
    LET y == [x EXCEPT !.issued = FALSE]
        failed == [y EXCEPT !.retry = TRUE]
        good == ok /\ y.readable /\ y.payload
    IN CASE ~ x.issued -> x
         [] x.issued /\ y.step = "SELECT" ->
              IF ~ ok \/ ~ y.selected THEN Deferred(y)
              ELSE IF y.remaining = 0 THEN Done([y EXCEPT !.index = 1])
              ELSE [y EXCEPT !.index = 1, !.step = "READ"]
         [] x.issued /\ y.step = "READ" ->
              IF good THEN [y EXCEPT !.step = "STORE"]
              ELSE Advanced(IF emptySlot THEN y ELSE failed)
         [] x.issued /\ y.step = "VERIFY" ->
              IF good /\ y.match THEN [y EXCEPT !.step = "DELETE"]
              ELSE Deferred(y)
         [] x.issued /\ y.step = "DELETE" ->
              Advanced([IF ok THEN y ELSE failed EXCEPT !.header = TRUE])
         [] OTHER -> y

-----------------------------------------------------------------------------
(* The driver in modem_service.c.                                          *)

Free == wire.owner = "none"

Trouble ==
    /\ trouble < MaxTrouble
    /\ trouble' = trouble + 1

Calm == trouble' = trouble

(* Fault for Release: the receipt outlives the record.                     *)
ReleaseLater ==
    /\ UNCHANGED <<receipt, subject>>
    /\ admitted' = FALSE

(* sms_recovery_release_receipt, message_service_receive_forget.           *)
Release ==
    /\ receipt' = "none"
    /\ subject' = {}
    /\ admitted' = FALSE

(* Fault for Reset: a late answer of the old command is not disowned.      *)
ResetQuietly(x) ==
    /\ Release
    /\ r' = x
    /\ UNCHANGED <<stored, invalidated>>

(* sms_recovery_reset, then what its caller does with the state.           *)
Reset(x) ==
    /\ Release
    /\ r' = x
    /\ invalidated' = TRUE
    /\ UNCHANGED stored

CommandFor(x) ==
    [owner |-> "recovery", said |-> "nothing",
     cmd |-> CASE x.step = "SELECT" -> "SELECT"
               [] x.step = "DELETE" -> "CMGD"
               [] OTHER             -> "CMGR",
     at |-> x.index]

(* The end of sms_recovery_start: the receipt goes once the record does    *)
(* not need it, and the next command is sent, unless a retry is not due.   *)
Proceed(x) ==
    /\ IF x.step \notin {"STORE", "VERIFY", "DELETE"}
       THEN Release
       ELSE UNCHANGED <<receipt, subject, admitted>>
    /\ \/ /\ MayCommand(x)
          /\ r' = Commanded(x)
          /\ wire' = CommandFor(Commanded(x))
          /\ invalidated' = FALSE
       \/ /\ MayCommand(x) => x.step = "NONE" /\ x.retry
          /\ r' = x
          /\ UNCHANGED <<wire, invalidated>>

Idle == Free /\ simReady /\ ~ completing

(* sms_recovery_start with a record to be stored: it is filtered, or the   *)
(* local store takes it, refuses its contents for good, or cannot take it  *)
(* now; once taken, the store reports it durable sooner or later.          *)
StartAdmit ==
    /\ Idle
    /\ r.step = "STORE"
    /\ ~ admitted
    /\ ~ r.filtered
    /\ admitted' = TRUE
    /\ Store!Admit(r.pdu)
    /\ receipt' = "committed" => r.pdu \in stored
    /\ \/ /\ receipt' = "waiting"
          /\ r' = r
          /\ UNCHANGED <<wire, invalidated>>
       \/ /\ receipt' = "committed"
          /\ r' = Commanded(Committed(r))
          /\ wire' = CommandFor(r')
          /\ invalidated' = FALSE
    /\ Calm
    /\ UNCHANGED <<slot, cmti, simReady, completing, refused, arrivals>>

StartRefused ==
    /\ Idle
    /\ r.step = "STORE"
    /\ ~ admitted
    /\ ~ r.filtered
    /\ Trouble
    /\ \/ /\ refused' = refused \union {r.pdu}
          /\ Proceed(Rejected(r))
       \/ /\ refused' = refused
          /\ Proceed(Deferred(r))
    /\ UNCHANGED <<slot, cmti, simReady, completing, stored, arrivals>>

(* Fault for Durable: what was admitted counts as stored.                  *)
DurableOnceAdmitted == r.filtered \/ admitted

(* The record needs no write, or its receipt is in.                        *)
Durable == r.filtered \/ (admitted /\ receipt = "committed")

Start ==
    /\ Idle
    /\ IF r.step = "STORE" /\ Durable
       THEN Proceed(Committed(r))
       ELSE /\ r.step # "STORE"
            /\ Proceed(r)
    /\ Calm
    /\ UNCHANGED <<slot, cmti, simReady, completing, stored, refused, arrivals>>

(* message_service_tick, or a picture or ringtone store, makes the         *)
(* fragment durable and reports it.                                        *)
StoreCommit ==
    /\ stored' = stored \union subject
    /\ Store!Commit
    /\ UNCHANGED <<slot, wire, cmti, simReady, completing, r, admitted,
                   invalidated, refused, arrivals, trouble>>

-----------------------------------------------------------------------------
(* The modem.                                                              *)

Used == Cardinality({s \in Slot : slot[s] # Empty})

Listening == wire.owner \in {"recovery", "drain"}

modem == <<cmti, simReady, completing, admitted, invalidated, store, refused,
           arrivals>>

AnswerSelect(garbled) ==
    /\ Listening
    /\ wire.cmd = "SELECT"
    /\ wire.said = "nothing"
    /\ wire' = [wire EXCEPT !.said = "done"]
    /\ r' = Selected(r, Used, garbled)
    /\ IF garbled THEN Trouble ELSE Calm
    /\ UNCHANGED <<slot, modem>>

(* parse_expected_line: a late record still owns its bytes, so the header  *)
(* of a revoked command puts the state back to READ.                       *)
AnswerHeader(readable) ==
    /\ Listening
    /\ wire.cmd = "CMGR"
    /\ wire.said = "nothing"
    /\ slot[wire.at] # Empty
    /\ wire' = [wire EXCEPT !.said = "header"]
    /\ r' = Headed(IF invalidated \/ wire.owner = "drain"
                   THEN [r EXCEPT !.step = "READ"] ELSE r, readable)
    /\ IF readable THEN Calm ELSE Trouble
    /\ UNCHANGED <<slot, modem>>

AnswerBody(whole) ==
    /\ Listening
    /\ wire.said = "header"
    /\ wire' = [wire EXCEPT !.said = "body"]
    /\ r' = Loaded(r, IF whole THEN slot[wire.at] ELSE Empty)
    /\ IF whole THEN Calm ELSE Trouble
    /\ UNCHANGED <<slot, modem>>

AnswerDelete ==
    /\ Listening
    /\ wire.cmd = "CMGD"
    /\ wire.said = "nothing"
    /\ slot' = [slot EXCEPT ![wire.at] = Empty]
    /\ wire' = [wire EXCEPT !.said = "done"]
    /\ Calm
    /\ UNCHANGED <<r, modem>>

EmptyAnswer ==
    wire.cmd = "CMGR" /\ wire.said = "nothing" /\ slot[wire.at] = Empty

(* The final result: OK, the code of an empty slot, or another error.      *)
Final(ok, emptySlot) ==
    /\ Listening
    /\ ok => wire.said \in {"done", "body"} \/ EmptyAnswer
    /\ emptySlot => EmptyAnswer /\ ~ ok
    /\ IF ok \/ emptySlot THEN Calm ELSE Trouble
    /\ wire' = Quiet
    /\ IF wire.owner = "drain"
       THEN Reset(Deferred(Fresh))
       ELSE IF invalidated
       THEN Reset(IF simReady THEN Requested(Fresh) ELSE Fresh)
       ELSE /\ r' = Finished(r, ok, emptySlot)
            /\ UNCHANGED <<admitted, invalidated, store>>
    /\ UNCHANGED <<slot, cmti, simReady, completing, refused, arrivals>>

(* The command outlives its deadline; its final is waited for, because a   *)
(* late one must not complete another command.                             *)
Timeout ==
    /\ wire.owner = "recovery"
    /\ Trouble
    /\ r' = Deferred(r)
    /\ wire' = [wire EXCEPT !.owner = "drain"]
    /\ UNCHANGED <<slot, modem>>

(* It never comes: the modem is power-cycled.  So it is when the phone     *)
(* restarts.  Indications that were not read are lost.                     *)
SessionLost ==
    /\ Trouble
    /\ Reset(Fresh)
    /\ wire' = Quiet
    /\ cmti' = FALSE
    /\ simReady' = FALSE
    /\ completing' = FALSE
    /\ UNCHANGED <<slot, refused, arrivals>>

SimLost ==
    /\ simReady
    /\ Trouble
    /\ Reset(Fresh)
    /\ simReady' = FALSE
    /\ completing' = FALSE
    /\ UNCHANGED <<slot, wire, cmti, refused, arrivals>>

SimBack ==
    /\ ~ simReady
    /\ simReady' = TRUE
    /\ completing' = TRUE
    /\ UNCHANGED <<slot, wire, cmti, r, admitted, invalidated, store, refused,
                   arrivals, trouble>>

(* modem_enter_ready, at the end of the pass after a readiness edge.       *)
EnterReady ==
    /\ Free
    /\ completing
    /\ completing' = FALSE
    /\ r' = Requested(r)
    /\ UNCHANGED <<slot, wire, cmti, simReady, admitted, invalidated, store,
                   refused, arrivals, trouble>>

(* A privileged command may do anything to the records.                    *)
DebugCommand ==
    /\ Free
    /\ Trouble
    /\ Reset(Requested(Fresh))
    /\ wire' = [Quiet EXCEPT !.owner = "debug", !.cmd = "other"]
    /\ UNCHANGED <<slot, cmti, simReady, completing, refused, arrivals>>

DebugEffect(s, f) ==
    /\ wire.owner = "debug"
    /\ wire.said = "nothing"
    /\ slot' = [slot EXCEPT ![s] = f]
    /\ wire' = [wire EXCEPT !.said = "done"]
    /\ UNCHANGED <<r, modem, trouble>>

DebugFinal ==
    /\ wire.owner = "debug"
    /\ wire' = Quiet
    /\ UNCHANGED <<slot, r, modem, trouble>>

(* The network delivers a record to ME.                                    *)
Arrive(s, f) ==
    /\ arrivals < MaxArrivals
    /\ slot[s] = Empty
    /\ slot' = [slot EXCEPT ![s] = f]
    /\ cmti' = TRUE
    /\ arrivals' = arrivals + 1
    /\ UNCHANGED <<wire, simReady, completing, r, admitted, invalidated, store,
                   refused, trouble>>

Indication ==
    /\ cmti
    /\ cmti' = FALSE
    /\ r' = Requested(r)
    /\ UNCHANGED <<slot, wire, simReady, completing, admitted, invalidated,
                   store, refused, arrivals, trouble>>

-----------------------------------------------------------------------------

Init ==
    /\ slot = [s \in Slot |-> Empty]
    /\ wire = Quiet
    /\ cmti = FALSE
    /\ simReady = FALSE
    /\ completing = FALSE
    /\ r = Fresh
    /\ admitted = FALSE
    /\ invalidated = TRUE
    /\ Store!Init
    /\ refused = {}
    /\ arrivals = 0
    /\ trouble = 0

Phone == Start \/ StartAdmit \/ EnterReady \/ Indication

Answer ==
    \/ AnswerSelect(FALSE)
    \/ AnswerHeader(TRUE)
    \/ AnswerBody(TRUE)
    \/ AnswerDelete
    \/ \E ok, emptySlot \in BOOLEAN : (ok \/ emptySlot) /\ Final(ok, emptySlot)
    \/ DebugFinal

Fault ==
    \/ StartRefused
    \/ AnswerSelect(TRUE)
    \/ AnswerHeader(FALSE)
    \/ AnswerBody(FALSE)
    \/ Final(FALSE, FALSE)
    \/ Timeout
    \/ SessionLost
    \/ SimLost
    \/ DebugCommand

Next ==
    \/ Phone
    \/ StoreCommit
    \/ Answer
    \/ Fault
    \/ SimBack
    \/ \E s \in Slot, f \in Frag \union {Empty} : DebugEffect(s, f)
    \/ \E s \in Slot, f \in Frag : Arrive(s, f)

Spec == Init /\ [][Next]_vars

(* Core 0 keeps running the modem service and the store, the modem answers *)
(* commands that are not in trouble, and a SIM comes back.                 *)
FairSpec ==
    /\ Spec
    /\ WF_vars(Start)
    /\ WF_vars(StartAdmit)
    /\ WF_vars(EnterReady)
    /\ WF_vars(Indication)
    /\ WF_vars(StoreCommit)
    /\ WF_vars(Answer)
    /\ WF_vars(SimBack)

-----------------------------------------------------------------------------
(* Properties.                                                             *)

(* The modem's copy goes only when its exact fragment is on the local      *)
(* media, or is a recognised control: across timeouts, late answers,       *)
(* privileged commands, SIM changes and restarts.                          *)
DeletedIsStored ==
    [][\A s \in Slot :
           slot[s] # Empty /\ slot'[s] = Empty /\ wire.owner # "debug" =>
               slot[s] \in stored \union Control]_vars

(* While a record is stored, verified or deleted, the tracked receipt is   *)
(* the one of that record and of no earlier one.                           *)
ReceiptIsCurrent ==
    /\ receipt # "none" /\ r.step \in {"STORE", "VERIFY", "DELETE"} =>
           admitted /\ subject \subseteq {r.pdu}
    /\ r.step = "STORE" /\ admitted => receipt # "none"

(* The command on the wire is the one the state expects an answer to,      *)
(* unless its answer has been disowned.                                    *)
WireIsExpected ==
    wire.owner = "recovery" /\ ~ invalidated =>
        /\ r.issued
        /\ wire.at = r.index \/ wire.cmd = "SELECT"
        /\ wire.cmd = CASE r.step = "SELECT" -> "SELECT"
                        [] r.step = "DELETE" -> "CMGD"
                        [] OTHER             -> "CMGR"

(* Nothing is left behind: when no pass is due, ME holds only records      *)
(* whose contents the stores refuse.                                       *)
NothingStranded ==
    Idle /\ r.step = "NONE" /\ ~ r.pending /\ ~ cmti =>
        \A s \in Slot : slot[s] \in refused \union {Empty}

(* Every record is recovered in the end.                                   *)
Recovered ==
    \A s \in Slot : slot[s] # Empty ~> slot[s] \in refused \union {Empty}

=============================================================================
