---------------------------- MODULE ReceivedParts ----------------------------
(***************************************************************************)
(* Ringtones and pictures received in parts by SMS: storage/store_tones.c  *)
(* and storage/store_pictures.c, on the commit engine of StoreCommit.  The *)
(* parts of a melody or a picture are gathered in one of two slots of the  *)
(* store's unit.  The modem's copy of a part is deleted once the store     *)
(* says that the part is committed, and a complete one is offered to the   *)
(* user only then.                                                         *)
(*                                                                         *)
(* Unit 0 stands for the settings, unit 1 for the pictures, unit 2 for the *)
(* tones: the order of the code's units.                                   *)
(***************************************************************************)
EXTENDS StoreCommit, FiniteSetsExt

CONSTANTS
    Part,       \* message parts
    Tones,      \* those of ringtones; the others are of pictures
    Message,    \* what the identity of a part tells: sender, reference, window
    MessageOf,  \* of each part
    SeqOf,      \* concat_seq of each part
    StampOf,    \* its time stamp
    TotalOf,    \* concat_total of each message
    Garbled,    \* messages that do not decode when they are whole
    MaxArrivals, MaxSets

Settings == 0
Pictures == 1
ToneUnit == 2
Store == {Pictures, ToneUnit}

SlotId == {1, 2}

(* A slot: free, partial, ready, consumed or invalid (TONE_*, states 0 to  *)
(* 4 of picture_pending_t); the message it is for; the parts it has.       *)
SlotType ==
    [st : {"free", "partial", "ready", "consumed", "invalid"},
     for : SUBSET Message, parts : SUBSET Part]

NoSlot == [st |-> "free", for |-> {}, parts |-> {}]

(* valid_part has no sequence number above the total.  What a medium has   *)
(* instead of a record is not mistaken for one.                            *)
ASSUME ReceivedPartsAssumption ==
    /\ Units = 3
    /\ Tones \subseteq Part
    /\ MessageOf \in [Part -> Message]
    /\ SeqOf \in [Part -> Nat \ {0}]
    /\ TotalOf \in [Message -> Nat \ {0}]
    /\ \A f \in Part : SeqOf[f] <= TotalOf[MessageOf[f]]
    /\ \A f, g \in Part : MessageOf[f] = MessageOf[g] => (f \in Tones) = (g \in Tones)
    /\ Garbled \subseteq Message
    /\ MaxArrivals \in Nat /\ MaxSets \in Nat
    /\ Factory[Settings] \in 0 .. MaxSets
    /\ \A u \in Store : Factory[u] = <<NoSlot, NoSlot>>
    /\ \A m \in {Missing, Damaged} : m \notin Nat /\ m \notin [SlotId -> SlotType]

VARIABLES
    shown,     \* the slot each application has open, or 0
    arrivals, sets

vars == <<store, shown, arrivals, sets>>

StoreOf(f) == IF f \in Tones THEN ToneUnit ELSE Pictures

(* The slot of a message whose first part comes in.                        *)
Opened(f) == [st |-> "partial", for |-> {MessageOf[f]}, parts |-> {}]

Slots(u) == ram[u]

-----------------------------------------------------------------------------
(* store_ringtone_commit_status and store_picture_commit_status, for dirty *)
(* units d.  The second does not ask whether the unit is available.        *)
CommitStatus(u, d) ==
    CASE fails[u] >= FailLimit           -> "STORAGE_ERROR"
      [] u = ToneUnit /\ ~ Ready(u)      -> "STORAGE_ERROR"
      [] OTHER -> IF u \in d THEN "NOT_READY" ELSE "OK"

(* identity_match_rank: 2 for the same transmission, 1 for a part of the   *)
(* same message, 0 for no match.  A slot that is complete takes only       *)
(* transmissions it has.                                                   *)
Alike(s, f) == {g \in s.parts : SeqOf[g] = SeqOf[f]}

Rank(s, f) ==
    IF s.st = "free" \/ MessageOf[f] \notin s.for THEN 0
    ELSE IF \E g \in Alike(s, f) : StampOf[g] = StampOf[f] THEN 2
    ELSE IF s.st \in {"ready", "consumed"} THEN 0
    ELSE 1

(* picture_timestamp_matches and the other fields: the message alone.      *)
Matches(s, f) == s.st # "free" /\ MessageOf[f] \in s.for

(* Slot s with part f, which may complete it.                              *)
Added(s, f) ==
    LET t == [s EXCEPT !.parts = @ \union {f}]
    IN IF Cardinality(t.parts) < TotalOf[MessageOf[f]] THEN t
       ELSE [t EXCEPT !.st = IF MessageOf[f] \in Garbled THEN "invalid" ELSE "ready"]

AddedStatus(s, f) ==
    IF Added(s, f).st = "invalid" THEN "INVALID_ARGUMENT" ELSE "OK"

(* apply_pending and apply_picture_payload accept a slot at a restart only *)
(* if its parts fit its message, and if it is whole and decodes when it    *)
(* says so.  One slot that they refuse makes the whole record a damaged    *)
(* one.                                                                    *)
Applies(s) ==
    /\ \A f, g \in s.parts : SeqOf[f] = SeqOf[g] => f = g
    /\ \A f \in s.parts : MessageOf[f] \in s.for
    /\ s.st \in {"ready", "consumed"} =>
           \A m \in s.for : m \notin Garbled /\ Cardinality(s.parts) = TotalOf[m]

(* What a call gives: the slots, the dirty units, and its result.          *)
Result(slots, d, rc) == [slots |-> slots, dirty |-> d, rc |-> rc]

-----------------------------------------------------------------------------
(* Sets of slots of u that may have gone untouched for half an hour, of    *)
(* those where it matters.                                                 *)
Aged(u) == SUBSET {i \in SlotId : Slots(u)[i].st \notin {"free", "ready"}}

(* store_ringtone_expire, where the slots old have not been touched for    *)
(* half an hour: one goes at a time, the next has to wait for the commit.  *)
ToneExpired(slots, d, old) ==
    IF old = {} \/ CommitStatus(ToneUnit, d) # "OK" \/ ~ Ready(ToneUnit)
    THEN Result(slots, d, "OK")
    ELSE Result([slots EXCEPT ![Min(old)] = NoSlot], d \union {ToneUnit}, "OK")

(* The slot for a new message: a free one, or one that was consumed, when  *)
(* that is committed.                                                      *)
Available(u, slots, d) ==
    LET free == {i \in SlotId : slots[i].st = "free"}
        used == {i \in SlotId : slots[i].st = "consumed" /\ CommitStatus(u, d) = "OK"}
    IN IF free # {} THEN {Max(free)}
       ELSE IF used # {} THEN {Min(used)} ELSE {}

BestRank(slots, f) == Max({Rank(slots[i], f) : i \in SlotId})

(* The end of store_ringtone_receive: part f goes into slot i, which held  *)
(* s, if the unit can be marked.                                           *)
ToneFiled(slots, d, i, s, f) ==
    IF ~ Ready(ToneUnit) THEN Result(slots, d, "NOT_READY")
    ELSE Result([slots EXCEPT ![i] = Added(s, f)], d \union {ToneUnit}, AddedStatus(s, f))

(* store_ringtone_receive.                                                 *)
ToneReceived(f, old) ==
    LET e     == ToneExpired(Slots(ToneUnit), dirty, old)
        slots == e.slots
        d     == e.dirty
        best  == BestRank(slots, f)
        free  == Available(ToneUnit, slots, d)
    IN IF best = 0
       THEN IF free = {} THEN Result(slots, d, "STORAGE_ERROR")
            ELSE ToneFiled(slots, d, Max(free), Opened(f), f)
       ELSE LET i == Min({j \in SlotId : Rank(slots[j], f) = best})
                s == slots[i]
            IN IF s.st = "invalid" THEN Result(slots, d, "CONFLICT")
               ELSE IF Alike(s, f) \ {f} # {}
               THEN IF s.st = "partial" /\ Ready(ToneUnit)
                    THEN Result([slots EXCEPT ![i].st = "invalid"],
                                d \union {ToneUnit}, "CONFLICT")
                    ELSE Result(slots, d, "CONFLICT")
               ELSE IF f \in s.parts THEN Result(slots, d, "OK")
               ELSE ToneFiled(slots, d, i, s, f)

(* store_picture_receive looks at its slots in order and stops at a match; *)
(* on the way it frees those that are old, consumed ones when that is      *)
(* committed, and notes the last one that is free or may be taken.         *)
Seen(acc, i, f, old) ==
    LET s == acc.slots[i]
        gone == /\ i \in old
                /\ s.st = "consumed" => CommitStatus(Pictures, acc.dirty) = "OK"
        t == IF gone THEN NoSlot ELSE s
        d == IF gone THEN Marked(acc.dirty, Pictures) ELSE acc.dirty
        a == [slots |-> [acc.slots EXCEPT ![i] = t], dirty |-> d,
              hit |-> acc.hit, free |-> acc.free]
    IN IF acc.hit # 0 THEN acc
       ELSE IF Matches(t, f) THEN [a EXCEPT !.hit = i]
       ELSE IF t.st = "free" \/ (t.st = "consumed" /\ CommitStatus(Pictures, d) = "OK")
       THEN [a EXCEPT !.free = i]
       ELSE a

Scanned(f, old) ==
    LET start == [slots |-> Slots(Pictures), dirty |-> dirty, hit |-> 0, free |-> 0]
    IN Seen(Seen(start, 1, f, old), 2, f, old)

(* store_picture_receive.  A unit that is not available is not marked, and *)
(* the part is taken all the same.                                         *)
PictureReceived(f, old) ==
    LET n == Scanned(f, old)
        i == IF n.hit # 0 THEN n.hit ELSE n.free
        s == IF n.hit # 0 THEN n.slots[i] ELSE Opened(f)
        m == Marked(n.dirty, Pictures)
    IN IF i = 0 THEN Result(n.slots, n.dirty, "STORAGE_ERROR")
       ELSE IF s.st = "invalid" THEN Result(n.slots, n.dirty, "CONFLICT")
       ELSE IF Alike(s, f) \ {f} # {}
       THEN IF s.st = "partial"
            THEN Result([n.slots EXCEPT ![i].st = "invalid"], m, "CONFLICT")
            ELSE Result(n.slots, n.dirty, "CONFLICT")
       ELSE IF f \in s.parts THEN Result(n.slots, n.dirty, "OK")
       ELSE Result([n.slots EXCEPT ![i] = Added(s, f)], m, AddedStatus(s, f))

Received(f, old) == IF f \in Tones THEN ToneReceived(f, old) ELSE PictureReceived(f, old)

(* Fault for Proof: the part is looked up in RAM, whether it is committed  *)
(* or not.                                                                 *)
ProofInRam(f) ==
    \E i \in SlotId : f \in Slots(StoreOf(f))[i].parts

(* store_ringtone_received_pdu_status, store_picture_received_pdu_status:  *)
(* the part is in its unit, and the unit is committed.                     *)
Proof(f) ==
    LET u == StoreOf(f)
    IN /\ CommitStatus(u, dirty) = "OK"
       /\ \E i \in SlotId :
             LET s == Slots(u)[i]
             IN /\ s.st \notin {"free", "invalid"} /\ f \in s.parts
                /\ f \in Tones => Rank(s, f) # 0

-----------------------------------------------------------------------------
(* A part comes in.  (A retransmission is an arrival of the same part.)    *)
Receive(f) ==
    /\ phase = "run" /\ arrivals < MaxArrivals
    /\ arrivals' = arrivals + 1
    /\ \E old \in Aged(StoreOf(f)) :
          LET r == Received(f, old)
          IN /\ ram' = [ram EXCEPT ![StoreOf(f)] = r.slots]
             /\ dirty' = r.dirty
    /\ UNCHANGED <<media, up, fails, scan, phase, dead, wear, faults, shown, sets>>

(* store_ringtone_pending_first, store_picture_pending_first: what is      *)
(* whole is offered when it is committed.                                  *)
Show(u) ==
    /\ phase = "run" /\ shown[u] = 0
    /\ CommitStatus(u, dirty) = "OK"
    /\ \E i \in SlotId : Slots(u)[i].st = "ready" /\ shown' = [shown EXCEPT ![u] = i]
    /\ UNCHANGED <<store, arrivals, sets>>

(* pending_save and pending_discard of both stores.  Own tone or gallery   *)
(* are in the same record and change with it.                              *)
Consume(u) ==
    /\ phase = "run" /\ shown[u] # 0
    /\ shown' = [shown EXCEPT ![u] = 0]
    /\ IF Ready(u)
       THEN /\ ram' = [ram EXCEPT ![u][shown[u]].st = "consumed"]
            /\ dirty' = Marked(dirty, u)
       ELSE UNCHANGED <<ram, dirty>>
    /\ UNCHANGED <<media, up, fails, scan, phase, dead, wear, faults, arrivals, sets>>

(* A setting is changed: the RAM first, whether the unit can be written or *)
(* not.                                                                    *)
Set ==
    /\ phase = "run" /\ sets < MaxSets /\ sets' = sets + 1
    /\ ram' = [ram EXCEPT ![Settings] = sets']
    /\ dirty' = Marked(dirty, Settings)
    /\ UNCHANGED <<media, up, fails, scan, phase, dead, wear, faults, shown, arrivals>>

(* store_service_tick, in a turn of the main loop: ringtones expire, and   *)
(* then the engine.                                                        *)
Ticking(rearm) ==
    /\ phase = "run"
    /\ rearm => dirty \intersect Parked(fails) # {}
    /\ UNCHANGED <<up, phase, dead, shown, arrivals, sets>>

(* What the tone store's own tick leaves to the engine.                    *)
Expired == {ToneExpired(Slots(ToneUnit), dirty, old) : old \in Aged(ToneUnit)}

StoreHolds(rearm) ==
    Ticking(rearm) /\ \E e \in Expired :
        TickHolds([ram EXCEPT ![ToneUnit] = e.slots], e.dirty, rearm)

StoreWrites(rearm) ==
    Ticking(rearm) /\ \E e \in Expired :
        TickWrites([ram EXCEPT ![ToneUnit] = e.slots], e.dirty, rearm)

(* main, up to its loop.                                                 *)
Starts == BootFlush /\ UNCHANGED <<shown, arrivals, sets>>

Next ==
    \/ \E f \in Part : Receive(f)
    \/ \E u \in Store : Show(u) \/ Consume(u)
    \/ Set
    \/ \E rearm \in BOOLEAN : StoreHolds(rearm) \/ StoreWrites(rearm)
    \/ (Flush \/ Boot) /\ UNCHANGED <<shown, arrivals, sets>>
    \/ Starts
    \/ (Sleep \/ PowerCut) /\ UNCHANGED <<arrivals, sets>>
          /\ shown' = [u \in Store |-> 0]

Init ==
    /\ StoreInit
    /\ shown = [u \in Store |-> 0]
    /\ arrivals = 0 /\ sets = 0

Spec == Init /\ [][Next]_vars

-----------------------------------------------------------------------------
(* Fairness.  The main loop calls store_service_tick in every turn; sound  *)
(* and the pace hold a write up, but not for ever, and five minutes pass.  *)
Writes == \E rearm \in BOOLEAN : StoreWrites(rearm)

Rearms == (StoreHolds(TRUE) \/ StoreWrites(TRUE)) /\ fails' # fails

FairSpec == Spec /\ WF_vars(Writes) /\ WF_vars(Rearms) /\ WF_vars(Starts)

-----------------------------------------------------------------------------
(* Properties.                                                             *)

(* Types, and: what the stores hold in RAM, and so what they write, is     *)
(* accepted when it is read again; nothing is marked dirty that may not be *)
(* written; no unit is tried beyond its cap.                               *)
TypeOK ==
    /\ ram[Settings] \in 0 .. MaxSets
    /\ \A u \in Store, i \in SlotId :
          ram[u][i] \in SlotType /\ Applies(ram[u][i])
    /\ dirty \subseteq up /\ up \subseteq Unit /\ scan \in Unit
    /\ fails \in [Unit -> 0 .. FailLimit]
    /\ phase \in {"load", "run", "off", "cut"}
    /\ shown \in [Store -> {0} \union SlotId]

OnMedia(u, f) ==
    media[u] \notin {Missing, Damaged} /\ \E i \in SlotId : f \in media[u][i].parts

(* The modem's copy of a part is deleted, and a melody or picture offered, *)
(* only when the medium has it, whatever failed before.  The exception is  *)
(* a picture unit that was found damaged: its commit status does not look. *)
(* The variables have their types.                                         *)
ProofIsDurable ==
    /\ TypeOK
    /\ phase = "run" =>
          /\ \A f \in Part : Proof(f) => OnMedia(StoreOf(f), f) \/ Pictures \notin up
          /\ \A u \in Store \intersect up : shown[u] # 0 =>
                 media[u][shown[u]].st = "ready" \/ media[u][shown[u]].st = "consumed"

(* A medium that refuses its record is not worn out by tries: the refused  *)
(* writes since the last success are bounded by the limit, and by one for  *)
(* every five minutes after that.  And a unit is parked, which gives its   *)
(* changes up when the phone goes off, for refusals of its medium only,    *)
(* not because core 1 was busy.                                            *)
Endurance ==
    \A u \in Unit :
        wear[u] <= FailLimit /\ (u \in Parked(fails) => wear[u] = FailLimit)

(* The commit engine keeps the records: PersistentRecords.                 *)
Kept == INSTANCE PersistentRecords WITH
    Record  <- Unit,
    value   <- ram,
    durable <- media,
    failed  <- Parked(fails) \union (Unit \ up),
    power   <- IF phase \in {"load", "run"} THEN "on" ELSE phase

KeepsRecords == Kept!Spec

(* A change reaches the medium, unless the medium refuses it for good or   *)
(* the phone goes off before.                                              *)
Persists ==
    \A u \in Unit :
        []<>(phase \in {"off", "cut"} \/ u \in dead \/ u \notin up
                \/ media[u] = ram[u])
=============================================================================
