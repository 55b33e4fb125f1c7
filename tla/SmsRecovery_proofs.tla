------------------------- MODULE SmsRecovery_proofs -------------------------
(***************************************************************************)
(* Proofs about SmsRecovery: its types, that the command on the wire is    *)
(* the expected one, that the modem's copy of a message is deleted only    *)
(* when the phone holds it, and that a pass over the modem's memory that   *)
(* has ended leaves no record behind, for any number of slots, messages    *)
(* and failures.                                                           *)
(***************************************************************************)
EXTENDS SmsRecovery, TLAPS, FiniteSetTheorems

(* The answer to the command on the wire will be thrown away.              *)
Disowned ==
    \/ wire.owner = "drain"
    \/ wire.owner = "recovery" /\ invalidated

(* A record being handled is in a slot that exists.                        *)
IndexInv ==
    ~ Disowned /\ r.step \in {"READ", "STORE", "VERIFY", "DELETE"} =>
        r.index \in Slot

(* So is the record a command names; one to be deleted is on the media.    *)
WireInv ==
    /\ wire.said = "header" => wire.cmd = "CMGR"
    /\ Listening /\ wire.cmd \in {"CMGR", "CMGD"} => wire.at \in Slot
    /\ Listening /\ wire.cmd = "CMGD" /\ wire.said = "nothing" =>
           slot[wire.at] \in stored \union Control

(* What is known of the bytes being handled, step by step.                 *)
BytesInv ==
    /\ wire.owner = "debug" => r.step = "NONE"
    /\ r.filtered => r.pdu \in Control
    /\ wire.owner = "recovery" /\ ~ invalidated /\ r.step = "READ" =>
           /\ r.payload => wire.said \in {"body", "done"}
           /\ r.payload /\ r.readable => r.pdu \in Frag
    /\ r.step = "STORE" => r.pdu \in Frag
    /\ wire.owner = "recovery" /\ ~ invalidated /\ r.step = "READ" =>
           receipt = "none"
    /\ r.step = "STORE" /\ receipt = "waiting" => subject = {r.pdu}
    /\ r.step = "STORE" /\ receipt = "committed" => r.pdu \in stored
    /\ ~ Disowned /\ r.step \in {"VERIFY", "DELETE"} =>
           r.pdu \in stored \union Control
    /\ wire.owner = "recovery" /\ ~ invalidated /\ r.step = "VERIFY" /\ r.match =>
           slot[wire.at] = r.pdu
    /\ Free /\ r.step = "DELETE" => slot[r.index] \in stored \union Control

IInv == TypeOK /\ IndexInv /\ WireInv /\ BytesInv /\ WireIsExpected

-----------------------------------------------------------------------------
(* The functions of modem_sms_recovery.c.                                  *)

(* A count of slots is a number of slots.                                  *)
LEMMA UsedType == Used \in 0 .. Capacity
<1>1. /\ IsFiniteSet(Slot)
      /\ Cardinality(Slot) = Capacity
  <2>1. 1 \in Int /\ Capacity \in Int /\ ~ (1 > Capacity)
    BY SmsRecoveryAssumption
  <2> QED
    BY <2>1, FS_Interval DEF Slot
<1>2. {s \in Slot : slot[s] # Empty} \in SUBSET Slot
  OBVIOUS
<1>3. /\ Cardinality({s \in Slot : slot[s] # Empty}) <= Capacity
      /\ Cardinality({s \in Slot : slot[s] # Empty}) \in Nat
  BY <1>1, <1>2, FS_Subset, FS_CardinalityType
<1> QED
  BY <1>3, SmsRecoveryAssumption DEF Used

(* The state the phone starts from is a recovery state.                    *)
LEMMA FreshType == Fresh \in Recovery /\ Fresh.step = "NONE" /\ ~ Fresh.filtered
BY SmsRecoveryAssumption DEF Fresh, Recovery, Steps

(* A request changes only what is still to be done.                        *)
LEMMA RequestedFacts ==
    ASSUME NEW x \in Recovery
    PROVE  /\ Requested(x) \in Recovery
           /\ \A f \in {"step", "issued", "payload", "readable", "match",
                        "filtered", "index", "pdu"} : Requested(x)[f] = x[f]
BY DEF Requested, Recovery

(* The end of a pass leaves the bytes and the slot as they were.           *)
LEMMA DoneFacts ==
    ASSUME NEW x \in Recovery
    PROVE  /\ Done(x) \in Recovery
           /\ Done(x).step = "NONE"
           /\ Done(x).pdu = x.pdu
           /\ Done(x).filtered = x.filtered
BY DEF Done, Recovery, Steps

LEMMA DeferredFacts ==
    ASSUME NEW x \in Recovery
    PROVE  /\ Deferred(x) \in Recovery
           /\ Deferred(x).step = "NONE"
           /\ Deferred(x).pdu = x.pdu
           /\ Deferred(x).filtered = x.filtered
<1>1. [x EXCEPT !.retry = TRUE] \in Recovery
  BY DEF Recovery
<1> QED
  BY <1>1, DoneFacts DEF Deferred, Recovery

(* Moving to the next slot ends the pass or reads a slot that exists.      *)
LEMMA AdvancedFacts ==
    ASSUME NEW x \in Recovery, x.index \in Slot
    PROVE  /\ Advanced(x) \in Recovery
           /\ Advanced(x).step \in {"NONE", "READ"}
           /\ Advanced(x).step = "READ" => Advanced(x).index \in Slot
           /\ Advanced(x).pdu = x.pdu
           /\ Advanced(x).filtered = x.filtered
<1> DEFINE left == IF x.header /\ x.remaining > 0 THEN x.remaining - 1
                   ELSE x.remaining
           next == [x EXCEPT !.remaining = left, !.index = @ + 1]
<1>1. left \in 0 .. Capacity
  BY SmsRecoveryAssumption DEF Recovery
<1>2. x.index + 1 \in 1 .. Capacity + 1
  BY SmsRecoveryAssumption DEF Slot
<1>3. /\ next \in Recovery
      /\ next.index = x.index + 1
      /\ next.pdu = x.pdu
      /\ next.filtered = x.filtered
  <2>1. x.index + 1 \in 0 .. Capacity + 1
    BY <1>2, SmsRecoveryAssumption
  <2> HIDE DEF left
  <2> QED
    BY <1>1, <2>1 DEF Recovery
<1>4. CASE next.index > Capacity \/ left = 0
  <2>1. Advanced(x) = Done(next)
    BY <1>4 DEF Advanced
  <2> HIDE DEF next
  <2> QED
    BY <1>3, <2>1, DoneFacts
<1>5. CASE ~ (next.index > Capacity \/ left = 0)
  <2>1. Advanced(x) = [next EXCEPT !.step = "READ"]
    BY <1>5 DEF Advanced
  <2>2. next.index \in Slot
    BY <1>2, <1>3, <1>5, SmsRecoveryAssumption DEF Slot
  <2> HIDE DEF next
  <2> QED
    BY <1>3, <2>1, <2>2 DEF Recovery, Steps
<1> QED
  BY <1>4, <1>5

(* A command keeps the slot and the bytes, and awaits its own answer.      *)
LEMMA CommandedFacts ==
    ASSUME NEW x \in Recovery
    PROVE  /\ Commanded(x) \in Recovery
           /\ Commanded(x).step = IF x.step = "NONE" THEN "SELECT" ELSE x.step
           /\ Commanded(x).issued
           /\ ~ Commanded(x).payload
           /\ ~ Commanded(x).match
           /\ Commanded(x).index = x.index
           /\ Commanded(x).pdu = x.pdu
           /\ Commanded(x).filtered = x.filtered
BY DEF Commanded, Recovery, Steps

(* A count is taken only while one is expected.                            *)
LEMMA SelectedFacts ==
    ASSUME NEW x \in Recovery, NEW used \in 0 .. Capacity, NEW garbled
    PROVE  /\ Selected(x, used, garbled) \in Recovery
           /\ \A f \in {"step", "issued", "payload", "readable", "match",
                        "filtered", "index", "pdu"} :
                  Selected(x, used, garbled)[f] = x[f]
BY DEF Selected, Recovery

(* A header line says only whether the record can be read.                 *)
LEMMA HeadedFacts ==
    ASSUME NEW x \in Recovery, NEW readable \in BOOLEAN
    PROVE  /\ Headed(x, readable) \in Recovery
           /\ \A f \in {"step", "issued", "payload", "match", "filtered",
                        "index", "pdu"} : Headed(x, readable)[f] = x[f]
BY DEF Headed, Recovery

(* A body is kept when it is read and compared when it is verified.        *)
LEMMA LoadedFacts ==
    ASSUME NEW x \in Recovery, NEW frag \in Frag \union {Empty},
           x.filtered => x.pdu \in Control
    PROVE  LET y == Loaded(x, frag)
           IN  /\ y \in Recovery
               /\ y.step = x.step
               /\ y.issued = x.issued
               /\ y.index = x.index
               /\ y.filtered => y.pdu \in Control
               /\ x.step # "READ" => y.pdu = x.pdu
               /\ x.step = "READ" /\ ~ x.payload /\ y.readable => y.pdu \in Frag
               /\ x.step = "VERIFY" /\ y.match => x.match \/ x.pdu = frag
<1>1. CASE x.step \notin {"READ", "VERIFY"}
  BY <1>1 DEF Loaded, Recovery
<1>5. CASE x.step \in {"READ", "VERIFY"} /\ x.payload
  BY <1>5 DEF Loaded, Recovery
<1>2. CASE /\ x.step \in {"READ", "VERIFY"} /\ ~ x.payload
           /\ ~ x.readable \/ frag = Empty
  BY <1>2 DEF Loaded, Recovery
<1>3. CASE /\ x.step = "READ" /\ ~ x.payload
           /\ x.readable /\ frag # Empty
  <2>1. Loaded(x, frag) = [x EXCEPT !.payload = TRUE, !.pdu = frag,
                                    !.filtered = (frag \in Control)]
    BY <1>3 DEF Loaded
  <2>2. frag \in Frag
    BY <1>3
  <2> DEFINE b == (frag \in Control)
             y == [x EXCEPT !.payload = TRUE, !.pdu = frag, !.filtered = b]
  <2>3. /\ y \in Recovery
        /\ y.step = x.step
        /\ y.issued = x.issued
        /\ y.index = x.index
        /\ y.pdu = frag
        /\ y.filtered = b
    <3>1. b \in BOOLEAN
      OBVIOUS
    <3> HIDE DEF b
    <3> QED
      BY <3>1 DEF Recovery
  <2> QED
    BY <2>1, <2>2, <2>3, <1>3
<1>4. CASE /\ x.step = "VERIFY" /\ ~ x.payload
           /\ x.readable /\ frag # Empty
  BY <1>4 DEF Loaded, Recovery
<1> QED
  BY <1>1, <1>2, <1>3, <1>4, <1>5 DEF Recovery, Steps

(* The final result of the awaited command: only a whole, readable record  *)
(* is stored, and only one that reads back the same is deleted.            *)
LEMMA FinishedFacts ==
    ASSUME NEW x \in Recovery, NEW ok \in BOOLEAN, NEW emptySlot \in BOOLEAN,
           x.issued,
           x.step \in {"READ", "STORE", "VERIFY", "DELETE"} => x.index \in Slot
    PROVE  LET y == Finished(x, ok, emptySlot)
           IN  /\ y \in Recovery
               /\ y.pdu = x.pdu
               /\ y.filtered = x.filtered
               /\ y.step \in {"READ", "STORE", "VERIFY", "DELETE"} =>
                      y.index \in Slot
               /\ y.step = "STORE" => \/ x.step = "STORE"
                                      \/ x.step = "READ" /\ x.readable /\ x.payload
               /\ y.step # "VERIFY"
               /\ y.step = "DELETE" =>
                      x.step = "VERIFY" /\ x.match /\ y.index = x.index
<1> DEFINE y == [x EXCEPT !.issued = FALSE]
           failed == [y EXCEPT !.retry = TRUE]
           Kept(z) == /\ z \in Recovery
                      /\ z.pdu = x.pdu
                      /\ z.filtered = x.filtered
<1>1. /\ Kept(y)
      /\ Kept(failed)
      /\ y.step = x.step /\ failed.step = x.step
      /\ y.index = x.index /\ failed.index = x.index
      /\ y.readable = x.readable /\ y.payload = x.payload /\ y.match = x.match
  BY DEF Recovery
<1>2. 1 \in Slot /\ 1 \in 0 .. Capacity + 1
  BY SmsRecoveryAssumption DEF Slot
<1>3. CASE x.step = "SELECT"
  <2> DEFINE first == [y EXCEPT !.index = 1]
             read == [y EXCEPT !.index = 1, !.step = "READ"]
  <2>1. /\ Kept(first)
        /\ Kept(read)
        /\ read.step = "READ" /\ read.index = 1
    BY <1>2 DEF Recovery, Steps
  <2>2. \/ Finished(x, ok, emptySlot) = Deferred(y)
        \/ Finished(x, ok, emptySlot) = Done(first)
        \/ Finished(x, ok, emptySlot) = read
    BY <1>1, <1>3 DEF Finished
  <2> HIDE DEF y, failed, first, read
  <2>3. Kept(Deferred(y)) /\ Deferred(y).step = "NONE"
    BY <1>1, DeferredFacts
  <2>4. Kept(Done(first)) /\ Done(first).step = "NONE"
    BY <2>1, DoneFacts
  <2> QED
    BY <1>2, <2>1, <2>2, <2>3, <2>4
<1>4. CASE x.step = "READ"
  <2> DEFINE stored1 == [y EXCEPT !.step = "STORE"]
  <2>1. Kept(stored1) /\ stored1.step = "STORE" /\ stored1.index = x.index
    BY DEF Recovery, Steps
  <2>2. \/ /\ Finished(x, ok, emptySlot) = stored1
           /\ x.readable /\ x.payload
        \/ Finished(x, ok, emptySlot) = Advanced(y)
        \/ Finished(x, ok, emptySlot) = Advanced(failed)
    BY <1>1, <1>4 DEF Finished
  <2> HIDE DEF y, failed, stored1
  <2>3. /\ Kept(Advanced(y))
        /\ Advanced(y).step \in {"NONE", "READ"}
        /\ Advanced(y).step = "READ" => Advanced(y).index \in Slot
    BY <1>1, <1>4, AdvancedFacts
  <2>4. /\ Kept(Advanced(failed))
        /\ Advanced(failed).step \in {"NONE", "READ"}
        /\ Advanced(failed).step = "READ" => Advanced(failed).index \in Slot
    BY <1>1, <1>4, AdvancedFacts
  <2> QED
    BY <1>4, <2>1, <2>2, <2>3, <2>4
<1>5. CASE x.step = "VERIFY"
  <2> DEFINE delete == [y EXCEPT !.step = "DELETE"]
  <2>1. Kept(delete) /\ delete.step = "DELETE" /\ delete.index = x.index
    BY DEF Recovery, Steps
  <2>2. \/ Finished(x, ok, emptySlot) = delete /\ x.match
        \/ Finished(x, ok, emptySlot) = Deferred(y)
    BY <1>1, <1>5 DEF Finished
  <2> HIDE DEF y, failed, delete
  <2>3. Kept(Deferred(y)) /\ Deferred(y).step = "NONE"
    BY <1>1, DeferredFacts
  <2> QED
    BY <1>5, <2>1, <2>2, <2>3
<1>6. CASE x.step = "DELETE"
  <2> DEFINE good == [y EXCEPT !.header = TRUE]
             bad == [failed EXCEPT !.header = TRUE]
  <2>1. /\ Kept(good) /\ good.index = x.index
        /\ Kept(bad) /\ bad.index = x.index
    BY DEF Recovery
  <2>2. \/ Finished(x, ok, emptySlot) = Advanced(good)
        \/ Finished(x, ok, emptySlot) = Advanced(bad)
    BY <1>1, <1>6 DEF Finished
  <2> HIDE DEF y, failed, good, bad
  <2>3. /\ Kept(Advanced(good))
        /\ Advanced(good).step \in {"NONE", "READ"}
        /\ Advanced(good).step = "READ" => Advanced(good).index \in Slot
    BY <1>6, <2>1, AdvancedFacts
  <2>4. /\ Kept(Advanced(bad))
        /\ Advanced(bad).step \in {"NONE", "READ"}
        /\ Advanced(bad).step = "READ" => Advanced(bad).index \in Slot
    BY <1>6, <2>1, AdvancedFacts
  <2> QED
    BY <2>2, <2>3, <2>4
<1>7. CASE x.step \notin {"SELECT", "READ", "VERIFY", "DELETE"}
  <2>1. Finished(x, ok, emptySlot) = y
    BY <1>1, <1>7 DEF Finished
  <2> HIDE DEF y, failed
  <2> QED
    BY <1>1, <1>7, <2>1
<1> QED
  BY <1>3, <1>4, <1>5, <1>6, <1>7

-----------------------------------------------------------------------------
(* The driver: every step preserves the invariant.                         *)

(* A state from which the next command may be sent.                        *)
Ready(x) ==
    /\ x \in Recovery
    /\ x.step # "STORE"
    /\ x.step \in {"READ", "VERIFY", "DELETE"} => x.index \in Slot
    /\ x.filtered => x.pdu \in Control
    /\ x.step \in {"VERIFY", "DELETE"} => x.pdu \in stored \union Control
    /\ x.step = "DELETE" => slot[x.index] \in stored \union Control

(* The command sent for a state is the one whose answer it awaits.         *)
LEMMA CommandForFacts ==
    ASSUME NEW x \in Recovery
    PROVE  LET c == CommandFor(x)
           IN  /\ c \in Wire
               /\ c.owner = "recovery"
               /\ c.said = "nothing"
               /\ c.at = x.index
               /\ c.cmd = CASE x.step = "SELECT" -> "SELECT"
                            [] x.step = "DELETE" -> "CMGD"
                            [] OTHER             -> "CMGR"
BY DEF CommandFor, Wire, Recovery

LEMMA ProceedInvariant ==
    ASSUME IInv, Free, NEW x, Ready(x), Proceed(x),
           trouble' \in Nat, refused' \subseteq Frag,
           UNCHANGED <<slot, cmti, simReady, completing, stored, arrivals>>
    PROVE  IInv'
<1>1. /\ admitted' \in BOOLEAN
      /\ receipt' \in {"none", "waiting", "committed"}
      /\ subject' \subseteq Frag
      /\ x.step \notin {"STORE", "VERIFY", "DELETE"} => receipt' = "none"
  BY DEF Proceed, Release, IInv, TypeOK
<1>2. CASE /\ r' = Commanded(x)
           /\ wire' = CommandFor(Commanded(x))
           /\ invalidated' = FALSE
  <2>1. /\ r' \in Recovery
        /\ r'.step = IF x.step = "NONE" THEN "SELECT" ELSE x.step
        /\ r'.issued /\ ~ r'.payload /\ ~ r'.match
        /\ r'.index = x.index /\ r'.pdu = x.pdu /\ r'.filtered = x.filtered
    BY <1>2, CommandedFacts DEF Ready
  <2>2. /\ wire' \in Wire
        /\ wire'.owner = "recovery"
        /\ wire'.said = "nothing"
        /\ wire'.at = r'.index
        /\ wire'.cmd = CASE r'.step = "SELECT" -> "SELECT"
                         [] r'.step = "DELETE" -> "CMGD"
                         [] OTHER              -> "CMGR"
    BY <1>2, <2>1, CommandForFacts
  <2>3. r'.step \in {"SELECT", "READ", "VERIFY", "DELETE"}
    BY <2>1 DEF Ready, Recovery, Steps
  <2>4. TypeOK'
    BY <1>1, <1>2, <2>1, <2>2 DEF IInv, TypeOK
  <2>5. IndexInv'
    BY <2>1 DEF IndexInv, Ready, Slot
  <2>6. WireInv'
    BY <2>1, <2>2, <2>3 DEF WireInv, Ready, Listening, Slot
  <2>7. BytesInv'
    BY <1>1, <2>1, <2>2, <2>3 DEF BytesInv, Ready, Free, Disowned
  <2>8. WireIsExpected'
    BY <2>1, <2>2 DEF WireIsExpected
  <2> QED
    BY <2>4, <2>5, <2>6, <2>7, <2>8 DEF IInv
<1>3. CASE r' = x /\ UNCHANGED <<wire, invalidated>>
  <2>1. TypeOK'
    BY <1>1, <1>3 DEF IInv, TypeOK, Ready
  <2>2. IndexInv'
    BY <1>3 DEF IndexInv, Ready, Slot
  <2>3. WireInv'
    BY <1>3 DEF IInv, WireInv, Free, Listening
  <2>4. BytesInv'
    BY <1>3 DEF BytesInv, Ready, Free, Disowned
  <2>5. WireIsExpected'
    BY <1>3 DEF WireIsExpected, Free
  <2> QED
    BY <2>1, <2>2, <2>3, <2>4, <2>5 DEF IInv
<1> QED
  BY <1>2, <1>3 DEF Proceed

(* Init establishes the invariant.                                         *)
LEMMA InitInvariant == Init => IInv
<1> SUFFICES ASSUME Init PROVE IInv
  OBVIOUS
<1>1. Fresh \in Recovery /\ Fresh.step = "NONE" /\ ~ Fresh.filtered
  BY FreshType
<1>2. TypeOK
  <2>1. slot \in [Slot -> Frag \union {Empty}]
    BY DEF Init
  <2>2. wire \in Wire
    BY SmsRecoveryAssumption DEF Init, Quiet, Wire
  <2> QED
    BY <1>1, <2>1, <2>2 DEF Init, TypeOK, Store!Init
<1> QED
  BY <1>1, <1>2 DEF Init, IInv, IndexInv, WireInv, BytesInv, WireIsExpected,
                    Store!Init, Quiet, Listening, Free, Disowned

(* A step of the store or of the phone.                                    *)
LEMMA StartStep == IInv /\ Start => IInv'
<1> SUFFICES ASSUME IInv, Start PROVE IInv'
  OBVIOUS
<1>1. /\ Free /\ r \in Recovery
      /\ trouble' \in Nat /\ refused' \subseteq Frag
      /\ UNCHANGED <<slot, cmti, simReady, completing, stored, arrivals>>
  BY DEF Start, Idle, Calm, IInv, TypeOK
<1>2. CASE r.step = "STORE" /\ Durable
  <2> DEFINE x == [r EXCEPT !.step = "VERIFY"]
  <2>1. Committed(r) = x
    BY <1>2 DEF Committed
  <2>2. /\ x \in Recovery /\ x.step = "VERIFY" /\ x.index = r.index
        /\ x.pdu = r.pdu /\ x.filtered = r.filtered
    BY <1>1 DEF Recovery, Steps
  <2>3. r.index \in Slot /\ (r.filtered => r.pdu \in Control)
    BY <1>1, <1>2 DEF IInv, IndexInv, BytesInv, Disowned, Free
  <2>4. r.pdu \in stored \union Control
    BY <1>2 DEF Durable, IInv, BytesInv
  <2>5. Ready(x)
    <3> HIDE DEF x
    <3> QED
      BY <2>2, <2>3, <2>4 DEF Ready
  <2>6. Proceed(x)
    BY <1>2, <2>1 DEF Start
  <2> QED
    BY <1>1, <2>5, <2>6, ProceedInvariant
<1>3. CASE r.step # "STORE"
  <2>1. Ready(r)
    BY <1>1, <1>3 DEF Ready, IInv, IndexInv, BytesInv, Disowned, Free
  <2> QED
    BY <1>1, <1>3, <2>1, ProceedInvariant DEF Start
<1> QED
  BY <1>2, <1>3 DEF Start

LEMMA StartAdmitStep == IInv /\ StartAdmit => IInv'
<1> SUFFICES ASSUME IInv, StartAdmit PROVE IInv'
  OBVIOUS
<1>1. /\ Free /\ r \in Recovery /\ r.step = "STORE" /\ ~ r.filtered
      /\ r.index \in Slot /\ r.pdu \in Frag
  BY DEF StartAdmit, Idle, IInv, TypeOK, IndexInv, BytesInv, Disowned, Free
<1>2. /\ admitted' = TRUE /\ receipt = "none" /\ stored' = stored
      /\ trouble' = trouble
      /\ UNCHANGED <<slot, cmti, simReady, completing, refused, arrivals>>
      /\ \/ receipt' = "waiting" /\ subject' = {r.pdu}
         \/ receipt' = "committed" /\ subject' = {}
      /\ receipt' = "committed" => r.pdu \in stored
  BY DEF StartAdmit, Store!Admit, Calm
<1>3. CASE receipt' = "waiting" /\ r' = r /\ UNCHANGED <<wire, invalidated>>
  <2>1. TypeOK'
    BY <1>1, <1>2, <1>3 DEF IInv, TypeOK
  <2>2. IndexInv' /\ WireInv' /\ WireIsExpected'
    BY <1>1, <1>2, <1>3 DEF IInv, IndexInv, WireInv, WireIsExpected, Free,
                           Listening, Disowned, Slot
  <2>3. BytesInv'
    BY <1>1, <1>2, <1>3 DEF IInv, BytesInv, Free, Disowned
  <2> QED
    BY <2>1, <2>2, <2>3 DEF IInv
<1>4. CASE /\ receipt' = "committed"
           /\ r' = Commanded(Committed(r))
           /\ wire' = CommandFor(r')
           /\ invalidated' = FALSE
  <2> DEFINE x == [r EXCEPT !.step = "VERIFY"]
  <2>1. Committed(r) = x
    BY <1>1 DEF Committed
  <2>2. /\ x \in Recovery /\ x.step = "VERIFY" /\ x.index = r.index
        /\ x.pdu = r.pdu /\ x.filtered = r.filtered
    BY <1>1 DEF Recovery, Steps
  <2> HIDE DEF x
  <2>3. /\ r' \in Recovery /\ r'.step = "VERIFY" /\ r'.issued
        /\ ~ r'.payload /\ ~ r'.match /\ ~ r'.filtered
        /\ r'.index = r.index /\ r'.pdu = r.pdu
    BY <1>1, <1>4, <2>1, <2>2, CommandedFacts
  <2>4. /\ wire' \in Wire /\ wire'.owner = "recovery"
        /\ wire'.said = "nothing" /\ wire'.at = r'.index
        /\ wire'.cmd = "CMGR"
    BY <1>4, <2>3, CommandForFacts
  <2>5. TypeOK'
    BY <1>2, <1>4, <2>3, <2>4 DEF IInv, TypeOK
  <2>6. IndexInv' /\ WireInv' /\ WireIsExpected'
    BY <1>1, <2>3, <2>4 DEF IndexInv, WireInv, WireIsExpected, Slot, Listening
  <2>7. BytesInv'
    BY <1>2, <1>4, <2>3, <2>4 DEF BytesInv, Free, Disowned
  <2> QED
    BY <2>5, <2>6, <2>7 DEF IInv
<1> QED
  BY <1>3, <1>4 DEF StartAdmit

LEMMA StartRefusedStep == IInv /\ StartRefused => IInv'
<1> SUFFICES ASSUME IInv, StartRefused PROVE IInv'
  OBVIOUS
<1>1. /\ Free /\ r \in Recovery /\ r.step = "STORE" /\ ~ r.filtered
      /\ r.index \in Slot /\ r.pdu \in Frag
  BY DEF StartRefused, Idle, IInv, TypeOK, IndexInv, BytesInv, Disowned, Free
<1>2. /\ trouble' \in Nat /\ refused' \subseteq Frag
      /\ UNCHANGED <<slot, cmti, simReady, completing, stored, arrivals>>
  BY <1>1 DEF StartRefused, Trouble, IInv, TypeOK
<1>3. CASE Proceed(Rejected(r))
  <2>1. Rejected(r) = Advanced(r)
    BY <1>1 DEF Rejected
  <2>2. Ready(Advanced(r))
    BY <1>1, AdvancedFacts DEF Ready
  <2> QED
    BY <1>1, <1>2, <1>3, <2>1, <2>2, ProceedInvariant
<1>4. CASE Proceed(Deferred(r))
  <2>1. Ready(Deferred(r))
    BY <1>1, DeferredFacts DEF Ready
  <2> QED
    BY <1>1, <1>2, <1>4, <2>1, ProceedInvariant
<1> QED
  BY <1>3, <1>4 DEF StartRefused

LEMMA StoreCommitStep == IInv /\ StoreCommit => IInv'
<1> SUFFICES ASSUME IInv, StoreCommit PROVE IInv'
  OBVIOUS
<1>1. /\ receipt = "waiting" /\ receipt' = "committed"
      /\ subject' = subject /\ stored' = stored \union subject
      /\ UNCHANGED <<slot, wire, cmti, simReady, completing, r, admitted,
                     invalidated, refused, arrivals, trouble>>
  BY DEF StoreCommit, Store!Commit
<1>2. TypeOK'
  BY <1>1 DEF IInv, TypeOK
<1>3. IndexInv' /\ WireInv' /\ WireIsExpected'
  BY <1>1 DEF IInv, IndexInv, WireInv, WireIsExpected, Listening, Disowned, Slot
<1>4. BytesInv'
  BY <1>1 DEF IInv, BytesInv, Free, Disowned
<1> QED
  BY <1>2, <1>3, <1>4 DEF IInv

(* A reset forgets the record; what the modem was asked stays harmless.    *)
LEMMA ResetInvariant ==
    ASSUME IInv, NEW x \in Recovery, x.step = "NONE", ~ x.filtered, Reset(x),
           \/ wire' = wire
           \/ wire' = Quiet
           \/ wire' = [Quiet EXCEPT !.owner = "debug", !.cmd = "other"],
           cmti' \in BOOLEAN, simReady' \in BOOLEAN, completing' \in BOOLEAN,
           trouble' \in Nat, UNCHANGED <<slot, refused, arrivals>>
    PROVE  IInv'
<1>1. /\ r' = x /\ invalidated' = TRUE /\ stored' = stored
      /\ receipt' = "none" /\ subject' = {} /\ admitted' = FALSE
  BY DEF Reset, Release
<1>2. /\ wire' \in Wire
      /\ wire' = wire \/ wire'.owner \in {"none", "debug"}
      /\ wire' = wire \/ wire'.said = "nothing"
  <2>1. 0 \in 0 .. Capacity + 1
    BY SmsRecoveryAssumption
  <2>2. CASE wire' = wire
    BY <2>2 DEF IInv, TypeOK
  <2>3. CASE wire' = Quiet
    BY <2>1, <2>3 DEF Quiet, Wire
  <2>4. CASE wire' = [Quiet EXCEPT !.owner = "debug", !.cmd = "other"]
    BY <2>1, <2>4 DEF Quiet, Wire
  <2> QED
    BY <2>2, <2>3, <2>4
<1>3. TypeOK'
  BY <1>1, <1>2 DEF IInv, TypeOK
<1>4. IndexInv' /\ WireIsExpected'
  BY <1>1 DEF IndexInv, WireIsExpected
<1>5. WireInv'
  BY <1>1, <1>2 DEF IInv, WireInv, Listening, Slot
<1>6. BytesInv'
  BY <1>1, <1>2 DEF BytesInv, Free, Disowned
<1> QED
  BY <1>3, <1>4, <1>5, <1>6 DEF IInv

LEMMA TimeoutStep == IInv /\ Timeout => IInv'
<1> SUFFICES ASSUME IInv, Timeout PROVE IInv'
  OBVIOUS
<1>1. /\ wire.owner = "recovery" /\ r \in Recovery /\ wire \in Wire
      /\ r.filtered => r.pdu \in Control
      /\ trouble' \in Nat
      /\ UNCHANGED <<slot, cmti, simReady, completing, admitted, invalidated,
                     receipt, subject, stored, refused, arrivals>>
  BY DEF Timeout, Trouble, IInv, TypeOK, BytesInv, modem, store
<1>2. /\ r' \in Recovery /\ r'.step = "NONE"
      /\ r'.pdu = r.pdu /\ r'.filtered = r.filtered
  BY <1>1, DeferredFacts DEF Timeout
<1>3. /\ wire' \in Wire /\ wire'.owner = "drain" /\ wire'.cmd = wire.cmd
      /\ wire'.at = wire.at /\ wire'.said = wire.said
  BY <1>1 DEF Timeout, Wire
<1>4. TypeOK'
  BY <1>1, <1>2, <1>3 DEF IInv, TypeOK
<1>5. IndexInv' /\ WireIsExpected'
  BY <1>2, <1>3 DEF IndexInv, WireIsExpected
<1>6. WireInv'
  BY <1>1, <1>3 DEF IInv, WireInv, Listening, Slot
<1>7. BytesInv'
  BY <1>1, <1>2, <1>3 DEF BytesInv, Free, Disowned
<1> QED
  BY <1>4, <1>5, <1>6, <1>7 DEF IInv

LEMMA SessionLostStep == IInv /\ SessionLost => IInv'
<1> SUFFICES ASSUME IInv, SessionLost PROVE IInv'
  OBVIOUS
<1>1. Reset(Fresh) /\ wire' = Quiet
  BY DEF SessionLost
<1>2. cmti' \in BOOLEAN /\ simReady' \in BOOLEAN /\ completing' \in BOOLEAN
  BY Zenon DEF SessionLost, IInv, TypeOK
<1>3. trouble' \in Nat /\ UNCHANGED <<slot, refused, arrivals>>
  BY DEF SessionLost, Trouble, IInv, TypeOK
<1> QED
  BY <1>1, <1>2, <1>3, FreshType, ResetInvariant

LEMMA SimLostStep == IInv /\ SimLost => IInv'
<1> SUFFICES ASSUME IInv, SimLost PROVE IInv'
  OBVIOUS
<1>1. Reset(Fresh) /\ wire' = wire
  BY DEF SimLost
<1>2. cmti' \in BOOLEAN /\ simReady' \in BOOLEAN /\ completing' \in BOOLEAN
  BY Zenon DEF SimLost, IInv, TypeOK
<1>3. trouble' \in Nat /\ UNCHANGED <<slot, refused, arrivals>>
  BY DEF SimLost, Trouble, IInv, TypeOK
<1> QED
  BY <1>1, <1>2, <1>3, FreshType, ResetInvariant

LEMMA DebugCommandStep == IInv /\ DebugCommand => IInv'
<1> SUFFICES ASSUME IInv, DebugCommand PROVE IInv'
  OBVIOUS
<1>1. /\ Requested(Fresh) \in Recovery
      /\ Requested(Fresh).step = "NONE"
      /\ ~ Requested(Fresh).filtered
  BY FreshType, RequestedFacts
<1>2. /\ Reset(Requested(Fresh))
      /\ wire' = [Quiet EXCEPT !.owner = "debug", !.cmd = "other"]
      /\ cmti' \in BOOLEAN /\ simReady' \in BOOLEAN /\ completing' \in BOOLEAN
      /\ trouble' \in Nat /\ UNCHANGED <<slot, refused, arrivals>>
  BY DEF DebugCommand, Trouble, IInv, TypeOK
<1> QED
  BY <1>1, <1>2, ResetInvariant

(* A request keeps the record being handled.                               *)
LEMMA RequestStep ==
    ASSUME IInv, r' = Requested(r),
           cmti' \in BOOLEAN, completing' \in BOOLEAN,
           UNCHANGED <<slot, wire, simReady, admitted, invalidated,
                       store, refused, arrivals, trouble>>
    PROVE  IInv'
<1>1. /\ r' \in Recovery /\ r'.step = r.step /\ r'.issued = r.issued
      /\ r'.payload = r.payload /\ r'.readable = r.readable
      /\ r'.match = r.match /\ r'.filtered = r.filtered
      /\ r'.index = r.index /\ r'.pdu = r.pdu
  BY RequestedFacts DEF IInv, TypeOK
<1>2. TypeOK'
  BY <1>1 DEF IInv, TypeOK, store
<1>3. IndexInv' /\ WireInv' /\ WireIsExpected'
  BY <1>1 DEF IInv, IndexInv, WireInv, WireIsExpected, Listening, Disowned,
              Slot, store
<1>4. BytesInv'
  BY <1>1 DEF IInv, BytesInv, Free, Disowned, store
<1> QED
  BY <1>2, <1>3, <1>4 DEF IInv

LEMMA EnterReadyStep == IInv /\ EnterReady => IInv'
BY RequestStep DEF EnterReady, IInv, TypeOK

LEMMA IndicationStep == IInv /\ Indication => IInv'
BY RequestStep DEF Indication, IInv, TypeOK

LEMMA SimBackStep == IInv /\ SimBack => IInv'
<1> SUFFICES ASSUME IInv, SimBack PROVE IInv'
  OBVIOUS
<1>1. TypeOK'
  BY DEF SimBack, IInv, TypeOK, store
<1>2. IndexInv' /\ WireInv' /\ WireIsExpected' /\ BytesInv'
  BY DEF SimBack, IInv, IndexInv, WireInv, WireIsExpected, BytesInv, Listening,
         Disowned, Free, Slot, store
<1> QED
  BY <1>1, <1>2 DEF IInv

LEMMA DebugStep ==
    IInv /\ (DebugFinal \/ \E s \in Slot, f \in Frag \union {Empty} :
                               DebugEffect(s, f)) => IInv'
<1> SUFFICES ASSUME IInv,
                    \/ DebugFinal
                    \/ \E s \in Slot, f \in Frag \union {Empty} : DebugEffect(s, f)
             PROVE  IInv'
  OBVIOUS
<1>1. /\ wire.owner = "debug" /\ r.step = "NONE" /\ r' = r
      /\ UNCHANGED <<cmti, simReady, completing, admitted, invalidated,
                     receipt, subject, stored, refused, arrivals, trouble>>
  BY DEF DebugFinal, DebugEffect, IInv, BytesInv, modem, store
<1>2. slot' \in [Slot -> Frag \union {Empty}]
  BY DEF DebugFinal, DebugEffect, IInv, TypeOK
<1>3. /\ wire' \in Wire /\ wire'.owner \in {"none", "debug"}
      /\ wire'.said # "header"
  BY SmsRecoveryAssumption DEF DebugFinal, DebugEffect, Quiet, Wire, IInv, TypeOK
<1>4. TypeOK'
  BY <1>1, <1>2, <1>3 DEF IInv, TypeOK
<1>5. IndexInv' /\ WireInv' /\ WireIsExpected'
  BY <1>1, <1>3 DEF IndexInv, WireInv, WireIsExpected, Listening
<1>6. BytesInv'
  BY <1>1, <1>3 DEF IInv, BytesInv, Free, Disowned
<1> QED
  BY <1>4, <1>5, <1>6 DEF IInv

(* A record arrives in an empty slot, so not where one is handled.         *)
LEMMA ArriveStep ==
    ASSUME IInv, NEW s \in Slot, NEW f \in Frag, Arrive(s, f) PROVE IInv'
<1>1. /\ slot[s] = Empty /\ slot' = [slot EXCEPT ![s] = f]
      /\ cmti' = TRUE /\ arrivals' = arrivals + 1
      /\ UNCHANGED <<wire, simReady, completing, r, admitted, invalidated,
                     receipt, subject, stored, refused, trouble>>
  BY DEF Arrive, store
<1>2. Empty \notin stored \union Control
  BY SmsRecoveryAssumption DEF IInv, TypeOK
<1>3. \A i : i # s => slot'[i] = slot[i]
  BY <1>1 DEF IInv, TypeOK
<1>4. TypeOK'
  BY <1>1 DEF IInv, TypeOK
<1>5. IndexInv' /\ WireIsExpected'
  BY <1>1 DEF IInv, IndexInv, WireIsExpected, Disowned, Slot
<1>6. WireInv'
  BY <1>1, <1>2, <1>3 DEF IInv, WireInv, Listening, Slot
<1>7. BytesInv'
  <2>1. CASE wire.owner = "recovery" /\ ~ invalidated /\ r.step = "VERIFY" /\ r.match
    <3>1. slot[wire.at] = r.pdu /\ r.pdu \in stored \union Control
      BY <2>1 DEF IInv, BytesInv, Disowned
    <3>2. slot'[wire.at] = r.pdu
      BY <1>1, <1>2, <1>3, <3>1
    <3> QED
      BY <1>1, <2>1, <3>2 DEF IInv, BytesInv, Free, Disowned
  <2>2. CASE Free /\ r.step = "DELETE"
    <3>1. slot[r.index] \in stored \union Control
      BY <2>2 DEF IInv, BytesInv
    <3>2. slot'[r.index] = slot[r.index]
      BY <1>1, <1>2, <1>3, <3>1
    <3> QED
      BY <1>1, <2>2, <3>1, <3>2 DEF IInv, BytesInv, Free, Disowned
  <2>3. CASE /\ ~ (Free /\ r.step = "DELETE")
             /\ ~ (/\ wire.owner = "recovery" /\ ~ invalidated
                   /\ r.step = "VERIFY" /\ r.match)
    BY <1>1, <2>3 DEF IInv, BytesInv, Free, Disowned
  <2> QED
    BY <2>1, <2>2, <2>3
<1> QED
  BY <1>4, <1>5, <1>6, <1>7 DEF IInv

(* What the modem answers.                                                 *)
LEMMA AnswerSelectStep ==
    ASSUME IInv, NEW garbled \in BOOLEAN, AnswerSelect(garbled) PROVE IInv'
<1>1. /\ Listening /\ wire.cmd = "SELECT" /\ wire \in Wire /\ r \in Recovery
      /\ wire' = [wire EXCEPT !.said = "done"]
      /\ trouble' \in Nat
      /\ UNCHANGED <<slot, cmti, simReady, completing, admitted, invalidated,
                     receipt, subject, stored, refused, arrivals>>
  BY DEF AnswerSelect, Calm, Trouble, IInv, TypeOK, modem, store
<1>2. /\ r' \in Recovery /\ r'.step = r.step /\ r'.issued = r.issued
      /\ r'.payload = r.payload /\ r'.readable = r.readable
      /\ r'.match = r.match /\ r'.filtered = r.filtered
      /\ r'.index = r.index /\ r'.pdu = r.pdu
  <2>1. Used \in 0 .. Capacity /\ r' = Selected(r, Used, garbled)
    BY UsedType DEF AnswerSelect
  <2> QED
    BY <1>1, <2>1, SelectedFacts
<1>3. /\ wire' \in Wire /\ wire'.owner = wire.owner /\ wire'.cmd = wire.cmd
      /\ wire'.at = wire.at /\ wire'.said = "done"
  BY <1>1 DEF Wire
<1>4. TypeOK'
  BY <1>1, <1>2, <1>3 DEF IInv, TypeOK
<1>5. IndexInv' /\ WireInv' /\ WireIsExpected'
  BY <1>1, <1>2, <1>3 DEF IInv, IndexInv, WireInv, WireIsExpected, Listening,
                         Disowned, Slot
<1>6. BytesInv'
  BY <1>1, <1>2, <1>3 DEF IInv, BytesInv, Free, Disowned
<1> QED
  BY <1>4, <1>5, <1>6 DEF IInv

LEMMA AnswerHeaderStep ==
    ASSUME IInv, NEW readable \in BOOLEAN, AnswerHeader(readable) PROVE IInv'
<1> DEFINE x == IF invalidated \/ wire.owner = "drain"
                THEN [r EXCEPT !.step = "READ"] ELSE r
<1>1. /\ Listening /\ wire.cmd = "CMGR" /\ wire.said = "nothing"
      /\ wire \in Wire /\ r \in Recovery
      /\ wire' = [wire EXCEPT !.said = "header"]
      /\ r' = Headed(x, readable)
      /\ trouble' \in Nat
      /\ UNCHANGED <<slot, cmti, simReady, completing, admitted, invalidated,
                     receipt, subject, stored, refused, arrivals>>
  BY DEF AnswerHeader, Calm, Trouble, IInv, TypeOK, modem, store
<1>2. /\ x \in Recovery /\ x.issued = r.issued /\ x.payload = r.payload
      /\ x.match = r.match /\ x.filtered = r.filtered
      /\ x.index = r.index /\ x.pdu = r.pdu
      /\ ~ Disowned => x.step = r.step
      /\ Disowned => x.step = "READ"
  BY <1>1 DEF Recovery, Steps, Disowned, Listening
<1> HIDE DEF x
<1>3. /\ r' \in Recovery /\ r'.step = x.step /\ r'.issued = r.issued
      /\ r'.payload = r.payload /\ r'.match = r.match
      /\ r'.filtered = r.filtered /\ r'.index = r.index /\ r'.pdu = r.pdu
  BY <1>1, <1>2, HeadedFacts
<1>4. /\ wire' \in Wire /\ wire'.owner = wire.owner /\ wire'.cmd = wire.cmd
      /\ wire'.at = wire.at /\ wire'.said = "header"
  BY <1>1 DEF Wire
<1>5. TypeOK'
  BY <1>1, <1>3, <1>4 DEF IInv, TypeOK
<1>6. CASE Disowned
  <2>1. Disowned'
    BY <1>1, <1>4, <1>6 DEF Disowned
  <2>2. IndexInv' /\ WireIsExpected'
    BY <2>1 DEF IndexInv, WireIsExpected, Disowned
  <2>3. WireInv'
    BY <1>1, <1>4 DEF IInv, WireInv, Listening, Slot
  <2>4. BytesInv'
    BY <1>1, <1>2, <1>3, <1>4, <1>6, <2>1
       DEF IInv, BytesInv, Free, Disowned, Listening
  <2> QED
    BY <1>5, <2>2, <2>3, <2>4 DEF IInv
<1>7. CASE ~ Disowned
  <2>1. r'.step = r.step
    BY <1>2, <1>3, <1>7
  <2>2. IndexInv' /\ WireInv' /\ WireIsExpected'
    BY <1>1, <1>3, <1>4, <1>7, <2>1
       DEF IInv, IndexInv, WireInv, WireIsExpected, Listening, Disowned, Slot
  <2>3. BytesInv'
    BY <1>1, <1>3, <1>4, <1>7, <2>1
       DEF IInv, BytesInv, Free, Disowned, Listening
  <2> QED
    BY <1>5, <2>2, <2>3 DEF IInv
<1> QED
  BY <1>6, <1>7

LEMMA AnswerBodyStep ==
    ASSUME IInv, NEW whole \in BOOLEAN, AnswerBody(whole) PROVE IInv'
<1> DEFINE frag == IF whole THEN slot[wire.at] ELSE Empty
<1>1. /\ Listening /\ wire.said = "header" /\ wire.cmd = "CMGR"
      /\ wire.at \in Slot /\ wire \in Wire /\ r \in Recovery
      /\ wire' = [wire EXCEPT !.said = "body"]
      /\ r' = Loaded(r, frag)
      /\ trouble' \in Nat
      /\ UNCHANGED <<slot, cmti, simReady, completing, admitted, invalidated,
                     receipt, subject, stored, refused, arrivals>>
  BY DEF AnswerBody, Calm, Trouble, IInv, TypeOK, WireInv, modem, store
<1>2. /\ frag \in Frag \union {Empty}
      /\ frag = slot[wire.at] \/ frag = Empty
  BY <1>1 DEF IInv, TypeOK
<1> HIDE DEF frag
<1>3. /\ r' \in Recovery /\ r'.step = r.step /\ r'.issued = r.issued
      /\ r'.index = r.index
      /\ r'.filtered => r'.pdu \in Control
      /\ r.step # "READ" => r'.pdu = r.pdu
      /\ r.step = "READ" /\ ~ r.payload /\ r'.readable => r'.pdu \in Frag
      /\ r.step = "VERIFY" /\ r'.match => r.match \/ r.pdu = frag
  <2>1. r.filtered => r.pdu \in Control
    BY DEF IInv, BytesInv
  <2> QED
    BY <1>1, <1>2, <2>1, LoadedFacts
<1>4. /\ wire' \in Wire /\ wire'.owner = wire.owner /\ wire'.cmd = wire.cmd
      /\ wire'.at = wire.at /\ wire'.said = "body"
  BY <1>1 DEF Wire
<1>5. TypeOK'
  BY <1>1, <1>3, <1>4 DEF IInv, TypeOK
<1>6. IndexInv' /\ WireInv' /\ WireIsExpected'
  BY <1>1, <1>3, <1>4 DEF IInv, IndexInv, WireInv, WireIsExpected, Listening,
                         Disowned, Slot
<1>7. BytesInv'
  <2>1. wire'.owner = "recovery" /\ ~ invalidated' /\ r'.step = "READ" =>
            /\ r'.payload => wire'.said \in {"body", "done"}
            /\ r'.payload /\ r'.readable => r'.pdu \in Frag
            /\ receipt' = "none"
    BY <1>1, <1>3, <1>4 DEF IInv, BytesInv
  <2>2. wire'.owner = "recovery" /\ ~ invalidated' /\ r'.step = "VERIFY"
            /\ r'.match => slot'[wire'.at] = r'.pdu
    <3> SUFFICES ASSUME wire.owner = "recovery", ~ invalidated,
                        r.step = "VERIFY", r'.match
                 PROVE  slot[wire.at] = r.pdu
      BY <1>1, <1>3, <1>4
    <3>1. CASE r.match
      BY <3>1 DEF IInv, BytesInv
    <3>2. CASE r.pdu = frag
      <4>1. r.pdu # Empty
        BY SmsRecoveryAssumption DEF IInv, BytesInv, TypeOK, Disowned
      <4> QED
        BY <1>2, <3>2, <4>1
    <3> QED
      BY <1>3, <3>1, <3>2
  <2>3. /\ wire'.owner = "debug" => r'.step = "NONE"
        /\ ~ Disowned' /\ r'.step \in {"VERIFY", "DELETE"} =>
               r'.pdu \in stored' \union Control
        /\ ~ Free'
    BY <1>1, <1>3, <1>4 DEF IInv, BytesInv, Disowned, Free, Listening
  <2>4. r'.step = "STORE" =>
            /\ r'.pdu \in Frag
            /\ receipt' = "waiting" => subject' = {r'.pdu}
            /\ receipt' = "committed" => r'.pdu \in stored'
    BY <1>1, <1>3 DEF IInv, BytesInv
  <2> QED
    BY <1>3, <2>1, <2>2, <2>3, <2>4 DEF BytesInv
<1> QED
  BY <1>5, <1>6, <1>7 DEF IInv

LEMMA AnswerDeleteStep == IInv /\ AnswerDelete => IInv'
<1> SUFFICES ASSUME IInv, AnswerDelete PROVE IInv'
  OBVIOUS
<1>1. /\ Listening /\ wire.cmd = "CMGD" /\ wire.said = "nothing"
      /\ wire \in Wire
      /\ slot' = [slot EXCEPT ![wire.at] = Empty]
      /\ wire' = [wire EXCEPT !.said = "done"]
      /\ UNCHANGED <<r, cmti, simReady, completing, admitted, invalidated,
                     receipt, subject, stored, refused, arrivals, trouble>>
  BY DEF AnswerDelete, Calm, IInv, TypeOK, modem, store
<1>2. /\ wire' \in Wire /\ wire'.owner = wire.owner /\ wire'.cmd = wire.cmd
      /\ wire'.at = wire.at /\ wire'.said = "done"
  BY <1>1 DEF Wire
<1>3. TypeOK'
  BY <1>1, <1>2 DEF IInv, TypeOK
<1>4. IndexInv' /\ WireInv' /\ WireIsExpected'
  BY <1>1, <1>2 DEF IInv, IndexInv, WireInv, WireIsExpected, Listening,
                   Disowned, Slot
<1>5. ~ (wire'.owner = "recovery" /\ ~ invalidated' /\ r'.step = "VERIFY")
  BY <1>1, <1>2 DEF IInv, WireIsExpected
<1>6. BytesInv'
  BY <1>1, <1>2, <1>5 DEF IInv, BytesInv, Free, Disowned, Listening
<1> QED
  BY <1>3, <1>4, <1>6 DEF IInv

LEMMA FinalStep ==
    ASSUME IInv, NEW ok \in BOOLEAN, NEW emptySlot \in BOOLEAN,
           Final(ok, emptySlot)
    PROVE  IInv'
<1>1. /\ Listening /\ wire' = Quiet /\ trouble' \in Nat /\ r \in Recovery
      /\ UNCHANGED <<slot, cmti, simReady, completing, refused, arrivals>>
      /\ cmti' \in BOOLEAN /\ simReady' \in BOOLEAN /\ completing' \in BOOLEAN
  BY DEF Final, Calm, Trouble, IInv, TypeOK
<1>2. CASE Disowned
  <2>1. /\ Deferred(Fresh) \in Recovery /\ Requested(Fresh) \in Recovery
        /\ Deferred(Fresh).step = "NONE" /\ Requested(Fresh).step = "NONE"
        /\ ~ Deferred(Fresh).filtered /\ ~ Requested(Fresh).filtered
    BY FreshType, DeferredFacts, RequestedFacts
  <2>2. \/ Reset(Deferred(Fresh))
        \/ Reset(Requested(Fresh))
        \/ Reset(Fresh)
    BY <1>2 DEF Final, Disowned
  <2> QED
    BY <1>1, <2>1, <2>2, FreshType, ResetInvariant
<1>3. CASE ~ Disowned
  <2>1. /\ wire.owner = "recovery" /\ ~ invalidated
        /\ r' = Finished(r, ok, emptySlot)
        /\ UNCHANGED <<admitted, invalidated, receipt, subject, stored>>
    BY <1>1, <1>3 DEF Final, Disowned, Listening, store
  <2>2. /\ r.issued
        /\ r.step \in {"READ", "STORE", "VERIFY", "DELETE"} => r.index \in Slot
        /\ wire.at = r.index \/ r.step = "SELECT"
    BY <1>1, <1>3, <2>1 DEF IInv, WireIsExpected, IndexInv
  <2>3. /\ r' \in Recovery
        /\ r'.pdu = r.pdu
        /\ r'.filtered = r.filtered
        /\ r'.step \in {"READ", "STORE", "VERIFY", "DELETE"} => r'.index \in Slot
        /\ r'.step = "STORE" => \/ r.step = "STORE"
                                \/ r.step = "READ" /\ r.readable /\ r.payload
        /\ r'.step # "VERIFY"
        /\ r'.step = "DELETE" =>
               r.step = "VERIFY" /\ r.match /\ r'.index = r.index
    BY <1>1, <2>1, <2>2, FinishedFacts
  <2>4. /\ wire' \in Wire /\ wire'.owner = "none" /\ wire'.said = "nothing"
    BY <1>1, SmsRecoveryAssumption DEF Quiet, Wire
  <2>5. TypeOK'
    BY <1>1, <2>1, <2>3, <2>4 DEF IInv, TypeOK
  <2>6. IndexInv' /\ WireInv' /\ WireIsExpected'
    BY <2>3, <2>4 DEF IndexInv, WireInv, WireIsExpected, Listening, Slot
  <2>7. r'.step = "DELETE" =>
            r'.pdu \in stored \union Control /\ slot[r'.index] = r'.pdu
    BY <1>3, <2>1, <2>2, <2>3 DEF IInv, BytesInv
  <2>8. r'.step = "STORE" =>
            /\ r'.pdu \in Frag
            /\ receipt' = "waiting" => subject' = {r'.pdu}
            /\ receipt' = "committed" => r'.pdu \in stored'
    BY <2>1, <2>3 DEF IInv, BytesInv
  <2>9. BytesInv'
    BY <1>1, <2>1, <2>3, <2>4, <2>7, <2>8 DEF IInv, BytesInv, Disowned
  <2> QED
    BY <2>5, <2>6, <2>9 DEF IInv
<1> QED
  BY <1>2, <1>3

-----------------------------------------------------------------------------
(* The theorems.                                                           *)

LEMMA NextInvariant == IInv /\ [Next]_vars => IInv'
<1> SUFFICES ASSUME IInv, [Next]_vars PROVE IInv'
  OBVIOUS
<1>1. CASE Phone
  BY <1>1, StartStep, StartAdmitStep, EnterReadyStep, IndicationStep DEF Phone
<1>2. CASE StoreCommit
  BY <1>2, StoreCommitStep
<1>3. CASE Answer
  BY <1>3, AnswerSelectStep, AnswerHeaderStep, AnswerBodyStep,
     AnswerDeleteStep, FinalStep, DebugStep DEF Answer
<1>4. CASE Fault
  BY <1>4, StartRefusedStep, AnswerSelectStep, AnswerHeaderStep,
     AnswerBodyStep, FinalStep, TimeoutStep, SessionLostStep, SimLostStep,
     DebugCommandStep DEF Fault
<1>5. CASE SimBack
  BY <1>5, SimBackStep
<1>6. CASE \E s \in Slot, f \in Frag \union {Empty} : DebugEffect(s, f)
  BY <1>6, DebugStep
<1>7. CASE \E s \in Slot, f \in Frag : Arrive(s, f)
  BY <1>7, ArriveStep
<1>8. CASE UNCHANGED vars
  <2>1. TypeOK'
    BY <1>8 DEF vars, store, IInv, TypeOK
  <2>2. IndexInv' /\ WireInv' /\ WireIsExpected' /\ BytesInv'
    BY <1>8 DEF vars, store, IInv, IndexInv, WireInv, WireIsExpected, BytesInv,
                Listening, Disowned, Free, Slot
  <2> QED
    BY <2>1, <2>2 DEF IInv
<1> QED
  BY <1>1, <1>2, <1>3, <1>4, <1>5, <1>6, <1>7, <1>8 DEF Next

(* The invariant holds in every reachable state.                           *)
THEOREM Invariant == Spec => []IInv
<1>1. Init => IInv
  BY InitInvariant
<1>2. IInv /\ [Next]_vars => IInv'
  BY NextInvariant
<1> QED
  BY <1>1, <1>2, PTL DEF Spec

(* Every variable keeps its type: in particular the slot a command names   *)
(* is never beyond the memory, whatever count the modem gave.              *)
THEOREM TypeCorrect == Spec => []TypeOK
BY Invariant, PTL DEF IInv

(* An answer reaches the state that asked for it, or is thrown away: a     *)
(* late answer never completes another command.                            *)
THEOREM AnswersAreExpected == Spec => []WireIsExpected
BY Invariant, PTL DEF IInv

(* The modem's copy of a message is deleted only when the same fragment    *)
(* is on the phone's media, or is a control that is not to be kept.        *)
LEMMA DeletedStep ==
    IInv /\ [Next]_vars =>
        [\A s \in Slot :
             slot[s] # Empty /\ slot'[s] = Empty /\ wire.owner # "debug" =>
                 slot[s] \in stored \union Control]_vars
<1> SUFFICES ASSUME IInv, Next, NEW s \in Slot,
                    slot[s] # Empty, slot'[s] = Empty, wire.owner # "debug"
             PROVE  slot[s] \in stored \union Control
  OBVIOUS
<1>1. CASE AnswerDelete
  <2>1. wire.at = s
    BY <1>1 DEF AnswerDelete, IInv, TypeOK
  <2> QED
    BY <1>1, <2>1 DEF AnswerDelete, IInv, WireInv
<1>2. CASE \E i \in Slot, f \in Frag : Arrive(i, f)
  <2>1. PICK i \in Slot, f \in Frag : Arrive(i, f)
    BY <1>2
  <2>2. slot'[s] = slot[s] \/ slot'[s] = f
    BY <2>1 DEF Arrive, IInv, TypeOK
  <2> QED
    BY <2>2, SmsRecoveryAssumption
<1>3. CASE slot' = slot
  BY <1>3
<1>4. \/ AnswerDelete
      \/ \E i \in Slot, f \in Frag : Arrive(i, f)
      \/ slot' = slot
  BY DEF Next, Phone, StoreCommit, Answer, Fault, SimBack, DebugEffect, Start,
         StartAdmit, EnterReady, Indication, AnswerSelect, AnswerHeader,
         AnswerBody, Final, DebugFinal, StartRefused, Timeout, SessionLost,
         SimLost, DebugCommand
<1> QED
  BY <1>1, <1>2, <1>3, <1>4

THEOREM DeletionIsSafe == Spec => DeletedIsStored
<1>1. IInv /\ [Next]_vars =>
        [\A s \in Slot :
             slot[s] # Empty /\ slot'[s] = Empty /\ wire.owner # "debug" =>
                 slot[s] \in stored \union Control]_vars
  BY DeletedStep
<1> QED
  BY <1>1, Invariant, PTL DEF Spec, DeletedIsStored

-----------------------------------------------------------------------------
(* A whole pass over the memory: the receipt that is looked at is the one  *)
(* of the record in hand, and a pass that has ended leaves no record       *)
(* behind.                                                                 *)

(* The answer to the command on the wire will be used.                     *)
Awaited == wire.owner = "recovery" /\ ~ invalidated

(* There is a receipt from the admission of a record to the command that   *)
(* looks for the next one.                                                 *)
ReceiptInv ==
    /\ admitted <=> receipt # "none"
    /\ receipt # "none" /\ r.step \in {"STORE", "VERIFY", "DELETE"} =>
           subject \subseteq {r.pdu}
    /\ Awaited /\ r.step \in {"SELECT", "READ"} => receipt = "none"
    /\ Free => r.step # "SELECT"

(* What is still to be done is on record.                                  *)
DueInv ==
    /\ r.step = "NONE" /\ ~ r.pending => ~ r.again /\ ~ r.retry
    /\ wire.owner = "debug" /\ simReady /\ ~ completing => r.pending
    /\ ~ Disowned /\ r.step # "NONE" => ~ r.pending
    /\ wire.said = "body" => wire.cmd = "CMGR"

-----------------------------------------------------------------------------
(* The memory m before a slot, with refused contents ref, and the number   *)
(* of records from a slot on.                                              *)
Behind(m, ref, i) == \A s \in Slot : s < i => m[s] \in ref \cup {Empty}

From(m, i) == {s \in Slot : s >= i /\ m[s] # Empty}

Ahead(m, i) == Cardinality(From(m, i))

(* A pass knows what it has left behind, and counts no fewer records than  *)
(* are ahead of it.                                                        *)
Coherent(x, m, ref) ==
    /\ x.step = "NONE" => Behind(m, ref, Capacity + 1)
    /\ x.step = "SELECT" /\ x.selected => Ahead(m, 1) <= x.remaining
    /\ x.step \in {"READ", "STORE", "VERIFY", "DELETE"} => Behind(m, ref, x.index)
    /\ x.step = "READ" => Ahead(m, x.index) <= x.remaining
    /\ x.step \in {"STORE", "VERIFY", "DELETE"} => Ahead(m, x.index + 1) < x.remaining
    /\ x.step = "STORE" => m[x.index] = x.pdu

(* What the answer to a command has shown so far.                          *)
Shown(x, m, said) ==
    /\ x.step = "READ" /\ x.header => m[x.index] # Empty
    /\ x.step = "READ" /\ x.readable /\ x.payload => m[x.index] = x.pdu
    /\ x.step = "DELETE" /\ said # "nothing" => m[x.index] = Empty

Quietly(x) == ~ x.pending /\ ~ x.again /\ ~ x.retry

(* Nothing has happened that another pass will look into.                  *)
Undisturbed ==
    /\ simReady /\ ~ completing /\ ~ cmti /\ ~ Disowned /\ wire.owner # "debug"
    /\ Quietly(r)

Pass ==
    Undisturbed =>
        Coherent(r, slot, refused) /\ (Awaited => Shown(r, slot, wire.said))

PInv == ReceiptInv /\ DueInv /\ Pass

Memory == [Slot -> Frag \cup {Empty}]

-----------------------------------------------------------------------------
(* Counting records.                                                       *)
LEMMA AheadType ==
  ASSUME NEW m, NEW i
  PROVE  IsFiniteSet(From(m, i)) /\ Ahead(m, i) \in Nat
<1>1. IsFiniteSet(Slot)
  <2>1. 1 \in Int /\ Capacity \in Int
    BY SmsRecoveryAssumption
  <2> QED
    BY <2>1, FS_Interval DEF Slot
<1>2. From(m, i) \in SUBSET Slot
  BY DEF From
<1> QED
  BY <1>1, <1>2, FS_Subset, FS_CardinalityType DEF Ahead

LEMMA AheadStep ==
  ASSUME NEW m, NEW i \in Slot
  PROVE  Ahead(m, i) = IF m[i] = Empty THEN Ahead(m, i + 1) ELSE Ahead(m, i + 1) + 1
<1>1. CASE m[i] = Empty
  <2>1. From(m, i) = From(m, i + 1)
    BY <1>1 DEF From, Slot
  <2> QED
    BY <1>1, <2>1 DEF Ahead
<1>2. CASE m[i] # Empty
  <2>1. From(m, i) = From(m, i + 1) \cup {i} /\ i \notin From(m, i + 1)
    BY <1>2 DEF From, Slot
  <2>2. IsFiniteSet(From(m, i + 1))
    BY AheadType
  <2> QED
    BY <1>2, <2>1, <2>2, FS_AddElement DEF Ahead
<1> QED
  BY <1>1, <1>2

(* A count of none: the rest of the memory is empty.                       *)
LEMMA NoneAhead ==
  ASSUME NEW m, NEW ref, NEW i \in Nat, Behind(m, ref, i), Ahead(m, i) = 0 \/ i > Capacity
  PROVE  Behind(m, ref, Capacity + 1)
<1>1. CASE Ahead(m, i) = 0
  <2>1. From(m, i) = {}
    BY <1>1, AheadType, FS_EmptySet DEF Ahead
  <2>2. \A s \in Slot : s < i \/ s >= i
    BY DEF Slot
  <2> QED
    BY <2>1, <2>2 DEF From, Behind
<1>2. CASE i > Capacity
  <2>1. \A s \in Slot : s < i
    BY <1>2, SmsRecoveryAssumption DEF Slot
  <2> QED
    BY <2>1 DEF Behind
<1> QED
  BY <1>1, <1>2

LEMMA UsedIsAhead == Used = Ahead(slot, 1)
<1>1. {s \in Slot : slot[s] # Empty} = From(slot, 1)
  BY DEF From, Slot
<1> QED
  BY <1>1 DEF Used, Ahead

(* A record that goes from a slot that was passed.                         *)
LEMMA AheadOfEmptied ==
  ASSUME NEW m \in Memory, NEW i \in Slot, NEW j \in Nat, i < j
  PROVE  Ahead([m EXCEPT ![i] = Empty], j) = Ahead(m, j)
<1>1. From([m EXCEPT ![i] = Empty], j) = From(m, j)
  BY DEF From, Memory, Slot
<1> QED
  BY <1>1 DEF Ahead

-----------------------------------------------------------------------------
(* The functions of modem_sms_recovery.c.                                  *)

(* A pass that ends with nothing due, or goes on to the next slot.         *)
LEMMA AdvancedPass ==
  ASSUME NEW x \in Recovery, NEW m, NEW ref, x.index \in Slot, Behind(m, ref, x.index),
         m[x.index] \in ref \cup {Empty},
         IF x.header THEN Ahead(m, x.index + 1) < x.remaining
                     ELSE Ahead(m, x.index + 1) <= x.remaining,
         Quietly(Advanced(x))
  PROVE  Coherent(Advanced(x), m, ref)
<1> DEFINE left == IF x.header /\ x.remaining > 0 THEN x.remaining - 1
                   ELSE x.remaining
           i == x.index + 1
           next == [x EXCEPT !.remaining = left, !.index = @ + 1]
<1>1. /\ left \in 0 .. Capacity /\ Ahead(m, i) <= left /\ Ahead(m, i) \in Nat /\ i \in Nat
  <2>1. Ahead(m, i) \in Nat /\ x.remaining \in 0 .. Capacity /\ x.header \in BOOLEAN
    BY AheadType DEF Recovery
  <2> QED
    BY <2>1, SmsRecoveryAssumption DEF Slot
<1>2. next.index = i /\ next.remaining = left /\ next \in Recovery
  <2>1. i \in 0 .. Capacity + 1
    BY SmsRecoveryAssumption DEF Slot
  <2> HIDE DEF left
  <2> QED
    BY <1>1, <2>1 DEF Recovery
<1>3. Behind(m, ref, i)
  BY DEF Behind, Slot
<1> HIDE DEF next, left, i
<1>4. CASE i > Capacity \/ left = 0
  <2>1. Advanced(x) = Done(next)
    BY <1>2, <1>4 DEF Advanced, next, left, i
  <2>2. Advanced(x).step = "NONE"
    BY <1>2, <2>1, DoneFacts
  <2>3. Ahead(m, i) = 0 \/ i > Capacity
    BY <1>1, <1>4
  <2>4. Behind(m, ref, Capacity + 1)
    BY <1>1, <1>3, <2>3, NoneAhead
  <2> QED
    BY <2>2, <2>4 DEF Coherent
<1>5. CASE ~ (i > Capacity \/ left = 0)
  <2>1. Advanced(x) = [next EXCEPT !.step = "READ"]
    BY <1>2, <1>5 DEF Advanced, next, left, i
  <2>2. Advanced(x).step = "READ" /\ Advanced(x).index = i /\ Advanced(x).remaining = left
    BY <1>2, <2>1 DEF Recovery
  <2> QED
    BY <1>1, <1>3, <2>2 DEF Coherent
<1> QED
  BY <1>4, <1>5

(* A retry that is due stays due.                                          *)
LEMMA RetryStays ==
  ASSUME NEW x \in Recovery
  PROVE  /\ x.retry => ~ Quietly(Advanced(x)) /\ ~ Quietly(Done(x))
         /\ ~ Quietly(Deferred(x))
         /\ x.retry \/ x.again => ~ Quietly(Advanced(x))
         /\ Done(x).step = "NONE" /\ (~ Done(x).pending => ~ x.again /\ ~ x.retry)
BY DEF Advanced, Deferred, Done, Quietly, Recovery

LEMMA RequestedPass ==
  ASSUME NEW x \in Recovery
  PROVE  ~ Quietly(Requested(x)) /\ (Requested(x).step = "NONE" => Requested(x).pending)
BY DEF Requested, Quietly, Recovery

(* The next command of a pass, or the first one of a pass that was due.    *)
LEMMA CommandedPass ==
  ASSUME NEW x \in Recovery, NEW m, NEW ref, Quietly(x) => Coherent(x, m, ref),
         Quietly(Commanded(x))
  PROVE  /\ Coherent(Commanded(x), m, ref)
         /\ Shown(Commanded(x), m, "nothing")
<1> DEFINE y == Commanded(x)
<1>1. /\ ~ y.header /\ ~ y.payload /\ ~ y.readable
      /\ y.index = x.index /\ y.remaining = x.remaining /\ y.pdu = x.pdu
      /\ x.step = "NONE" => y.step = "SELECT" /\ ~ y.selected
      /\ x.step # "NONE" => /\ y.step = x.step /\ y.selected = x.selected
                            /\ y.pending = x.pending /\ y.again = x.again /\ y.retry = x.retry
  BY DEF Commanded, Recovery, Steps
<1> HIDE DEF y
<1>2. CASE x.step = "NONE"
  BY <1>1, <1>2 DEF y, Coherent, Shown
<1>3. CASE x.step # "NONE"
  BY <1>1, <1>3 DEF y, Coherent, Shown, Quietly
<1> QED
  BY <1>2, <1>3

-----------------------------------------------------------------------------
(* Each action keeps the invariant.                                        *)

(* The invariant depends on these variables.                               *)
LEMMA PassFrame ==
  ASSUME PInv,
         UNCHANGED <<slot, wire, cmti, simReady, completing, r, admitted, invalidated, receipt,
                     subject, refused>>
  PROVE  PInv'
<1>1. ReceiptInv' /\ DueInv'
  BY DEF PInv, ReceiptInv, DueInv, Awaited, Free, Disowned
<1>2. Pass'
  BY DEF PInv, Pass, Undisturbed, Disowned, Awaited
<1> QED
  BY <1>1, <1>2 DEF PInv

LEMMA ProceedPass ==
  ASSUME IInv, PInv, Free, NEW x \in Recovery, Proceed(x), x.step \notin {"STORE", "SELECT"},
         x.step = "NONE" /\ ~ x.pending => ~ x.again /\ ~ x.retry,
         x.step # "NONE" => ~ x.pending,
         receipt # "none" /\ x.step \in {"VERIFY", "DELETE"} => subject \subseteq {x.pdu},
         simReady /\ ~ completing /\ ~ cmti /\ Quietly(x) => Coherent(x, slot, refused'),
         UNCHANGED <<slot, cmti, simReady, completing>>
  PROVE  PInv'
<1>1. /\ x.step \notin {"VERIFY", "DELETE"} => receipt' = "none" /\ ~ admitted'
      /\ x.step \in {"VERIFY", "DELETE"} => UNCHANGED <<receipt, subject, admitted>>
      /\ admitted' <=> receipt' # "none"
  BY DEF Proceed, Release, PInv, ReceiptInv
<1>2. CASE /\ MayCommand(x) /\ r' = Commanded(x)
           /\ wire' = CommandFor(Commanded(x))
           /\ invalidated' = FALSE
  <2>1. /\ r' \in Recovery /\ r'.pdu = x.pdu
        /\ r'.step = IF x.step = "NONE" THEN "SELECT" ELSE x.step
        /\ r'.step # "NONE" /\ ~ r'.pending
    <3>1. ~ Commanded(x).pending
      BY DEF Commanded, Recovery
    <3> QED
      BY <1>2, <3>1, CommandedFacts
  <2>2. wire'.owner = "recovery" /\ wire'.said = "nothing"
    BY <1>2, <2>1, CommandForFacts
  <2>3. ReceiptInv'
    BY <1>1, <2>1, <2>2 DEF ReceiptInv, Free
  <2>4. DueInv'
    BY <2>1, <2>2 DEF DueInv
  <2>5. ASSUME simReady, ~ completing, ~ cmti, Quietly(r')
        PROVE  Coherent(r', slot, refused') /\ Shown(r', slot, "nothing")
    BY <1>2, <2>5, CommandedPass
  <2>6. Pass'
    BY <2>2, <2>5 DEF Pass, Undisturbed
  <2> QED
    BY <2>3, <2>4, <2>6 DEF PInv
<1>3. CASE r' = x /\ UNCHANGED <<wire, invalidated>>
  <2>1. ReceiptInv'
    BY <1>1, <1>3 DEF ReceiptInv, Free, Awaited
  <2>2. DueInv'
    BY <1>3 DEF DueInv, Free, PInv, Disowned
  <2>3. Pass'
    BY <1>3 DEF Pass, Undisturbed, Awaited, Free
  <2> QED
    BY <2>1, <2>2, <2>3 DEF PInv
<1> QED
  BY <1>2, <1>3 DEF Proceed

LEMMA StartPass ==
  ASSUME IInv, PInv, Start
  PROVE  PInv'
<1>1. /\ Free /\ simReady /\ ~ completing /\ r \in Recovery
      /\ UNCHANGED <<slot, cmti, simReady, completing, refused>>
  BY DEF Start, Idle, IInv, TypeOK
<1>2. ~ cmti /\ Quietly(r) => Coherent(r, slot, refused)
  BY <1>1 DEF PInv, Pass, Undisturbed, Free, Disowned
<1>3. CASE r.step = "STORE" /\ Proceed(Committed(r))
  <2>1. Committed(r) = [r EXCEPT !.step = "VERIFY"]
    BY <1>3 DEF Committed
  <2> DEFINE x == [r EXCEPT !.step = "VERIFY"]
  <2>2. /\ x \in Recovery /\ x.step = "VERIFY" /\ x.pdu = r.pdu /\ x.index = r.index
        /\ x.remaining = r.remaining
        /\ ~ x.pending /\ ~ r.pending /\ x.again = r.again /\ x.retry = r.retry
    BY <1>1, <1>3 DEF Recovery, Steps, PInv, DueInv, Disowned, Free
  <2>3. Proceed(x)
    BY <1>3, <2>1
  <2> HIDE DEF x
  <2>4. ~ cmti /\ Quietly(x) => Coherent(x, slot, refused)
    BY <1>2, <1>3, <2>2 DEF Quietly, Coherent
  <2>5. receipt # "none" => subject \subseteq {x.pdu}
    BY <1>3, <2>2 DEF PInv, ReceiptInv
  <2> QED
    BY <1>1, <2>2, <2>3, <2>4, <2>5, ProceedPass
<1>4. CASE r.step # "STORE" /\ Proceed(r)
  <2>1. /\ r.step # "SELECT" /\ (r.step = "NONE" /\ ~ r.pending => ~ r.again /\ ~ r.retry)
        /\ r.step # "NONE" => ~ r.pending
        /\ receipt # "none" /\ r.step \in {"VERIFY", "DELETE"} => subject \subseteq {r.pdu}
    BY <1>1 DEF PInv, ReceiptInv, DueInv, Disowned, Free
  <2> QED
    BY <1>1, <1>2, <1>4, <2>1, ProceedPass
<1> QED
  BY <1>3, <1>4 DEF Start

LEMMA StartAdmitPass ==
  ASSUME IInv, PInv, StartAdmit
  PROVE  PInv'
<1>1. /\ Free /\ simReady /\ ~ completing /\ r \in Recovery /\ r.step = "STORE"
      /\ admitted' = TRUE /\ subject' \subseteq {r.pdu} /\ receipt' # "none" /\ ~ r.pending
      /\ UNCHANGED <<slot, cmti, simReady, completing, refused>>
  BY DEF StartAdmit, Idle, IInv, TypeOK, Store!Admit, PInv, DueInv, Disowned, Free
<1>2. ~ cmti /\ Quietly(r) => Coherent(r, slot, refused)
  BY <1>1 DEF PInv, Pass, Undisturbed, Free, Disowned
<1>3. CASE r' = r /\ UNCHANGED <<wire, invalidated>>
  <2>1. ReceiptInv' /\ DueInv'
    BY <1>1, <1>3 DEF ReceiptInv, DueInv, Awaited, Free, PInv, Disowned
  <2>2. Pass'
    BY <1>1, <1>2, <1>3 DEF Pass, Undisturbed, Awaited, Free
  <2> QED
    BY <2>1, <2>2 DEF PInv
<1>4. CASE r' = Commanded(Committed(r)) /\ wire' = CommandFor(r') /\ invalidated' = FALSE
  <2> DEFINE x == [r EXCEPT !.step = "VERIFY"]
  <2>1. Committed(r) = x
    BY <1>1 DEF Committed
  <2>2. /\ x \in Recovery /\ x.step = "VERIFY" /\ x.pdu = r.pdu /\ x.index = r.index
        /\ x.remaining = r.remaining
        /\ x.pending = r.pending /\ x.again = r.again /\ x.retry = r.retry
    BY <1>1 DEF Recovery, Steps
  <2> HIDE DEF x
  <2>3. r' \in Recovery /\ r'.step = "VERIFY" /\ r'.pdu = r.pdu /\ ~ r'.pending
    <3>1. ~ Commanded(x).pending
      BY <1>1, <2>2 DEF Commanded, Recovery
    <3> QED
      BY <1>4, <2>1, <2>2, <3>1, CommandedFacts
  <2>4. wire'.owner = "recovery" /\ wire'.said = "nothing"
    BY <1>4, <2>3, CommandForFacts
  <2>5. ReceiptInv' /\ DueInv'
    BY <1>1, <2>3, <2>4 DEF ReceiptInv, DueInv, Free
  <2>6. ~ cmti /\ Quietly(x) => Coherent(x, slot, refused)
    BY <1>1, <1>2, <2>2 DEF Quietly, Coherent
  <2>7. ASSUME ~ cmti, Quietly(r')
        PROVE  Coherent(r', slot, refused) /\ Shown(r', slot, "nothing")
    BY <1>4, <2>1, <2>2, <2>6, <2>7, CommandedPass
  <2>8. Pass'
    BY <1>1, <2>4, <2>7 DEF Pass, Undisturbed
  <2> QED
    BY <2>5, <2>8 DEF PInv
<1> QED
  BY <1>3, <1>4 DEF StartAdmit

(* Moving on with nothing due: nothing was due before.                     *)
LEMMA AdvancedDue ==
  ASSUME NEW x \in Recovery, ~ x.pending
  PROVE  /\ Quietly(Advanced(x)) => Quietly(x)
         /\ Advanced(x).step = "NONE" /\ ~ Advanced(x).pending => ~ Advanced(x).again /\ ~ Advanced(x).retry
         /\ Advanced(x).step # "NONE" => ~ Advanced(x).pending
BY DEF Advanced, Done, Recovery, Quietly

(* A record that is refused is passed over, or the pass is put off.        *)
LEMMA StartRefusedPass ==
  ASSUME IInv, PInv, StartRefused
  PROVE  PInv'
<1>1. /\ Free /\ simReady /\ ~ completing /\ r \in Recovery /\ r.step = "STORE"
      /\ UNCHANGED <<slot, cmti, simReady, completing>> /\ r.index \in Slot
  BY DEF StartRefused, Idle, IInv, TypeOK, IndexInv, Disowned, Free
<1>2. /\ ~ cmti /\ Quietly(r) => Coherent(r, slot, refused)
      /\ ~ r.pending
  BY <1>1 DEF PInv, Pass, DueInv, Undisturbed, Free, Disowned
<1>3. CASE refused' = refused \cup {r.pdu} /\ Proceed(Rejected(r))
  <2> DEFINE x == Advanced(r)
  <2>1. Proceed(x)
    BY <1>1, <1>3 DEF Rejected
  <2>2. x \in Recovery /\ x.step \in {"NONE", "READ"}
    BY <1>1, AdvancedFacts
  <2>3. /\ Quietly(x) => Quietly(r)
        /\ x.step = "NONE" /\ ~ x.pending => ~ x.again /\ ~ x.retry
        /\ x.step # "NONE" => ~ x.pending
    BY <1>1, <1>2, AdvancedDue
  <2>4. ASSUME ~ cmti, Quietly(x)
        PROVE  Coherent(x, slot, refused')
    <3>1. Coherent(r, slot, refused)
      BY <1>2, <2>3, <2>4
    <3>2. /\ Behind(slot, refused', r.index) /\ slot[r.index] \in refused' \cup {Empty}
          /\ Ahead(slot, r.index + 1) < r.remaining /\ Ahead(slot, r.index + 1) \in Nat
          /\ r.remaining \in Nat
      BY <1>1, <1>3, <3>1, AheadType DEF Coherent, Behind, Recovery
    <3> QED
      BY <1>1, <2>4, <3>2, AdvancedPass
  <2> HIDE DEF x
  <2> QED
    BY <1>1, <2>1, <2>2, <2>3, <2>4, ProceedPass
<1>4. CASE Proceed(Deferred(r))
  <2>1. Deferred(r) \in Recovery /\ Deferred(r).step = "NONE" /\ ~ Quietly(Deferred(r))
    BY <1>1, DeferredFacts, RetryStays
  <2>2. Deferred(r).pending
    BY <1>1 DEF Deferred, Done, Recovery
  <2> QED
    BY <1>1, <1>4, <2>1, <2>2, ProceedPass
<1> QED
  BY <1>3, <1>4 DEF StartRefused

LEMMA StoreCommitPass ==
  ASSUME IInv, PInv, StoreCommit
  PROVE  PInv'
<1>1. /\ receipt # "none" /\ receipt' # "none"
      /\ UNCHANGED <<slot, wire, cmti, simReady, completing, r, admitted, invalidated, subject,
                     refused>>
  BY DEF StoreCommit, Store!Commit
<1>2. ReceiptInv' /\ DueInv'
  BY <1>1 DEF PInv, ReceiptInv, DueInv, Awaited, Free, Disowned
<1>3. Pass'
  BY <1>1 DEF PInv, Pass, Undisturbed, Disowned, Awaited
<1> QED
  BY <1>2, <1>3 DEF PInv

(* A reset puts off, or leaves nothing that could be used.                 *)
LEMMA ResetPass ==
  ASSUME NEW x \in Recovery, x.step = "NONE", Reset(x),
         x.pending \/ (x = Fresh /\ ~ simReady'),
         wire'.said = "body" => wire'.cmd = "CMGR",
         wire'.owner = "debug" => x.pending \/ ~ simReady'
  PROVE  PInv'
<1>1. /\ r' = x /\ invalidated' = TRUE /\ receipt' = "none" /\ ~ admitted'
  BY DEF Reset, Release
<1>2. ~ x.pending => ~ x.again /\ ~ x.retry
  BY DEF Fresh
<1>3. ReceiptInv' /\ DueInv'
  BY <1>1, <1>2 DEF ReceiptInv, DueInv, Awaited
<1>4. Pass'
  BY <1>1 DEF Pass, Undisturbed, Quietly
<1> QED
  BY <1>3, <1>4 DEF PInv

LEMMA FreshFacts == /\ Fresh \in Recovery /\ Fresh.step = "NONE"
                    /\ Requested(Fresh) \in Recovery /\ Requested(Fresh).step = "NONE"
                    /\ Requested(Fresh).pending
                    /\ Deferred(Fresh) \in Recovery /\ Deferred(Fresh).step = "NONE"
                    /\ Deferred(Fresh).pending
<1>1. Requested(Fresh).pending /\ Deferred(Fresh).pending
  BY DEF Fresh, Requested, Deferred, Done
<1> QED
  BY <1>1, FreshType, RequestedFacts, DeferredFacts

LEMMA SessionLostPass ==
  ASSUME IInv, PInv, SessionLost
  PROVE  PInv'
<1>1. wire' = Quiet /\ simReady' = FALSE /\ Reset(Fresh)
  BY DEF SessionLost
<1> QED
  BY <1>1, FreshFacts, ResetPass DEF Quiet

LEMMA SimLostPass ==
  ASSUME IInv, PInv, SimLost
  PROVE  PInv'
<1>1. wire' = wire /\ simReady' = FALSE /\ Reset(Fresh) /\ (wire.said = "body" => wire.cmd = "CMGR")
  BY DEF SimLost, PInv, DueInv
<1> QED
  BY <1>1, FreshFacts, ResetPass

LEMMA DebugCommandPass ==
  ASSUME IInv, PInv, DebugCommand
  PROVE  PInv'
<1>1. /\ wire'.said = "nothing" /\ Reset(Requested(Fresh))
  BY DEF DebugCommand, Quiet
<1> QED
  BY <1>1, FreshFacts, ResetPass

LEMMA TimeoutPass ==
  ASSUME IInv, PInv, Timeout
  PROVE  PInv'
<1>1. /\ r \in Recovery /\ wire \in Wire /\ wire' = [wire EXCEPT !.owner = "drain"]
      /\ r' = Deferred(r) /\ UNCHANGED <<admitted, invalidated, receipt, subject>>
  BY DEF Timeout, IInv, TypeOK, modem, store
<1>2. wire'.owner = "drain" /\ wire'.said = wire.said /\ wire'.cmd = wire.cmd
  BY <1>1 DEF Wire
<1>3. r'.step = "NONE" /\ ~ Quietly(r') /\ r'.pending
  <2>1. Deferred(r).pending
    BY <1>1 DEF Deferred, Done, Recovery
  <2> QED
    BY <1>1, <2>1, DeferredFacts DEF Quietly
<1>4. ReceiptInv' /\ DueInv'
  BY <1>1, <1>2, <1>3 DEF PInv, ReceiptInv, DueInv, Awaited, Free, Disowned
<1>5. Pass'
  BY <1>3 DEF Pass, Undisturbed
<1> QED
  BY <1>4, <1>5 DEF PInv

(* EnterReady and Indication ask for another pass.                         *)
LEMMA RequestPass ==
  ASSUME IInv, PInv, r' = Requested(r),
         UNCHANGED <<wire, admitted, invalidated, receipt, subject>>,
         wire.owner = "debug" => UNCHANGED <<simReady, completing>>
  PROVE  PInv'
<1>1. r \in Recovery
  BY DEF IInv, TypeOK
<1>2. /\ r'.step = r.step /\ r'.pdu = r.pdu /\ ~ Quietly(r')
      /\ r'.step = "NONE" => r'.pending
      /\ r.step # "NONE" => r'.pending = r.pending
      /\ r.pending => r'.pending
  BY <1>1 DEF Requested, Recovery, Quietly
<1>3. wire.owner = "debug" => r.step = "NONE"
  BY DEF IInv, BytesInv
<1>4. ReceiptInv' /\ DueInv'
  BY <1>2, <1>3 DEF PInv, ReceiptInv, DueInv, Awaited, Free, Disowned
<1>5. Pass'
  BY <1>2 DEF Pass, Undisturbed
<1> QED
  BY <1>4, <1>5 DEF PInv

LEMMA EnterReadyPass == IInv /\ PInv /\ EnterReady => PInv'
BY RequestPass DEF EnterReady, Free, store

LEMMA IndicationPass == IInv /\ PInv /\ Indication => PInv'
BY RequestPass DEF Indication, store

LEMMA SimBackPass ==
  ASSUME IInv, PInv, SimBack
  PROVE  PInv'
<1>1. /\ completing' /\ UNCHANGED <<wire, r, admitted, invalidated, receipt, subject>>
  BY DEF SimBack, store
<1>2. ReceiptInv' /\ DueInv'
  BY <1>1 DEF PInv, ReceiptInv, DueInv, Awaited, Free, Disowned
<1>3. Pass'
  BY <1>1 DEF Pass, Undisturbed
<1> QED
  BY <1>2, <1>3 DEF PInv

(* What a privileged command did to the records, the pass it asked for     *)
(* will find.                                                              *)
LEMMA DebugPass ==
  ASSUME IInv, PInv,
         DebugFinal \/ \E s \in Slot, f \in Frag \cup {Empty} : DebugEffect(s, f)
  PROVE  PInv'
<1>1. /\ wire \in Wire /\ wire.owner = "debug" /\ r.step = "NONE"
      /\ UNCHANGED <<r, cmti, simReady, completing, admitted, invalidated, receipt, subject>>
      /\ wire' = Quiet \/ wire' = [wire EXCEPT !.said = "done"]
  BY DEF DebugFinal, DebugEffect, IInv, TypeOK, BytesInv, modem, store
<1>2. /\ wire'.owner \in {"none", "debug"} /\ wire'.said # "body"
  BY <1>1 DEF Quiet, Wire
<1>3. ReceiptInv' /\ DueInv'
  BY <1>1, <1>2 DEF PInv, ReceiptInv, DueInv, Awaited, Free, Disowned
<1>4. Pass'
  BY <1>1 DEF PInv, DueInv, Pass, Undisturbed, Quietly
<1> QED
  BY <1>3, <1>4 DEF PInv

LEMMA ArrivePass ==
  ASSUME IInv, PInv, NEW s \in Slot, NEW f \in Frag, Arrive(s, f)
  PROVE  PInv'
<1>1. cmti' /\ UNCHANGED <<wire, simReady, completing, r, admitted, invalidated, receipt, subject>>
  BY DEF Arrive, store
<1>2. ReceiptInv' /\ DueInv'
  BY <1>1 DEF PInv, ReceiptInv, DueInv, Awaited, Free, Disowned
<1>3. Pass'
  BY <1>1 DEF Pass, Undisturbed
<1> QED
  BY <1>2, <1>3 DEF PInv

-----------------------------------------------------------------------------
(* What the modem answers.                                                 *)

LEMMA AnswerSelectPass ==
  ASSUME IInv, PInv, NEW garbled \in BOOLEAN, AnswerSelect(garbled)
  PROVE  PInv'
<1>1. /\ Listening /\ wire.cmd = "SELECT" /\ wire \in Wire /\ r \in Recovery
      /\ wire' = [wire EXCEPT !.said = "done"] /\ r' = Selected(r, Used, garbled)
      /\ UNCHANGED <<slot, cmti, simReady, completing, admitted, invalidated, receipt, subject,
                     refused>>
  BY DEF AnswerSelect, IInv, TypeOK, modem, store
<1>2. wire'.owner = wire.owner /\ wire'.said = "done"
  BY <1>1 DEF Wire
<1>3. /\ r'.step = r.step /\ r'.pdu = r.pdu
      /\ r'.pending = r.pending /\ r'.again = r.again /\ r'.retry = r.retry
      /\ r.step = "SELECT" /\ r'.selected => r'.remaining = Used
  BY <1>1, UsedType DEF Selected, Recovery
<1>4. ReceiptInv' /\ DueInv'
  BY <1>1, <1>2, <1>3 DEF PInv, ReceiptInv, DueInv, Awaited, Free, Disowned
<1>5. ASSUME Undisturbed'
      PROVE  Coherent(r', slot, refused) /\ Shown(r', slot, "done")
  <2>1. r.step = "SELECT"
    BY <1>1, <1>2, <1>5 DEF Undisturbed, Disowned, Listening, IInv, WireIsExpected
  <2>2. Used \in 0 .. Capacity /\ Used = Ahead(slot, 1)
    BY UsedType, UsedIsAhead
  <2> QED
    BY <1>3, <2>1, <2>2 DEF Coherent, Shown
<1>6. Pass'
  BY <1>1, <1>2, <1>5 DEF Pass
<1> QED
  BY <1>4, <1>6 DEF PInv

LEMMA AnswerHeaderPass ==
  ASSUME IInv, PInv, NEW readable \in BOOLEAN, AnswerHeader(readable)
  PROVE  PInv'
<1> DEFINE x == IF invalidated \/ wire.owner = "drain" THEN [r EXCEPT !.step = "READ"] ELSE r
<1>1. /\ Listening /\ wire.cmd = "CMGR" /\ wire.said = "nothing" /\ slot[wire.at] # Empty
      /\ wire \in Wire /\ r \in Recovery
      /\ wire' = [wire EXCEPT !.said = "header"] /\ r' = Headed(x, readable)
      /\ UNCHANGED <<slot, cmti, simReady, completing, admitted, invalidated, receipt, subject,
                     refused>>
  BY DEF AnswerHeader, IInv, TypeOK, modem, store
<1>2. /\ x \in Recovery /\ (~ Disowned => x = r) /\ (Disowned => x.step = "READ")
  BY <1>1 DEF Recovery, Steps, Disowned, Listening
<1> HIDE DEF x
<1>3. wire'.owner = wire.owner /\ wire'.said = "header"
  BY <1>1 DEF Wire
<1>4. /\ r'.step = x.step /\ r'.pdu = x.pdu /\ r'.payload = x.payload
      /\ r'.index = x.index /\ r'.remaining = x.remaining /\ r'.selected = x.selected
      /\ r'.pending = x.pending /\ r'.again = x.again /\ r'.retry = x.retry
  BY <1>1, <1>2 DEF Headed, Recovery
<1>5. CASE Disowned
  <2>1. /\ Disowned' /\ r'.step = "READ"
    BY <1>1, <1>2, <1>3, <1>4, <1>5 DEF Disowned
  <2>2. ReceiptInv' /\ DueInv'
    BY <1>1, <1>3, <1>5, <2>1 DEF PInv, ReceiptInv, DueInv, Awaited, Free, Disowned
  <2>3. Pass'
    BY <2>1 DEF Pass, Undisturbed
  <2> QED
    BY <2>2, <2>3 DEF PInv
<1>6. CASE ~ Disowned
  <2>1. /\ Awaited /\ x = r /\ wire.at = r.index /\ r.step \notin {"SELECT", "DELETE"}
        /\ r.step = "READ" => ~ r.payload
    BY <1>1, <1>2, <1>6 DEF Disowned, Listening, Awaited, IInv, WireIsExpected, BytesInv
  <2>2. ReceiptInv' /\ DueInv'
    BY <1>1, <1>3, <1>4, <1>6, <2>1 DEF PInv, ReceiptInv, DueInv, Awaited, Free, Disowned
  <2>3. ASSUME Undisturbed'
        PROVE  Coherent(r', slot, refused) /\ Shown(r', slot, "header")
    <3>1. Coherent(r, slot, refused)
      BY <1>1, <1>3, <1>4, <1>6, <2>1, <2>3 DEF PInv, Pass, Undisturbed, Quietly, Disowned
    <3> QED
      BY <1>1, <1>4, <2>1, <3>1 DEF Coherent, Shown
  <2>4. Pass'
    BY <1>1, <1>3, <2>3 DEF Pass
  <2> QED
    BY <2>2, <2>4 DEF PInv
<1> QED
  BY <1>5, <1>6

LEMMA AnswerBodyPass ==
  ASSUME IInv, PInv, NEW whole \in BOOLEAN, AnswerBody(whole)
  PROVE  PInv'
<1> DEFINE frag == IF whole THEN slot[wire.at] ELSE Empty
<1>1. /\ Listening /\ wire.said = "header" /\ wire.cmd = "CMGR" /\ wire.at \in Slot
      /\ wire \in Wire /\ r \in Recovery
      /\ wire' = [wire EXCEPT !.said = "body"] /\ r' = Loaded(r, frag)
      /\ UNCHANGED <<slot, cmti, simReady, completing, admitted, invalidated, receipt, subject,
                     refused>>
  BY DEF AnswerBody, IInv, TypeOK, WireInv, modem, store
<1>2. frag \in Frag \cup {Empty} /\ (frag # Empty => frag = slot[wire.at])
  BY <1>1 DEF IInv, TypeOK
<1> HIDE DEF frag
<1>3. wire'.owner = wire.owner /\ wire'.said = "body" /\ wire'.cmd = "CMGR"
  BY <1>1 DEF Wire
<1>4. /\ r'.step = r.step /\ (r.step # "READ" => r'.pdu = r.pdu)
      /\ r'.index = r.index /\ r'.remaining = r.remaining /\ r'.selected = r.selected
      /\ r'.pending = r.pending /\ r'.again = r.again /\ r'.retry = r.retry
      /\ r'.header = r.header
      /\ r.step = "READ" /\ r'.readable /\ r'.payload => frag # Empty /\ r'.pdu = frag
  BY <1>1, <1>2 DEF Loaded, Recovery
<1>5. ReceiptInv' /\ DueInv'
  BY <1>1, <1>3, <1>4 DEF PInv, ReceiptInv, DueInv, Awaited, Free, Disowned, Listening
<1>6. ASSUME Undisturbed'
      PROVE  Coherent(r', slot, refused) /\ Shown(r', slot, "body")
  <2>1. /\ Awaited /\ Undisturbed /\ wire.at = r.index /\ r.step \notin {"SELECT", "DELETE"}
    BY <1>1, <1>3, <1>4, <1>6
       DEF Undisturbed, Quietly, Disowned, Listening, Awaited, IInv, WireIsExpected
  <2>2. Coherent(r, slot, refused) /\ Shown(r, slot, wire.said)
    BY <2>1 DEF PInv, Pass
  <2>3. Coherent(r', slot, refused)
    BY <1>4, <2>1, <2>2 DEF Coherent
  <2> QED
    BY <1>2, <1>4, <2>1, <2>2, <2>3 DEF Shown
<1>7. Pass'
  BY <1>1, <1>3, <1>6 DEF Pass
<1> QED
  BY <1>5, <1>7 DEF PInv

LEMMA AnswerDeletePass ==
  ASSUME IInv, PInv, AnswerDelete
  PROVE  PInv'
<1>1. /\ Listening /\ wire.cmd = "CMGD" /\ wire.said = "nothing" /\ wire.at \in Slot
      /\ wire \in Wire /\ slot \in Memory
      /\ slot' = [slot EXCEPT ![wire.at] = Empty] /\ wire' = [wire EXCEPT !.said = "done"]
      /\ UNCHANGED <<r, cmti, simReady, completing, admitted, invalidated, receipt, subject,
                     refused>>
  BY DEF AnswerDelete, IInv, TypeOK, WireInv, modem, store, Memory
<1>2. wire'.owner = wire.owner /\ wire'.said = "done"
  BY <1>1 DEF Wire
<1>3. ReceiptInv' /\ DueInv'
  BY <1>1, <1>2 DEF PInv, ReceiptInv, DueInv, Awaited, Free, Disowned
<1>4. ASSUME Undisturbed'
      PROVE  Coherent(r, slot', refused) /\ Shown(r, slot', "done")
  <2>1. /\ Awaited /\ Undisturbed /\ wire.at = r.index /\ r.step = "DELETE"
    BY <1>1, <1>2, <1>4
       DEF Undisturbed, Disowned, Listening, Awaited, IInv, WireIsExpected
  <2>2. Behind(slot, refused, r.index) /\ Ahead(slot, r.index + 1) < r.remaining
    BY <2>1 DEF PInv, Pass, Coherent
  <2>3. slot'[r.index] = Empty /\ \A s \in Slot : slot'[s] \in {slot[s], Empty}
    BY <1>1, <2>1 DEF Memory
  <2>4. Ahead(slot', r.index + 1) = Ahead(slot, r.index + 1)
    <3>1. r.index + 1 \in Nat /\ r.index < r.index + 1
      BY <1>1, <2>1 DEF Slot
    <3> QED
      BY <1>1, <2>1, <3>1, AheadOfEmptied
  <2>5. Behind(slot', refused, r.index)
    BY <2>2, <2>3 DEF Behind
  <2> QED
    BY <2>1, <2>2, <2>3, <2>4, <2>5 DEF Coherent, Shown
<1>5. Pass'
  BY <1>1, <1>2, <1>4 DEF Pass
<1> QED
  BY <1>3, <1>5 DEF PInv

(* The final result of the awaited command.                                *)
LEMMA FinishedPass ==
  ASSUME NEW x \in Recovery, NEW ok \in BOOLEAN, NEW emptySlot \in BOOLEAN, x.issued,
         NEW m \in Memory, NEW ref, NEW said, NEW calm \in BOOLEAN,
         x.step \in {"READ", "STORE", "VERIFY", "DELETE"} => x.index \in Slot,
         x.step = "NONE" /\ ~ x.pending => ~ x.again /\ ~ x.retry,
         x.step # "NONE" => ~ x.pending,
         x.step = "READ" /\ x.readable /\ x.payload => x.pdu \in Frag,
         x.step = "READ" /\ emptySlot => ~ ok /\ m[x.index] = Empty,
         x.step = "DELETE" /\ ok => said # "nothing",
         calm /\ Quietly(x) => Coherent(x, m, ref) /\ Shown(x, m, said)
  PROVE  LET y == Finished(x, ok, emptySlot)
         IN  /\ y.step # "SELECT"
             /\ y.step = "NONE" /\ ~ y.pending => ~ y.again /\ ~ y.retry
             /\ y.step # "NONE" => ~ y.pending
             /\ calm /\ Quietly(y) => Coherent(y, m, ref)
<1> DEFINE y == Finished(x, ok, emptySlot)
           z == [x EXCEPT !.issued = FALSE]
           failed == [z EXCEPT !.retry = TRUE]
           Due(v) == /\ v.step = "NONE" /\ ~ v.pending => ~ v.again /\ ~ v.retry
                     /\ v.step # "NONE" => ~ v.pending
<1> SUFFICES y.step # "SELECT" /\ Due(y) /\ (calm /\ Quietly(y) => Coherent(y, m, ref))
  OBVIOUS
<1>1. /\ z \in Recovery /\ failed \in Recovery /\ failed.retry
      /\ \A f \in {"step", "header", "readable", "payload", "match", "selected", "index",
                   "remaining", "pdu", "pending", "again", "retry"} : z[f] = x[f]
      /\ \A f \in {"step", "index", "pending"} : failed[f] = x[f]
  BY DEF Recovery
<1>2. Deferred(z).step = "NONE" /\ Due(Deferred(z)) /\ ~ Quietly(Deferred(z))
  <2>1. Deferred(z).pending
    BY <1>1 DEF Deferred, Done, Recovery
  <2> QED
    BY <1>1, <2>1, DeferredFacts DEF Quietly
<1>3. CASE x.step = "SELECT"
  <2> DEFINE first == [z EXCEPT !.index = 1]
             read == [z EXCEPT !.index = 1, !.step = "READ"]
  <2>1. 1 \in 0 .. Capacity + 1
    BY SmsRecoveryAssumption
  <2>2. /\ first \in Recovery /\ read.step = "READ" /\ read.index = 1 /\ ~ read.pending
        /\ Quietly(read) => Quietly(x)
        /\ read.remaining = x.remaining
    BY <1>3, <2>1 DEF Recovery, Steps, Quietly
  <2>3. /\ Done(first).step = "NONE" /\ Due(Done(first))
        /\ Quietly(Done(first)) => Quietly(x)
    BY <1>3, <2>1 DEF Done, Recovery, Quietly
  <2>4. \/ y = Deferred(z)
        \/ y = Done(first) /\ x.selected /\ x.remaining = 0
        \/ y = read /\ x.selected
    BY <1>1, <1>3 DEF Finished
  <2> HIDE DEF first, read, y, z
  <2>5. calm /\ Quietly(x) /\ x.selected => Ahead(m, 1) <= x.remaining
    BY <1>3 DEF Coherent
  <2>6. Behind(m, ref, 1)
    BY DEF Behind, Slot
  <2>7. CASE y = Deferred(z)
    BY <1>2, <2>7
  <2>8. CASE y = Done(first) /\ x.selected /\ x.remaining = 0
    <3>1. ASSUME calm, Quietly(y) PROVE Behind(m, ref, Capacity + 1)
      <4>1. Ahead(m, 1) = 0
        <5>1. Ahead(m, 1) \in Nat
          BY AheadType
        <5> QED
          BY <2>3, <2>5, <2>8, <3>1, <5>1
      <4> QED
        BY <2>6, <4>1, NoneAhead
    <3> QED
      BY <2>3, <2>8, <3>1 DEF Coherent
  <2>9. CASE y = read /\ x.selected
    BY <2>2, <2>5, <2>6, <2>9 DEF Coherent
  <2> QED
    BY <2>4, <2>7, <2>8, <2>9
<1>4. CASE x.step = "READ"
  <2> DEFINE store1 == [z EXCEPT !.step = "STORE"]
  <2>1. /\ store1.step = "STORE" /\ store1.index = x.index /\ store1.remaining = x.remaining
        /\ store1.pdu = x.pdu /\ ~ store1.pending /\ (Quietly(store1) => Quietly(x))
    BY <1>4 DEF Recovery, Quietly
  <2>2. \/ y = store1 /\ x.readable /\ x.payload
        \/ y = Advanced(z) /\ emptySlot
        \/ y = Advanced(failed)
    BY <1>1, <1>4 DEF Finished
  <2> HIDE DEF store1, y, z, failed
  <2>3. /\ Ahead(m, x.index) \in Nat /\ Ahead(m, x.index + 1) \in Nat
        /\ x.remaining \in Nat /\ x.index \in Slot
        /\ Ahead(m, x.index) = IF m[x.index] = Empty THEN Ahead(m, x.index + 1)
                               ELSE Ahead(m, x.index + 1) + 1
    BY <1>4, AheadType, AheadStep DEF Recovery
  <2>4. CASE y = store1 /\ x.readable /\ x.payload
    <3>1. ASSUME calm, Quietly(y)
          PROVE  Coherent(y, m, ref)
      <4>1. m[x.index] = x.pdu /\ x.pdu # Empty
        BY <1>4, <2>1, <2>4, <3>1, SmsRecoveryAssumption DEF Shown
      <4>2. Behind(m, ref, x.index) /\ Ahead(m, x.index) <= x.remaining
        BY <1>4, <2>1, <2>4, <3>1 DEF Coherent
      <4> QED
        BY <2>1, <2>3, <2>4, <4>1, <4>2 DEF Coherent
    <3> QED
      BY <2>1, <2>4, <3>1
  <2>5. CASE y = Advanced(z) /\ emptySlot
    <3>1. /\ y.step \in {"NONE", "READ"} /\ Due(y) /\ (Quietly(y) => Quietly(x))
      BY <1>1, <1>4, <2>3, <2>5, AdvancedFacts, AdvancedDue DEF Quietly
    <3>2. ASSUME calm, Quietly(y)
          PROVE  Coherent(y, m, ref)
      <4>1. /\ Behind(m, ref, x.index) /\ Ahead(m, x.index) <= x.remaining
            /\ m[x.index] = Empty /\ ~ x.header
        BY <1>4, <2>5, <3>1, <3>2 DEF Coherent, Shown
      <4>2. /\ z.index \in Slot /\ Behind(m, ref, z.index) /\ m[z.index] \in ref \cup {Empty}
            /\ ~ z.header /\ Ahead(m, z.index + 1) <= z.remaining
        BY <1>1, <2>3, <4>1
      <4> QED
        BY <1>1, <2>5, <3>2, <4>2, AdvancedPass
    <3> QED
      BY <3>1, <3>2
  <2>6. CASE y = Advanced(failed)
    BY <1>1, <1>4, <2>3, <2>6, AdvancedFacts, AdvancedDue, RetryStays
  <2> QED
    BY <2>2, <2>4, <2>5, <2>6
<1>5. CASE x.step = "VERIFY"
  <2> DEFINE delete == [z EXCEPT !.step = "DELETE"]
  <2>1. /\ delete.step = "DELETE" /\ delete.index = x.index /\ delete.remaining = x.remaining
        /\ ~ delete.pending /\ (Quietly(delete) => Quietly(x))
    BY <1>5 DEF Recovery, Quietly
  <2>2. y = delete \/ y = Deferred(z)
    BY <1>1, <1>5 DEF Finished
  <2> HIDE DEF delete, y, z
  <2>3. CASE y = delete
    BY <1>5, <2>1, <2>3 DEF Coherent
  <2>4. CASE y = Deferred(z)
    BY <1>2, <2>4
  <2> QED
    BY <2>2, <2>3, <2>4
<1>6. CASE x.step = "DELETE"
  <2> DEFINE good == [z EXCEPT !.header = TRUE]
             bad == [failed EXCEPT !.header = TRUE]
  <2>1. /\ good \in Recovery /\ good.index = x.index /\ good.remaining = x.remaining
        /\ good.header /\ ~ good.pending /\ (Quietly(good) => Quietly(x))
        /\ bad \in Recovery /\ bad.index = x.index /\ bad.retry /\ ~ bad.pending
    BY <1>6 DEF Recovery, Quietly
  <2>2. (y = Advanced(good) /\ ok) \/ y = Advanced(bad)
    BY <1>1, <1>6 DEF Finished
  <2> HIDE DEF good, bad, y, z, failed
  <2>3. CASE y = Advanced(good) /\ ok
    <3>1. /\ y.step \in {"NONE", "READ"} /\ Due(y) /\ (Quietly(y) => Quietly(x))
      BY <1>6, <2>1, <2>3, AdvancedFacts, AdvancedDue
    <3>2. ASSUME calm, Quietly(y)
          PROVE  Coherent(y, m, ref)
      <4>1. /\ Behind(m, ref, x.index) /\ Ahead(m, x.index + 1) < x.remaining
            /\ m[x.index] = Empty
        BY <1>6, <2>3, <3>1, <3>2 DEF Coherent, Shown
      <4> QED
        BY <1>6, <2>1, <2>3, <3>2, <4>1, AdvancedPass
    <3> QED
      BY <3>1, <3>2
  <2>4. CASE y = Advanced(bad)
    BY <1>6, <2>1, <2>4, AdvancedFacts, AdvancedDue, RetryStays
  <2> QED
    BY <2>2, <2>3, <2>4
<1>7. CASE x.step \in {"NONE", "STORE"}
  <2>1. y = z
    BY <1>1, <1>7 DEF Finished
  <2> HIDE DEF y, z
  <2>2. Quietly(z) => Quietly(x)
    BY <1>1 DEF Quietly
  <2> QED
    BY <1>1, <1>7, <2>1, <2>2 DEF Coherent
<1> QED
  BY <1>3, <1>4, <1>5, <1>6, <1>7 DEF Recovery, Steps

LEMMA FinalPass ==
  ASSUME IInv, PInv, NEW ok \in BOOLEAN, NEW emptySlot \in BOOLEAN, Final(ok, emptySlot)
  PROVE  PInv'
<1>1. /\ Listening /\ wire' = Quiet /\ r \in Recovery /\ slot \in Memory
      /\ UNCHANGED <<slot, cmti, simReady, completing, refused>>
      /\ ok => wire.said \in {"done", "body"} \/ EmptyAnswer
      /\ emptySlot => EmptyAnswer /\ ~ ok
  BY DEF Final, IInv, TypeOK, Memory
<1>2. CASE Disowned
  <2>1. \/ Reset(Deferred(Fresh))
        \/ simReady /\ Reset(Requested(Fresh))
        \/ ~ simReady /\ Reset(Fresh)
    BY <1>2 DEF Final, Disowned
  <2>2. wire'.said # "body" /\ wire'.owner # "debug"
    BY <1>1 DEF Quiet
  <2> QED
    BY <1>1, <2>1, <2>2, FreshFacts, ResetPass
<1>3. CASE ~ Disowned
  <2>1. /\ Awaited /\ r' = Finished(r, ok, emptySlot)
        /\ UNCHANGED <<admitted, invalidated, receipt, subject>>
    BY <1>1, <1>3 DEF Final, Disowned, Listening, store, Awaited
  <2>2. /\ r.issued
        /\ r.step \in {"READ", "STORE", "VERIFY", "DELETE"} => r.index \in Slot
        /\ wire.at = r.index \/ r.step = "SELECT"
        /\ r.step = "DELETE" => wire.cmd = "CMGD"
        /\ r.step = "READ" => wire.cmd = "CMGR"
    BY <1>1, <1>3, <2>1 DEF IInv, WireIsExpected, IndexInv, Awaited
  <2>3. /\ r.step = "NONE" /\ ~ r.pending => ~ r.again /\ ~ r.retry
        /\ r.step # "NONE" => ~ r.pending
    BY <1>3 DEF PInv, DueInv
  <2>4. /\ r.step = "READ" /\ r.readable /\ r.payload => r.pdu \in Frag
        /\ r.step = "READ" /\ emptySlot => ~ ok /\ slot[r.index] = Empty
        /\ r.step = "DELETE" /\ ok => wire.said # "nothing"
    BY <1>1, <2>1, <2>2 DEF IInv, BytesInv, EmptyAnswer, Awaited
  <2> DEFINE calm == simReady /\ ~ completing /\ ~ cmti
             y == Finished(r, ok, emptySlot)
  <2>5. calm /\ Quietly(r) => Coherent(r, slot, refused) /\ Shown(r, slot, wire.said)
    BY <1>3, <2>1 DEF PInv, Pass, Undisturbed, Awaited
  <2>6. /\ y.pdu = r.pdu
        /\ y.step = "STORE" => r.step \in {"READ", "STORE"}
        /\ y.step # "VERIFY" /\ (y.step = "DELETE" => r.step = "VERIFY")
    BY <1>1, <2>2, FinishedFacts
  <2>7. /\ y.step # "SELECT"
        /\ y.step = "NONE" /\ ~ y.pending => ~ y.again /\ ~ y.retry
        /\ y.step # "NONE" => ~ y.pending
        /\ calm /\ Quietly(y) => Coherent(y, slot, refused)
    <3>1. calm \in BOOLEAN
      BY DEF IInv, TypeOK
    <3> HIDE DEF calm
    <3> QED
      BY <1>1, <2>2, <2>3, <2>4, <2>5, <3>1, FinishedPass
  <2> HIDE DEF y
  <2>8. wire'.owner = "none" /\ wire'.said = "nothing"
    BY <1>1 DEF Quiet
  <2>9. ReceiptInv'
    BY <2>1, <2>6, <2>7, <2>8 DEF PInv, ReceiptInv, Awaited, Free, y
  <2>10. DueInv'
    BY <2>1, <2>7, <2>8 DEF DueInv, y
  <2>11. Pass'
    BY <1>1, <2>1, <2>7, <2>8 DEF Pass, Undisturbed, Awaited, y
  <2> QED
    BY <2>9, <2>10, <2>11 DEF PInv
<1> QED
  BY <1>2, <1>3

-----------------------------------------------------------------------------
(* The theorems.                                                           *)

LEMMA InitPass == Init => PInv
<1> SUFFICES ASSUME Init PROVE PInv
  OBVIOUS
<1>1. /\ r.step = "NONE" /\ ~ r.pending /\ ~ r.again /\ ~ r.retry
      /\ wire.owner = "none" /\ wire.said = "nothing" /\ ~ simReady
      /\ receipt = "none" /\ ~ admitted
  BY DEF Init, Fresh, Quiet, Store!Init
<1> QED
  BY <1>1 DEF PInv, ReceiptInv, DueInv, Pass, Undisturbed, Awaited

LEMMA NextPass == IInv /\ PInv /\ [Next]_vars => PInv'
<1> SUFFICES ASSUME IInv, PInv, [Next]_vars PROVE PInv'
  OBVIOUS
<1>1. CASE Phone
  BY <1>1, StartPass, StartAdmitPass, EnterReadyPass, IndicationPass DEF Phone
<1>2. CASE StoreCommit
  BY <1>2, StoreCommitPass
<1>3. CASE Answer
  BY <1>3, AnswerSelectPass, AnswerHeaderPass, AnswerBodyPass, AnswerDeletePass, FinalPass,
     DebugPass DEF Answer
<1>4. CASE Fault
  BY <1>4, StartRefusedPass, AnswerSelectPass, AnswerHeaderPass, AnswerBodyPass, FinalPass,
     TimeoutPass, SessionLostPass, SimLostPass, DebugCommandPass DEF Fault
<1>5. CASE SimBack
  BY <1>5, SimBackPass
<1>6. CASE \E s \in Slot, f \in Frag \union {Empty} : DebugEffect(s, f)
  BY <1>6, DebugPass
<1>7. CASE \E s \in Slot, f \in Frag : Arrive(s, f)
  BY <1>7, ArrivePass
<1>8. CASE UNCHANGED vars
  BY <1>8, PassFrame DEF vars, store
<1> QED
  BY <1>1, <1>2, <1>3, <1>4, <1>5, <1>6, <1>7, <1>8 DEF Next

(* Where a pass is, what it has counted and what it has left behind agree  *)
(* in every reachable state.                                               *)
THEOREM PassInvariant == Spec => [](IInv /\ PInv)
<1>1. Init => IInv /\ PInv
  BY InitInvariant, InitPass
<1>2. IInv /\ PInv /\ [Next]_vars => (IInv /\ PInv)'
  BY NextInvariant, NextPass
<1> QED
  BY <1>1, <1>2, PTL DEF Spec

(* The receipt that lets a record be deleted is the receipt of that        *)
(* record: sms_recovery_release_receipt has dropped the one before.        *)
THEOREM ReceiptsAreCurrent == Spec => []ReceiptIsCurrent
<1>1. IInv /\ PInv => ReceiptIsCurrent
  BY DEF PInv, ReceiptInv, ReceiptIsCurrent
<1> QED
  BY <1>1, PassInvariant, PTL

(* When modem_sms_recovery has nothing due, the modem's memory holds only  *)
(* what the stores refuse: the count that ends a pass early, the records   *)
(* that arrive behind it and the failures on the way leave nothing that is *)
(* not asked for again.                                                    *)
THEOREM NothingIsStranded == Spec => []NothingStranded
<1>1. IInv /\ PInv => NothingStranded
  <2> SUFFICES ASSUME IInv, PInv, Idle, r.step = "NONE", ~ r.pending, ~ cmti
               PROVE  \A s \in Slot : slot[s] \in refused \union {Empty}
    BY DEF NothingStranded
  <2>1. Undisturbed
    BY DEF PInv, DueInv, Undisturbed, Idle, Free, Disowned, Quietly
  <2>2. Behind(slot, refused, Capacity + 1)
    BY <2>1 DEF PInv, Pass, Coherent
  <2>3. \A s \in Slot : s < Capacity + 1
    BY SmsRecoveryAssumption DEF Slot
  <2> QED
    BY <2>2, <2>3 DEF Behind
<1> QED
  BY <1>1, PassInvariant, PTL

=============================================================================
