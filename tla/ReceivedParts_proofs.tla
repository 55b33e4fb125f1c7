------------------------ MODULE ReceivedParts_proofs ------------------------
(***************************************************************************)
(* Proofs about ReceivedParts and the commit engine under it, for any      *)
(* parts, messages, cap and number of faults: the stores keep the records  *)
(* as PersistentRecords says, a part reported as committed is on the       *)
(* medium, and a medium that refuses is not worn out.                      *)
(***************************************************************************)
EXTENDS ReceivedParts, FiniteSetTheorems, TLAPS

-----------------------------------------------------------------------------
(* Slots.                                                                  *)

(* A slot that a restart accepts, that is for one message at most and is   *)
(* whole as soon as it has as many parts as its message.                   *)
Sound(s) ==
    /\ s \in SlotType /\ IsFiniteSet(s.parts) /\ Applies(s)
    /\ \A m, n \in s.for : m = n
    /\ s.st = "partial" => \A m \in s.for : Cardinality(s.parts) < TotalOf[m]

GoodSlots(v) == v \in [SlotId -> SlotType] /\ \A i \in SlotId : Sound(v[i])

(* What a call on the slots of u may do, when d was dirty: what it changes *)
(* is marked, if the unit may be written, and what is whole stays so.      *)
Tidy(u, slots, d, r) ==
    /\ GoodSlots(r.slots)
    /\ d \subseteq r.dirty /\ r.dirty \subseteq d \cup {u}
    /\ u \in r.dirty => u \in d \/ u \in up
    /\ r.slots # slots => u \in r.dirty \/ u \notin up
    /\ \A i \in SlotId : slots[i].st = "ready" => r.slots[i].st = "ready"

LEMMA MinFact ==
  ASSUME NEW S \in SUBSET SlotId, S # {}
  PROVE  Min(S) \in S
<1>1. PICK x \in S : \A y \in S : x =< y
  <2>1. CASE 1 \in S
    BY <2>1 DEF SlotId
  <2>2. CASE 1 \notin S
    <3>1. S = {2}
      BY <2>2 DEF SlotId
    <3> QED
      BY <3>1
  <2> QED
    BY <2>1, <2>2
<1> QED
  BY <1>1 DEF Min

LEMMA MaxFact ==
  ASSUME NEW S \in SUBSET (0 .. 2), S # {}
  PROVE  Max(S) \in S
<1>1. PICK x \in S : \A y \in S : x >= y
  <2>1. \A y \in S : y = 0 \/ y = 1 \/ y = 2
    OBVIOUS
  <2>2. CASE 2 \in S
    BY <2>1, <2>2
  <2>3. CASE 2 \notin S /\ 1 \in S
    BY <2>1, <2>3
  <2>4. CASE 2 \notin S /\ 1 \notin S
    <3>1. S = {0}
      BY <2>1, <2>4
    <3> QED
      BY <3>1
  <2> QED
    BY <2>2, <2>3, <2>4
<1> QED
  BY <1>1 DEF Max

LEMMA NoSlotSound == Sound(NoSlot)
<1>1. NoSlot \in SlotType
  BY DEF NoSlot, SlotType
<1>2. IsFiniteSet({})
  BY FS_EmptySet
<1> QED
  BY <1>1, <1>2 DEF Sound, Applies, NoSlot

LEMMA OpenedSound ==
  ASSUME NEW f \in Part
  PROVE  /\ Sound(Opened(f)) /\ Opened(f).st = "partial" /\ Opened(f).parts = {}
         /\ MessageOf[f] \in Opened(f).for
<1>1. MessageOf[f] \in Message /\ TotalOf[MessageOf[f]] \in Nat \ {0}
  BY ReceivedPartsAssumption
<1>2. Opened(f) \in SlotType
  BY <1>1 DEF Opened, SlotType
<1>3. IsFiniteSet({}) /\ Cardinality({}) = 0
  BY FS_EmptySet
<1> QED
  BY <1>1, <1>2, <1>3 DEF Sound, Applies, Opened

LEMMA Pigeons ==
  ASSUME NEW S, IsFiniteSet(S), NEW n \in Nat, Cardinality(S) = n + 1, NEW g \in [S -> 1 .. n]
  PROVE  \E x, y \in S : x # y /\ g[x] = g[y]
<1>1. IsFiniteSet(1 .. n) /\ Cardinality(1 .. n) = n
  BY FS_Interval
<1>2. Cardinality(1 .. n) < Cardinality(S)
  BY <1>1
<1> QED
  BY <1>1, <1>2, FS_PigeonHole, Zenon

(* A whole slot has a part for every sequence number of its message.       *)
LEMMA WholeHasAlike ==
  ASSUME NEW s, Sound(s), s.st \in {"ready", "consumed"}, NEW f \in Part, MessageOf[f] \in s.for
  PROVE  Alike(s, f) # {}
<1> DEFINE n == TotalOf[MessageOf[f]]
           S == s.parts \cup {f}
           g == [p \in S |-> SeqOf[p]]
<1>1. /\ n \in Nat \ {0} /\ s.parts \in SUBSET Part /\ IsFiniteSet(s.parts)
      /\ Cardinality(s.parts) = n
  BY ReceivedPartsAssumption DEF Sound, SlotType, Applies
<1>2. \A p \in S : SeqOf[p] \in 1 .. n
  <2>1. \A p \in S : p \in Part /\ MessageOf[p] = MessageOf[f]
    BY <1>1 DEF Sound, Applies
  <2> QED
    BY <2>1, ReceivedPartsAssumption
<1>3. SUFFICES ASSUME \A p \in s.parts : SeqOf[p] # SeqOf[f] PROVE FALSE
  BY DEF Alike
<1>4. f \notin s.parts
  BY <1>3
<1>5. IsFiniteSet(S) /\ Cardinality(S) = n + 1
  BY <1>1, <1>4, FS_AddElement
<1>6. g \in [S -> 1 .. n] /\ n \in Nat
  BY <1>1, <1>2
<1> HIDE DEF n, S, g
<1>7. \E x, y \in S : x # y /\ g[x] = g[y]
  BY <1>5, <1>6, Pigeons
<1>8. PICK x \in S, y \in S : x # y /\ SeqOf[x] = SeqOf[y]
  BY <1>7 DEF g
<1> QED
  BY <1>3, <1>8 DEF S, Sound, Applies

(* A new part in a partial slot.                                           *)
LEMMA AddedSound ==
  ASSUME NEW s, Sound(s), s.st = "partial", NEW f \in Part, MessageOf[f] \in s.for,
         f \notin s.parts, Alike(s, f) = {}
  PROVE  Sound(Added(s, f))
<1> DEFINE t == [s EXCEPT !.parts = @ \cup {f}]
           n == TotalOf[MessageOf[f]]
<1>1. /\ n \in Nat \ {0} /\ s.parts \in SUBSET Part /\ IsFiniteSet(s.parts)
      /\ s.for \in SUBSET Message /\ Cardinality(s.parts) < n
  BY ReceivedPartsAssumption DEF Sound, SlotType
<1>2. /\ t \in SlotType /\ t.st = "partial" /\ t.for = s.for /\ t.parts = s.parts \cup {f}
  BY <1>1 DEF Sound, SlotType
<1>3. IsFiniteSet(t.parts) /\ Cardinality(t.parts) = Cardinality(s.parts) + 1
      /\ Cardinality(t.parts) \in Nat /\ Cardinality(s.parts) \in Nat
  BY <1>1, <1>2, FS_AddElement, FS_CardinalityType
<1>4. /\ \A p, q \in t.parts : SeqOf[p] = SeqOf[q] => p = q
      /\ \A p \in t.parts : MessageOf[p] \in t.for
  BY <1>2 DEF Sound, Applies, Alike
<1>5. \A m, k \in t.for : m = k
  BY <1>2 DEF Sound
<1>6. \A m \in t.for : m = MessageOf[f]
  BY <1>2, <1>5
<1>7. CASE Cardinality(t.parts) < n
  <2>1. Added(s, f) = t
    BY <1>7 DEF Added
  <2> QED
    BY <1>2, <1>3, <1>4, <1>5, <1>6, <1>7, <2>1 DEF Sound, Applies
<1>8. CASE ~ (Cardinality(t.parts) < n)
  <2> DEFINE st == IF MessageOf[f] \in Garbled THEN "invalid" ELSE "ready"
             r == [t EXCEPT !.st = st]
  <2>1. Added(s, f) = r
    BY <1>8 DEF Added
  <2>2. r \in SlotType /\ r.st = st /\ r.for = t.for /\ r.parts = t.parts
    BY <1>2 DEF SlotType
  <2>3. Cardinality(t.parts) = n
    BY <1>1, <1>3, <1>8
  <2>4. st = "ready" => \A m \in t.for : m \notin Garbled /\ Cardinality(t.parts) = TotalOf[m]
    BY <1>6, <2>3
  <2>5. st \in {"ready", "invalid"}
    OBVIOUS
  <2> HIDE DEF t, st, r, n
  <2>6. Applies(r)
    BY <1>4, <2>2, <2>4, <2>5 DEF Applies
  <2> QED
    BY <1>3, <1>5, <2>1, <2>2, <2>5, <2>6 DEF Sound
<1> QED
  BY <1>7, <1>8

-----------------------------------------------------------------------------
(* What the stores' calls do to their slots.                               *)
LEMMA TidySame ==
  ASSUME NEW u, NEW slots, NEW d, NEW rc, GoodSlots(slots)
  PROVE  Tidy(u, slots, d, Result(slots, d, rc))
BY DEF Tidy, Result

LEMMA TidyTwice ==
  ASSUME NEW u, NEW slots, NEW d, NEW e, NEW r, Tidy(u, slots, d, e), Tidy(u, e.slots, e.dirty, r)
  PROVE  Tidy(u, slots, d, r)
BY DEF Tidy

LEMMA TidyChange ==
  ASSUME NEW u, NEW slots, NEW d, NEW i \in SlotId, NEW s, NEW e, NEW rc, GoodSlots(slots), Sound(s),
         slots[i].st # "ready", e \in {d, d \cup {u}}, u \in e => u \in d \/ u \in up,
         u \in e \/ u \notin up
  PROVE  Tidy(u, slots, d, Result([slots EXCEPT ![i] = s], e, rc))
<1> DEFINE v == [slots EXCEPT ![i] = s]
<1>1. v \in [SlotId -> SlotType] /\ \A j \in SlotId : v[j] = IF j = i THEN s ELSE slots[j]
  BY DEF GoodSlots, Sound
<1> HIDE DEF v
<1>2. GoodSlots(v)
  BY <1>1 DEF GoodSlots
<1>3. Tidy(u, slots, d, Result(v, e, rc))
  BY <1>1, <1>2 DEF Tidy, Result
<1> QED
  BY <1>3 DEF v

(* A slot that is marked as invalid.                                       *)
LEMMA InvalidSound ==
  ASSUME NEW s, Sound(s)
  PROVE  Sound([s EXCEPT !.st = "invalid"])
<1> DEFINE t == [s EXCEPT !.st = "invalid"]
<1>1. t \in SlotType /\ t.st = "invalid" /\ t.for = s.for /\ t.parts = s.parts
  BY DEF Sound, SlotType
<1> HIDE DEF t
<1>2. Sound(t)
  BY <1>1 DEF Sound, Applies
<1> QED
  BY <1>2 DEF t

LEMMA TidyInvalid ==
  ASSUME NEW u, NEW slots, NEW d, NEW i \in SlotId, NEW e, NEW rc, GoodSlots(slots),
         slots[i].st # "ready", e \in {d, d \cup {u}}, u \in e => u \in d \/ u \in up,
         u \in e \/ u \notin up
  PROVE  Tidy(u, slots, d, Result([slots EXCEPT ![i].st = "invalid"], e, rc))
<1> DEFINE s == [slots[i] EXCEPT !.st = "invalid"]
<1>1. Sound(s)
  BY InvalidSound DEF GoodSlots
<1>2. [slots EXCEPT ![i].st = "invalid"] = [slots EXCEPT ![i] = s]
  OBVIOUS
<1> HIDE DEF s
<1> QED
  BY <1>1, <1>2, TidyChange

LEMMA ToneExpiredFact ==
  ASSUME NEW slots, NEW d, GoodSlots(slots),
         NEW old \in SUBSET {i \in SlotId : slots[i].st \notin {"free", "ready"}}
  PROVE  Tidy(ToneUnit, slots, d, ToneExpired(slots, d, old))
<1>1. CASE old = {} \/ CommitStatus(ToneUnit, d) # "OK" \/ ~ Ready(ToneUnit)
  BY <1>1, TidySame DEF ToneExpired
<1>2. CASE ~ (old = {} \/ CommitStatus(ToneUnit, d) # "OK" \/ ~ Ready(ToneUnit))
  <2>1. Min(old) \in old /\ Min(old) \in SlotId /\ slots[Min(old)].st # "ready"
    BY <1>2, MinFact
  <2>2. ToneUnit \in up
    BY <1>2 DEF Ready
  <2>3. ToneExpired(slots, d, old) =
           Result([slots EXCEPT ![Min(old)] = NoSlot], d \cup {ToneUnit}, "OK")
    BY <1>2 DEF ToneExpired
  <2> QED
    BY <2>1, <2>2, <2>3, NoSlotSound, TidyChange
<1> QED
  BY <1>1, <1>2

LEMMA AvailableFact ==
  ASSUME NEW u, NEW slots, NEW d, Available(u, slots, d) # {}
  PROVE  /\ Max(Available(u, slots, d)) \in SlotId
         /\ slots[Max(Available(u, slots, d))].st \in {"free", "consumed"}
<1> DEFINE free == {i \in SlotId : slots[i].st = "free"}
           used == {i \in SlotId : slots[i].st = "consumed" /\ CommitStatus(u, d) = "OK"}
           A == Available(u, slots, d)
<1>1. A = IF free # {} THEN {Max(free)} ELSE IF used # {} THEN {Min(used)} ELSE {}
  BY DEF Available
<1>2. free # {} => Max(free) \in free
  BY MaxFact DEF SlotId
<1>3. used # {} => Min(used) \in used
  BY MinFact
<1>4. A \in SUBSET SlotId /\ \A i \in A : slots[i].st \in {"free", "consumed"}
  BY <1>1, <1>2, <1>3
<1> HIDE DEF A
<1>5. A # {} => Max(A) \in A
  BY <1>4, MaxFact DEF SlotId
<1> QED
  BY <1>4, <1>5 DEF A

LEMMA ToneFiledFact ==
  ASSUME NEW slots, NEW d, GoodSlots(slots), NEW i \in SlotId, slots[i].st # "ready",
         NEW f \in Part, NEW s, Sound(s), s.st = "partial", MessageOf[f] \in s.for,
         f \notin s.parts, Alike(s, f) = {}
  PROVE  Tidy(ToneUnit, slots, d, ToneFiled(slots, d, i, s, f))
<1>1. CASE ~ Ready(ToneUnit)
  BY <1>1, TidySame DEF ToneFiled
<1>2. CASE Ready(ToneUnit)
  <2>1. Sound(Added(s, f))
    BY AddedSound
  <2>2. ToneFiled(slots, d, i, s, f) =
           Result([slots EXCEPT ![i] = Added(s, f)], d \cup {ToneUnit}, AddedStatus(s, f))
    BY <1>2 DEF ToneFiled
  <2>3. ToneUnit \in up
    BY <1>2 DEF Ready
  <2> QED
    BY <2>1, <2>2, <2>3, TidyChange
<1> QED
  BY <1>1, <1>2

LEMMA RankFact ==
  ASSUME NEW s, NEW f
  PROVE  /\ Rank(s, f) \in 0 .. 2
         /\ Rank(s, f) # 0 => s.st # "free" /\ MessageOf[f] \in s.for
BY DEF Rank

(* A part that is new to a slot that is not invalid: the slot is partial.  *)
LEMMA NewPartFact ==
  ASSUME NEW s, Sound(s), NEW f \in Part, MessageOf[f] \in s.for, s.st \notin {"free", "invalid"},
         Alike(s, f) \ {f} = {}, f \notin s.parts
  PROVE  s.st = "partial" /\ Alike(s, f) = {}
<1>1. Alike(s, f) = {}
  BY DEF Alike
<1>2. s.st \in {"free", "partial", "ready", "consumed", "invalid"}
  BY DEF Sound, SlotType
<1> QED
  BY <1>1, <1>2, WholeHasAlike

LEMMA ToneReceivedFact ==
  ASSUME GoodSlots(ram[ToneUnit]), NEW f \in Part, NEW old \in Aged(ToneUnit)
  PROVE  Tidy(ToneUnit, ram[ToneUnit], dirty, ToneReceived(f, old))
<1> DEFINE e     == ToneExpired(Slots(ToneUnit), dirty, old)
           slots == e.slots
           d     == e.dirty
           best  == BestRank(slots, f)
           free  == Available(ToneUnit, slots, d)
           r     == ToneReceived(f, old)
<1>1. Tidy(ToneUnit, ram[ToneUnit], dirty, e)
  BY ToneExpiredFact DEF Aged, Slots
<1>2. GoodSlots(slots)
  BY <1>1 DEF Tidy
<1> HIDE DEF e
<1>3. SUFFICES Tidy(ToneUnit, slots, d, r)
  BY <1>1, TidyTwice
<1>4. CASE best = 0
  <2>1. CASE free = {}
    <3>1. r = Result(slots, d, "STORAGE_ERROR")
      BY <1>4, <2>1 DEF ToneReceived, e
    <3> QED
      BY <1>2, <3>1, TidySame
  <2>2. CASE free # {}
    <3>1. r = ToneFiled(slots, d, Max(free), Opened(f), f)
      BY <1>4, <2>2 DEF ToneReceived, e
    <3>2. Max(free) \in SlotId /\ slots[Max(free)].st # "ready"
      BY <2>2, AvailableFact
    <3>3. /\ Sound(Opened(f)) /\ Opened(f).st = "partial" /\ MessageOf[f] \in Opened(f).for
          /\ f \notin Opened(f).parts /\ Alike(Opened(f), f) = {}
      BY OpenedSound DEF Alike
    <3> QED
      BY <1>2, <3>1, <3>2, <3>3, ToneFiledFact
  <2> QED
    BY <2>1, <2>2
<1>5. CASE best # 0
  <2> DEFINE J == {j \in SlotId : Rank(slots[j], f) = best}
             i == Min(J)
             s == slots[i]
  <2>1. i \in J
    <3> DEFINE R == {Rank(slots[j], f) : j \in SlotId}
    <3>1. R \in SUBSET (0 .. 2) /\ R # {}
      BY RankFact DEF SlotId
    <3>2. best \in R
      BY <3>1, MaxFact DEF BestRank
    <3>3. J # {}
      <4>1. PICK j \in SlotId : best = Rank(slots[j], f)
        BY <3>2
      <4> QED
        BY <4>1
    <3> QED
      BY <3>3, MinFact
  <2>2. i \in SlotId /\ s.st # "free" /\ MessageOf[f] \in s.for /\ Sound(s)
    BY <1>2, <1>5, <2>1, RankFact DEF GoodSlots
  <2>3. r = IF s.st = "invalid" THEN Result(slots, d, "CONFLICT")
            ELSE IF Alike(s, f) \ {f} # {}
            THEN IF s.st = "partial" /\ Ready(ToneUnit)
                 THEN Result([slots EXCEPT ![i].st = "invalid"], d \cup {ToneUnit}, "CONFLICT")
                 ELSE Result(slots, d, "CONFLICT")
            ELSE IF f \in s.parts THEN Result(slots, d, "OK")
            ELSE ToneFiled(slots, d, i, s, f)
    BY <1>5 DEF ToneReceived, e
  <2> HIDE DEF i, slots, d, r
  <2>4. CASE /\ s.st # "invalid" /\ Alike(s, f) \ {f} # {}
             /\ s.st = "partial" /\ Ready(ToneUnit)
    <3>1. r = Result([slots EXCEPT ![i].st = "invalid"], d \cup {ToneUnit}, "CONFLICT")
      BY <2>3, <2>4
    <3>2. ToneUnit \in up /\ slots[i].st # "ready"
      BY <2>4 DEF Ready
    <3>3. Tidy(ToneUnit, slots, d,
               Result([slots EXCEPT ![i].st = "invalid"], d \cup {ToneUnit}, "CONFLICT"))
      BY <1>2, <2>2, <3>2, TidyInvalid
    <3> QED
      BY <3>1, <3>3
  <2>5. CASE s.st # "invalid" /\ Alike(s, f) \ {f} = {} /\ f \notin s.parts
    <3>1. s.st = "partial" /\ Alike(s, f) = {}
      BY <2>2, <2>5, NewPartFact
    <3>2. r = ToneFiled(slots, d, i, s, f)
      BY <2>3, <2>5
    <3> QED
      BY <1>2, <2>2, <2>5, <3>1, <3>2, ToneFiledFact
  <2>6. CASE \/ s.st = "invalid"
             \/ Alike(s, f) \ {f} # {} /\ ~ (s.st = "partial" /\ Ready(ToneUnit))
             \/ Alike(s, f) \ {f} = {} /\ f \in s.parts
    <3>1. \E rc \in {"CONFLICT", "OK"} : r = Result(slots, d, rc)
      BY <2>3, <2>6
    <3> QED
      BY <1>2, <3>1, TidySame
  <2> QED
    BY <2>4, <2>5, <2>6
<1> QED
  BY <1>4, <1>5

(* A scan of the pictures' slots: what a slot it stopped at or noted holds. *)
Scan(acc, f) ==
    /\ acc \in [slots : [SlotId -> SlotType], dirty : SUBSET Unit,
               hit : {0} \cup SlotId, free : {0} \cup SlotId]
    /\ Tidy(Pictures, ram[Pictures], dirty, acc)
    /\ acc.hit # 0 => Matches(acc.slots[acc.hit], f)
    /\ acc.free # 0 => acc.slots[acc.free].st \in {"free", "consumed"}

LEMMA SeenFact ==
  ASSUME NEW f, NEW old \in Aged(Pictures), NEW acc, Scan(acc, f), NEW i \in SlotId,
         acc.slots[i] = ram[Pictures][i], acc.free # i
  PROVE  /\ Scan(Seen(acc, i, f, old), f)
         /\ \A j \in SlotId \ {i} : Seen(acc, i, f, old).slots[j] = acc.slots[j]
         /\ Seen(acc, i, f, old).free \in {acc.free, i}
<1> DEFINE s == acc.slots[i]
           gone == /\ i \in old
                   /\ s.st = "consumed" => CommitStatus(Pictures, acc.dirty) = "OK"
           t == IF gone THEN NoSlot ELSE s
           d == IF gone THEN Marked(acc.dirty, Pictures) ELSE acc.dirty
           v == [acc.slots EXCEPT ![i] = t]
           a == [slots |-> v, dirty |-> d, hit |-> acc.hit, free |-> acc.free]
           r == Seen(acc, i, f, old)
<1>1. GoodSlots(acc.slots) /\ Sound(s)
  BY DEF Scan, Tidy, GoodSlots
<1>2. Sound(t) /\ (t # s => gone /\ s.st # "ready")
  BY <1>1, NoSlotSound DEF Aged, Slots
<1>3. v \in [SlotId -> SlotType] /\ \A j \in SlotId : v[j] = IF j = i THEN t ELSE acc.slots[j]
  BY <1>1, <1>2 DEF GoodSlots, Sound
<1>4. /\ d \in SUBSET Unit /\ acc.dirty \subseteq d /\ d \subseteq acc.dirty \cup {Pictures}
      /\ gone => Pictures \in d \/ Pictures \notin up
      /\ Pictures \in d => Pictures \in acc.dirty \/ Pictures \in up
  BY ReceivedPartsAssumption DEF Marked, Ready, Scan, Unit, Pictures
<1>5. /\ [a EXCEPT !.hit = i] = [slots |-> v, dirty |-> d, hit |-> i, free |-> acc.free]
      /\ [a EXCEPT !.free = i] = [slots |-> v, dirty |-> d, hit |-> acc.hit, free |-> i]
  OBVIOUS
<1>6. r = IF acc.hit # 0 THEN acc
          ELSE IF Matches(t, f) THEN [a EXCEPT !.hit = i]
          ELSE IF t.st = "free" \/ (t.st = "consumed" /\ CommitStatus(Pictures, d) = "OK")
          THEN [a EXCEPT !.free = i]
          ELSE a
  BY DEF Seen
<1> HIDE DEF r, a, v, t, d, s, gone
<1>7. ASSUME NEW b, b.slots = v, b.dirty = d
      PROVE  Tidy(Pictures, ram[Pictures], dirty, b)
  <2>1. GoodSlots(v)
    BY <1>1, <1>2, <1>3 DEF GoodSlots
  <2>2. v # acc.slots => t # s
    BY <1>1, <1>3 DEF GoodSlots, s
  <2>3. \A j \in SlotId : acc.slots[j].st = "ready" => v[j].st = "ready"
    BY <1>2, <1>3 DEF s
  <2>4. Tidy(Pictures, acc.slots, acc.dirty, b)
    BY <1>2, <1>4, <1>7, <2>1, <2>2, <2>3 DEF Tidy
  <2> QED
    BY <2>4, TidyTwice DEF Scan
<1>8. CASE acc.hit # 0
  BY <1>6, <1>8 DEF r
<1>9. CASE acc.hit = 0
  <2>1. \E h \in {0, i}, g \in {acc.free, i} :
           /\ r = [slots |-> v, dirty |-> d, hit |-> h, free |-> g]
           /\ h = i => Matches(t, f)
           /\ g = i => t.st \in {"free", "consumed"}
    <3>1. CASE Matches(t, f)
      BY <1>5, <1>6, <1>9, <3>1 DEF SlotId
    <3>2. CASE ~ Matches(t, f) /\ t.st \in {"free", "consumed"} /\ r = [a EXCEPT !.free = i]
      BY <1>5, <1>9, <3>2 DEF SlotId
    <3>3. CASE r = a
      BY <1>9, <3>3 DEF a, SlotId
    <3> QED
      BY <1>6, <1>9, <3>1, <3>2, <3>3
  <2>2. PICK h \in {0, i}, g \in {acc.free, i} :
           /\ r = [slots |-> v, dirty |-> d, hit |-> h, free |-> g]
           /\ h = i => Matches(t, f)
           /\ g = i => t.st \in {"free", "consumed"}
    BY <2>1
  <2>3. r.slots = v /\ r.dirty = d /\ r.hit = h /\ r.free = g
    BY <2>2
  <2>4. g # 0 => v[g].st \in {"free", "consumed"}
    BY <1>3, <2>2 DEF Scan
  <2>5. h # 0 => Matches(v[h], f)
    BY <1>3, <2>2
  <2>6. Tidy(Pictures, ram[Pictures], dirty, r)
    BY <1>7, <2>3
  <2>7. r \in [slots : [SlotId -> SlotType], dirty : SUBSET Unit,
               hit : {0} \cup SlotId, free : {0} \cup SlotId]
    BY <1>3, <1>4, <2>2 DEF Scan
  <2>8. Scan(r, f)
    BY <2>3, <2>4, <2>5, <2>6, <2>7 DEF Scan
  <2> QED
    BY <1>3, <2>3, <2>8 DEF r
<1> QED
  BY <1>8, <1>9 DEF r

LEMMA ScannedFact ==
  ASSUME GoodSlots(ram[Pictures]), dirty \subseteq Unit, NEW f, NEW old \in Aged(Pictures)
  PROVE  Scan(Scanned(f, old), f)
<1> DEFINE start == [slots |-> Slots(Pictures), dirty |-> dirty, hit |-> 0, free |-> 0]
           one   == Seen(start, 1, f, old)
<1>1. Scan(start, f) /\ start.slots = ram[Pictures] /\ start.free = 0
  <2>1. Tidy(Pictures, ram[Pictures], dirty, start)
    BY DEF Tidy, Slots
  <2> QED
    BY <2>1 DEF Scan, GoodSlots, Slots, SlotId
<1>2. 1 \in SlotId /\ 2 \in SlotId
  BY DEF SlotId
<1> HIDE DEF start
<1>3. Scan(one, f) /\ one.slots[2] = ram[Pictures][2] /\ one.free # 2
  <2>1. /\ Scan(one, f)
        /\ \A j \in SlotId \ {1} : one.slots[j] = start.slots[j]
        /\ one.free \in {start.free, 1}
    BY <1>1, <1>2, SeenFact
  <2> QED
    BY <1>1, <1>2, <2>1
<1> HIDE DEF one
<1>4. Scan(Seen(one, 2, f, old), f)
  BY <1>2, <1>3, SeenFact
<1> QED
  BY <1>4 DEF Scanned, one, start

LEMMA PictureReceivedFact ==
  ASSUME GoodSlots(ram[Pictures]), dirty \subseteq Unit,
         NEW f \in Part, NEW old \in Aged(Pictures)
  PROVE  Tidy(Pictures, ram[Pictures], dirty, PictureReceived(f, old))
<1> DEFINE n == Scanned(f, old)
           slots == n.slots
           d == n.dirty
           i == IF n.hit # 0 THEN n.hit ELSE n.free
           s == IF n.hit # 0 THEN slots[i] ELSE Opened(f)
           m == Marked(d, Pictures)
           r == PictureReceived(f, old)
<1>1. Scan(n, f)
  BY ScannedFact
<1>2. r = IF i = 0 THEN Result(slots, d, "STORAGE_ERROR")
          ELSE IF s.st = "invalid" THEN Result(slots, d, "CONFLICT")
          ELSE IF Alike(s, f) \ {f} # {}
          THEN IF s.st = "partial"
               THEN Result([slots EXCEPT ![i].st = "invalid"], m, "CONFLICT")
               ELSE Result(slots, d, "CONFLICT")
          ELSE IF f \in s.parts THEN Result(slots, d, "OK")
          ELSE Result([slots EXCEPT ![i] = Added(s, f)], m, AddedStatus(s, f))
  BY DEF PictureReceived
<1> HIDE DEF n, r
<1>3. /\ GoodSlots(slots) /\ Tidy(Pictures, ram[Pictures], dirty, n)
      /\ i \in {0} \cup SlotId
  BY <1>1 DEF Scan, Tidy
<1>4. SUFFICES Tidy(Pictures, slots, d, r)
  BY <1>3, TidyTwice DEF r
<1>5. /\ m \in {d, d \cup {Pictures}} /\ (Pictures \in m => Pictures \in d \/ Pictures \in up)
      /\ Pictures \in m \/ Pictures \notin up
  BY DEF Marked, Ready
<1>6. ASSUME i # 0
      PROVE  /\ Sound(s) /\ MessageOf[f] \in s.for /\ s.st # "free"
             /\ s.st = "partial" => slots[i].st # "ready"
             /\ n.hit = 0 => Alike(s, f) = {}
  <2>1. CASE n.hit # 0
    BY <1>1, <1>3, <2>1 DEF Scan, Matches, GoodSlots
  <2>2. CASE n.hit = 0
    BY <1>1, <1>3, <1>6, <2>2, OpenedSound DEF Scan, Alike
  <2> QED
    BY <2>1, <2>2
<1> HIDE DEF i, s, slots, d, m
<1>7. CASE i # 0 /\ s.st # "invalid" /\ Alike(s, f) \ {f} # {} /\ s.st = "partial"
  <2>1. r = Result([slots EXCEPT ![i].st = "invalid"], m, "CONFLICT")
    BY <1>2, <1>7
  <2>2. Tidy(Pictures, slots, d, Result([slots EXCEPT ![i].st = "invalid"], m, "CONFLICT"))
    BY <1>3, <1>5, <1>6, <1>7, TidyInvalid
  <2> QED
    BY <2>1, <2>2
<1>8. CASE i # 0 /\ s.st # "invalid" /\ Alike(s, f) \ {f} = {} /\ f \notin s.parts
  <2>1. s.st = "partial" /\ Alike(s, f) = {}
    BY <1>6, <1>8, NewPartFact
  <2>2. Sound(Added(s, f))
    BY <1>6, <1>8, <2>1, AddedSound
  <2>3. r = Result([slots EXCEPT ![i] = Added(s, f)], m, AddedStatus(s, f))
    BY <1>2, <1>8
  <2>4. i \in SlotId /\ slots[i].st # "ready"
    BY <1>3, <1>6, <1>8, <2>1
  <2>5. Tidy(Pictures, slots, d, Result([slots EXCEPT ![i] = Added(s, f)], m, AddedStatus(s, f)))
    BY <1>3, <1>5, <2>2, <2>4, TidyChange
  <2> QED
    BY <2>3, <2>5
<1>9. CASE \/ i = 0 \/ s.st = "invalid"
           \/ Alike(s, f) \ {f} # {} /\ s.st # "partial"
           \/ Alike(s, f) \ {f} = {} /\ f \in s.parts
  <2>1. \E rc \in {"STORAGE_ERROR", "CONFLICT", "OK"} : r = Result(slots, d, rc)
    BY <1>2, <1>9
  <2> QED
    BY <1>3, <2>1, TidySame
<1> QED
  BY <1>7, <1>8, <1>9

-----------------------------------------------------------------------------
(* The records, in RAM and on the medium.                                  *)
Good(u, v) == IF u = Settings THEN v \in 0 .. MaxSets ELSE GoodSlots(v)

Records(r, m) ==
    /\ DOMAIN r = Unit /\ DOMAIN m = Unit
    /\ \A u \in Unit : Good(u, r[u]) /\ (m[u] \in {Missing, Damaged} \/ Good(u, m[u]))

(* What is available and not marked is on the medium.                      *)
Synced(r, m, d, a) ==
    \A u \in a : m[u] # Damaged /\ (u \in d \/ m[u] = r[u])

(* What is offered is whole, in RAM and on the medium.                     *)
Offered(r, m, a, sh) ==
    \A u \in Store : sh[u] # 0 =>
        /\ r[u][sh[u]].st = "ready"
        /\ u \in a => m[u] \notin {Missing, Damaged} /\ m[u][sh[u]].st = "ready"

Durable(r, m, d, a, sh) ==
    /\ Records(r, m) /\ Synced(r, m, d, a) /\ Offered(r, m, a, sh)
    /\ d \subseteq a /\ a \subseteq Unit /\ sh \in [Store -> {0} \cup SlotId]

Nothing == [u \in Store |-> 0]

(* The engine's books: each refusal is counted once, also by the medium.   *)
Books(f, w, s) ==
    f \in [Unit -> 0 .. FailLimit] /\ w = f /\ s \in Unit

IInv ==
    /\ Books(fails, wear, scan)
    /\ phase \in {"load", "run", "off", "cut"} /\ sets \in 0 .. MaxSets
    /\ Records(ram, media) /\ dirty \subseteq up /\ up \subseteq Unit
    /\ phase \in {"load", "run"} => Durable(ram, media, dirty, up, shown)
    /\ phase # "run" => shown = Nothing
    /\ phase = "run" => shown \in [Store -> {0} \cup SlotId]

LEMMA UnitFact == /\ Unit = {0, 1, 2} /\ Store = {1, 2} /\ Settings = 0 /\ Store \subseteq Unit
                  /\ Unit = {Settings} \cup Store /\ Settings \notin Store
BY ReceivedPartsAssumption DEF Unit, Store, Settings, Pictures, ToneUnit

LEMMA GoodIsRecord ==
  ASSUME NEW u, NEW v, Good(u, v)
  PROVE  v \notin {Missing, Damaged}
BY ReceivedPartsAssumption DEF Good, GoodSlots

LEMMA FactoryGood == \A u \in Unit : Good(u, Factory[u])
<1>1. <<NoSlot, NoSlot>> \in [SlotId -> SlotType]
  BY NoSlotSound DEF Sound, SlotId
<1>2. GoodSlots(<<NoSlot, NoSlot>>)
  BY <1>1, NoSlotSound DEF GoodSlots, SlotId
<1> QED
  BY <1>2, UnitFact, ReceivedPartsAssumption DEF Good

(* A call on the slots of a store.                                         *)
LEMMA CallIsDurable ==
  ASSUME Durable(ram, media, dirty, up, shown), NEW u \in Store, NEW r,
         Tidy(u, ram[u], dirty, r)
  PROVE  Durable([ram EXCEPT ![u] = r.slots], media, r.dirty, up, shown)
<1> DEFINE v == [ram EXCEPT ![u] = r.slots]
<1>1. DOMAIN v = Unit /\ \A x \in Unit : v[x] = IF x = u THEN r.slots ELSE ram[x]
  BY UnitFact DEF Durable, Records
<1>2. GoodSlots(r.slots) /\ u # Settings /\ u \in Unit
  BY UnitFact DEF Tidy
<1> HIDE DEF v
<1>3. Records(v, media)
  BY <1>1, <1>2 DEF Durable, Records, Good
<1>4. r.dirty \subseteq up
  BY DEF Tidy, Durable
<1>5. Synced(v, media, r.dirty, up)
  BY <1>1, <1>2 DEF Durable, Synced, Tidy
<1>6. Offered(v, media, up, shown)
  <2> SUFFICES ASSUME NEW x \in Store, shown[x] # 0 PROVE v[x][shown[x]].st = "ready"
    BY DEF Durable, Offered
  <2>1. shown[x] \in SlotId /\ ram[x][shown[x]].st = "ready"
    BY DEF Durable, Offered
  <2> QED
    BY <1>1, <2>1, UnitFact DEF Tidy
<1> QED
  BY <1>3, <1>4, <1>5, <1>6 DEF Durable, v

(* The writes o of some of the dirty units d, from RAM r.                  *)
LEMMA WriteIsDurable ==
  ASSUME NEW r, NEW m, NEW d, NEW a, NEW sh, Durable(r, media, d, a, sh),
         NEW W \in SUBSET d, NEW o \in [W -> Outcome], m = Written(r, o)
  PROVE  /\ Durable(r, m, Cleaned(d, o), a, sh)
         /\ \A u \in Unit : m[u] = media[u] \/ (m[u] = r[u] /\ media[u] # Damaged)
<1>1. DOMAIN m = Unit /\ \A u \in Unit : m[u] = IF u \in W /\ o[u] \in Hit THEN r[u] ELSE media[u]
  BY DEF Written
<1>2. \A u \in W : u \in a /\ u \in Unit /\ media[u] # Damaged
  BY DEF Durable, Synced
<1>3. \A u \in Unit : m[u] = media[u] \/ (m[u] = r[u] /\ media[u] # Damaged)
  BY <1>1, <1>2
<1>4. Cleaned(d, o) = d \ {u \in W : o[u] = "ok"}
  BY DEF Cleaned
<1>5. Records(r, m)
  BY <1>1, <1>3 DEF Durable, Records
<1>6. Synced(r, m, Cleaned(d, o), a)
  <2> SUFFICES ASSUME NEW u \in a
               PROVE  m[u] # Damaged /\ (u \in Cleaned(d, o) \/ m[u] = r[u])
    BY DEF Synced
  <2>1. u \in Unit /\ media[u] # Damaged /\ (u \in d \/ media[u] = r[u]) /\ r[u] # Damaged
    BY GoodIsRecord DEF Durable, Records, Synced
  <2> QED
    BY <1>1, <1>4, <2>1 DEF Hit
<1>7. Offered(r, m, a, sh)
  BY <1>3, UnitFact, GoodIsRecord DEF Durable, Records, Offered
<1> QED
  BY <1>3, <1>4, <1>5, <1>6, <1>7 DEF Durable

(* The books, after a re-arm and after writes.                             *)
LEMMA RearmedBooks ==
  ASSUME Books(fails, wear, scan), NEW d, NEW rearm \in BOOLEAN
  PROVE  Books(FailsAt(d, rearm), WearAt(d, rearm), scan)
<1>1. FailLimit \in Nat \ {0}
  BY StoreCommitAssumption
<1>2. Rearmed(d, fails) \in [Unit -> 0 .. FailLimit]
  BY <1>1 DEF Rearmed, Books
<1>3. ASSUME NEW u \in Unit
      PROVE  Rearmed(d, fails)[u] = IF u \in d /\ fails[u] >= FailLimit THEN FailLimit - 1 ELSE fails[u]
  BY DEF Rearmed
<1>4. ASSUME NEW u \in Unit
      PROVE  Credited(d, fails)[u] = IF Rearmed(d, fails)[u] < fails[u] THEN wear[u] - 1 ELSE wear[u]
  BY DEF Credited
<1>5. ASSUME NEW u \in Unit
      PROVE  Credited(d, fails)[u] = Rearmed(d, fails)[u]
  <2>1. fails[u] \in 0 .. FailLimit /\ wear[u] = fails[u]
    BY DEF Books
  <2>2. CASE u \in d /\ fails[u] >= FailLimit
    <3>1. Rearmed(d, fails)[u] = FailLimit - 1
      BY <1>3, <2>2
    <3>2. fails[u] = FailLimit
      BY <1>1, <2>1, <2>2
    <3>3. Rearmed(d, fails)[u] < fails[u]
      BY <1>1, <3>1, <3>2
    <3> QED
      BY <1>4, <2>1, <3>1, <3>2, <3>3
  <2>3. CASE ~ (u \in d /\ fails[u] >= FailLimit)
    <3>1. Rearmed(d, fails)[u] = fails[u]
      BY <1>3, <2>3
    <3>2. ~ (Rearmed(d, fails)[u] < fails[u])
      BY <1>1, <2>1, <3>1
    <3> QED
      BY <1>4, <2>1, <3>1, <3>2
  <2> QED
    BY <2>2, <2>3
<1>6. Credited(d, fails) = Rearmed(d, fails)
  BY <1>5 DEF Credited, Rearmed
<1> QED
  BY <1>2, <1>6 DEF FailsAt, WearAt, Books

LEMMA CountedBooks ==
  ASSUME NEW f, NEW w, NEW s \in Unit, Books(f, w, s), NEW W, NEW o \in [W -> Outcome],
         W \cap Parked(f) = {}
  PROVE  Books(Counted(f, o), Worn(w, o), s)
<1>1. Worn(w, o) = Counted(f, o)
  BY DEF Worn, Counted, Books
<1>2. \A u \in Unit : IF u \notin W \/ o[u] \in Busy THEN f[u] \in 0 .. FailLimit
                       ELSE IF o[u] = "ok" THEN 0 \in 0 .. FailLimit ELSE f[u] + 1 \in 0 .. FailLimit
  BY StoreCommitAssumption DEF Books, Parked
<1>3. Counted(f, o) \in [Unit -> 0 .. FailLimit]
  BY <1>2 DEF Counted
<1> QED
  BY <1>1, <1>3 DEF Books

-----------------------------------------------------------------------------
(* Each action keeps the invariant, and is a step of PersistentRecords.    *)
LEMMA RunIsDurable ==
  ASSUME IInv, phase \in {"load", "run"}
  PROVE  Durable(ram, media, dirty, up, shown)
BY DEF IInv

LEMMA RunInvariant ==
  ASSUME Durable(ram', media', dirty', up', shown'), Books(fails', wear', scan'),
         phase' = "run", sets' \in 0 .. MaxSets
  PROVE  IInv'
BY DEF IInv, Durable

LEMMA KeptUse ==
  ASSUME phase \in {"load", "run"}, phase' \in {"load", "run"}, DOMAIN ram' = Unit,
         \A u \in Unit : media'[u] = media[u] \/ (media'[u] = ram'[u] /\ media[u] # Damaged)
  PROVE  Kept!Use
BY DEF Kept!Use, Kept!Saves

LEMMA ReceiveStep ==
  ASSUME IInv, NEW f \in Part, Receive(f)
  PROVE  IInv' /\ Kept!Use
<1> DEFINE u == StoreOf(f)
<1>1. Durable(ram, media, dirty, up, shown) /\ phase = "run" /\ phase' = "run"
  BY RunIsDurable DEF Receive
<1>2. PICK old \in Aged(u) : /\ ram' = [ram EXCEPT ![u] = Received(f, old).slots]
                             /\ dirty' = Received(f, old).dirty
  BY DEF Receive
<1>3. u \in Store /\ GoodSlots(ram[ToneUnit]) /\ GoodSlots(ram[Pictures]) /\ dirty \subseteq Unit
  BY <1>1, UnitFact DEF Durable, Records, Good, StoreOf, Store
<1>4. Tidy(u, ram[u], dirty, Received(f, old))
  <2>1. CASE f \in Tones
    BY <1>3, <2>1, ToneReceivedFact DEF Received, StoreOf
  <2>2. CASE f \notin Tones
    BY <1>3, <2>2, PictureReceivedFact DEF Received, StoreOf
  <2> QED
    BY <2>1, <2>2
<1>5. UNCHANGED <<media, up, fails, scan, wear, shown, sets>>
  BY DEF Receive
<1> HIDE DEF u
<1>6. Durable(ram', media', dirty', up', shown')
  BY <1>1, <1>2, <1>3, <1>4, <1>5, CallIsDurable
<1>7. IInv'
  BY <1>1, <1>5, <1>6, RunInvariant DEF IInv
<1>8. Kept!Use
  BY <1>1, <1>5, <1>6, KeptUse DEF Durable, Records
<1> QED
  BY <1>7, <1>8

LEMMA ShowStep ==
  ASSUME IInv, NEW u \in Store, Show(u)
  PROVE  IInv' /\ UNCHANGED store
<1>1. Durable(ram, media, dirty, up, shown) /\ phase = "run"
  BY RunIsDurable DEF Show
<1>2. PICK i \in SlotId : ram[u][i].st = "ready" /\ shown' = [shown EXCEPT ![u] = i]
  BY DEF Show, Slots
<1>3. UNCHANGED store /\ sets' = sets /\ u \notin dirty
  BY DEF Show, CommitStatus
<1>4. u \in up => media[u] = ram[u] /\ media[u] \notin {Missing, Damaged}
  BY <1>1, <1>3, UnitFact, GoodIsRecord DEF Durable, Records, Synced
<1>5. /\ shown' \in [Store -> {0} \cup SlotId]
      /\ \A x \in Store : shown'[x] = IF x = u THEN i ELSE shown[x]
  BY <1>1, <1>2 DEF Durable
<1>6. Offered(ram, media, up, shown')
  BY <1>1, <1>2, <1>4, <1>5 DEF Durable, Offered
<1>7. Durable(ram', media', dirty', up', shown')
  BY <1>1, <1>3, <1>5, <1>6 DEF Durable, store
<1>8. IInv'
  BY <1>1, <1>3, <1>7, RunInvariant DEF IInv, store
<1> QED
  BY <1>3, <1>8

(* What was offered and whole is sound when it is consumed.                *)
LEMMA ConsumedSound ==
  ASSUME NEW s, Sound(s), s.st = "ready"
  PROVE  Sound([s EXCEPT !.st = "consumed"])
<1> DEFINE t == [s EXCEPT !.st = "consumed"]
<1>1. t \in SlotType /\ t.st = "consumed" /\ t.for = s.for /\ t.parts = s.parts
  BY DEF Sound, SlotType
<1> HIDE DEF t
<1>2. Sound(t)
  BY <1>1 DEF Sound, Applies
<1> QED
  BY <1>2 DEF t

LEMMA ConsumeStep ==
  ASSUME IInv, NEW u \in Store, Consume(u)
  PROVE  IInv' /\ Kept!Use
<1> DEFINE i == shown[u]
           s == [ram[u][i] EXCEPT !.st = "consumed"]
           v == [ram[u] EXCEPT ![i] = s]
           r == [ram EXCEPT ![u] = v]
<1>1. Durable(ram, media, dirty, up, shown) /\ phase = "run" /\ phase' = "run"
  BY RunIsDurable DEF Consume
<1>2. i \in SlotId /\ GoodSlots(ram[u]) /\ Sound(ram[u][i]) /\ ram[u][i].st = "ready"
  BY <1>1, UnitFact DEF Consume, Durable, Records, Offered, Good, GoodSlots
<1>3. /\ shown' \in [Store -> {0} \cup SlotId]
      /\ \A x \in Store : shown'[x] = IF x = u THEN 0 ELSE shown[x]
  BY <1>1 DEF Consume, Durable
<1>4. UNCHANGED <<media, up, fails, scan, wear, sets>>
  BY DEF Consume
<1>5. ASSUME Ready(u) PROVE Durable(ram', media', dirty', up', shown')
  <2>1. ram' = r /\ dirty' = dirty \cup {u} /\ u \in up
    BY <1>5 DEF Consume, Marked, Ready
  <2>2. Sound(s)
    BY <1>2, ConsumedSound
  <2>3. GoodSlots(v)
    BY <1>2, <2>2 DEF GoodSlots, Sound
  <2>4. DOMAIN r = Unit /\ \A x \in Unit : r[x] = IF x = u THEN v ELSE ram[x]
    BY <1>1, UnitFact DEF Durable, Records
  <2> HIDE DEF r, v, s, i
  <2>5. Records(r, media)
    BY <1>1, <2>3, <2>4, UnitFact DEF Durable, Records, Good
  <2>6. Synced(r, media, dirty', up)
    BY <1>1, <2>1, <2>4 DEF Durable, Synced
  <2>7. Offered(r, media, up, shown')
    BY <1>1, <1>3, <2>4, UnitFact DEF Durable, Offered
  <2> QED
    BY <1>1, <1>3, <1>4, <2>1, <2>5, <2>6, <2>7 DEF Durable
<1>6. ASSUME ~ Ready(u) PROVE Durable(ram', media', dirty', up', shown')
  <2>1. UNCHANGED <<ram, dirty>>
    BY <1>6 DEF Consume
  <2>2. Offered(ram, media, up, shown')
    BY <1>1, <1>3 DEF Durable, Offered
  <2> QED
    BY <1>1, <1>3, <1>4, <2>1, <2>2 DEF Durable
<1>7. Durable(ram', media', dirty', up', shown')
  BY <1>5, <1>6
<1>8. IInv'
  BY <1>1, <1>4, <1>7, RunInvariant DEF IInv
<1>9. Kept!Use
  BY <1>1, <1>4, <1>7, KeptUse DEF Durable, Records
<1> QED
  BY <1>8, <1>9

LEMMA SetStep ==
  ASSUME IInv, Set
  PROVE  IInv' /\ Kept!Use
<1>1. Durable(ram, media, dirty, up, shown) /\ phase = "run" /\ phase' = "run"
  BY RunIsDurable DEF Set
<1>2. /\ UNCHANGED <<media, up, fails, scan, wear, shown>>
      /\ ram' = [ram EXCEPT ![Settings] = sets'] /\ dirty' = Marked(dirty, Settings)
  BY DEF Set
<1>3. sets' \in 0 .. MaxSets
  BY ReceivedPartsAssumption DEF Set, IInv
<1>4. DOMAIN ram' = Unit /\ \A u \in Unit : ram'[u] = IF u = Settings THEN sets' ELSE ram[u]
  BY <1>1, <1>2 DEF Durable, Records
<1>5. Records(ram', media)
  BY <1>1, <1>3, <1>4 DEF Durable, Records, Good
<1>6. Synced(ram', media, dirty', up) /\ dirty' \subseteq up
  BY <1>1, <1>2, <1>4 DEF Durable, Synced, Marked, Ready
<1>7. Offered(ram', media, up, shown)
  BY <1>1, <1>4, UnitFact DEF Durable, Offered
<1>8. Durable(ram', media', dirty', up', shown')
  BY <1>1, <1>2, <1>5, <1>6, <1>7 DEF Durable
<1>9. IInv'
  BY <1>1, <1>2, <1>3, <1>8, RunInvariant DEF IInv
<1>10. Kept!Use
  BY <1>1, <1>2, <1>8, KeptUse DEF Durable, Records
<1> QED
  BY <1>9, <1>10

LEMMA TurnFact ==
  ASSUME scan \in Unit, NEW S \in SUBSET Unit, S # {}
  PROVE  Turn(S) \in S
<1> DEFINE k == [u \in Unit |-> (u + Units - scan) % Units]
<1>1. Units = 3 /\ Unit = {0, 1, 2} /\ scan \in 0 .. 2
  BY UnitFact, ReceivedPartsAssumption
<1>2. k[0] \in Nat /\ k[1] \in Nat /\ k[2] \in Nat
  <2>1. \A u \in 0 .. 2 : u + 3 - scan \in Nat
    BY <1>1
  <2> QED
    BY <1>1, <2>1
<1>3. Turn(S) = CHOOSE u \in S : \A v \in S : k[u] <= k[v]
  BY DEF Turn
<1> HIDE DEF k
<1>4. \E u \in S : \A v \in S : k[u] <= k[v]
  <2>1. ASSUME NEW x \in S, NEW y \in S, NEW z \in S, S = {x, y, z}
        PROVE  \E u \in S : \A v \in S : k[u] <= k[v]
    <3>1. k[x] \in Nat /\ k[y] \in Nat /\ k[z] \in Nat
      BY <1>1, <1>2
    <3>2. CASE k[x] <= k[y] /\ k[x] <= k[z]
      BY <2>1, <3>1, <3>2
    <3>3. CASE k[y] <= k[x] /\ k[y] <= k[z]
      BY <2>1, <3>1, <3>3
    <3>4. CASE k[z] <= k[x] /\ k[z] <= k[y]
      BY <2>1, <3>1, <3>4
    <3> QED
      BY <3>1, <3>2, <3>3, <3>4
  <2>2. \E x, y, z \in S : S = {x, y, z}
    <3>1. S \in {{0}, {1}, {2}, {0, 1}, {0, 2}, {1, 2}, {0, 1, 2}}
      BY <1>1
    <3>2. \A x, y, z \in S : S \subseteq {x, y, z} => S = {x, y, z}
      OBVIOUS
    <3> QED
      BY <3>1, <3>2
  <2> QED
    BY <2>1, <2>2
<1> QED
  BY <1>3, <1>4

(* The writes of a flush.                                                  *)
LEMMA FlushedFact ==
  ASSUME IInv, phase \in {"load", "run"}, NEW o, Flushed(o)
  PROVE  /\ Durable(ram', media', dirty', up', shown)
         /\ Books(fails', wear', scan') /\ UNCHANGED <<ram, up, scan>>
         /\ \A u \in Unit : media'[u] = media[u] \/ (media'[u] = ram'[u] /\ media[u] # Damaged)
<1>1. Durable(ram, media, dirty, up, shown) /\ Books(fails, wear, scan)
  BY RunIsDurable DEF IInv
<1>2. o \in [FlushWork -> Outcome] /\ FlushWork \in SUBSET dirty /\ FlushWork \cap Parked(fails) = {}
  BY DEF Flushed, Outcomes, FlushWork, Due
<1>3. /\ media' = Written(ram, o) /\ dirty' = Cleaned(dirty, o)
      /\ fails' = Counted(fails, o) /\ wear' = Worn(wear, o)
      /\ UNCHANGED <<ram, up, scan>>
  BY DEF Flushed
<1>4. /\ Durable(ram, media', Cleaned(dirty, o), up, shown)
      /\ \A u \in Unit : media'[u] = media[u] \/ (media'[u] = ram[u] /\ media[u] # Damaged)
  BY <1>1, <1>2, <1>3, WriteIsDurable
<1>5. scan \in Unit
  BY <1>1 DEF Books
<1>6. Books(Counted(fails, o), Worn(wear, o), scan)
  BY <1>1, <1>2, <1>5, CountedBooks
<1> QED
  BY <1>3, <1>4, <1>6

LEMMA FlushStep ==
  ASSUME IInv, Flush \/ BootFlush, UNCHANGED <<shown, sets>>
  PROVE  IInv' /\ Kept!Use
<1>1. phase \in {"load", "run"} /\ phase' = "run" /\ \E o : Flushed(o)
  BY DEF Flush, BootFlush
<1>2. /\ Durable(ram', media', dirty', up', shown')
      /\ Books(fails', wear', scan') /\ UNCHANGED <<ram, up, scan>>
      /\ \A u \in Unit : media'[u] = media[u] \/ (media'[u] = ram'[u] /\ media[u] # Damaged)
  BY <1>1, FlushedFact
<1>3. IInv'
  BY <1>1, <1>2, RunInvariant DEF IInv
<1>4. Kept!Use
  BY <1>1, <1>2, KeptUse DEF Durable, Records
<1> QED
  BY <1>3, <1>4

(* What expires in the turn of the tone store is as any call of it.        *)
LEMMA ExpiredFact ==
  ASSUME Durable(ram, media, dirty, up, shown), NEW e \in Expired
  PROVE  Durable([ram EXCEPT ![ToneUnit] = e.slots], media, e.dirty, up, shown)
<1>1. PICK old \in Aged(ToneUnit) : e = ToneExpired(Slots(ToneUnit), dirty, old)
  BY DEF Expired
<1>2. ToneUnit \in Store /\ GoodSlots(ram[ToneUnit])
  BY UnitFact DEF Durable, Records, Good, Store
<1>3. Tidy(ToneUnit, ram[ToneUnit], dirty, e)
  BY <1>1, <1>2, ToneExpiredFact DEF Aged, Slots
<1> QED
  BY <1>2, <1>3, CallIsDurable

LEMMA HoldsStep ==
  ASSUME IInv, NEW rearm \in BOOLEAN, StoreHolds(rearm)
  PROVE  IInv' /\ Kept!Use
<1>1. /\ Durable(ram, media, dirty, up, shown) /\ phase = "run" /\ phase' = "run"
      /\ Books(fails, wear, scan)
  BY RunIsDurable DEF StoreHolds, Ticking, IInv
<1>2. PICK e \in Expired : TickHolds([ram EXCEPT ![ToneUnit] = e.slots], e.dirty, rearm)
  BY DEF StoreHolds
<1>3. /\ ram' = [ram EXCEPT ![ToneUnit] = e.slots] /\ dirty' = e.dirty
      /\ fails' = FailsAt(e.dirty, rearm) /\ wear' = WearAt(e.dirty, rearm)
      /\ UNCHANGED <<media, scan>>
  BY <1>2 DEF TickHolds
<1>4. UNCHANGED <<up, shown, sets>>
  BY DEF StoreHolds, Ticking
<1>5. Durable(ram', media', dirty', up', shown')
  BY <1>1, <1>3, <1>4, ExpiredFact
<1>6. Books(fails', wear', scan')
  BY <1>1, <1>3, RearmedBooks
<1>7. IInv'
  BY <1>1, <1>4, <1>5, <1>6, RunInvariant DEF IInv
<1>8. Kept!Use
  BY <1>1, <1>3, <1>5, KeptUse DEF Durable, Records
<1> QED
  BY <1>7, <1>8

LEMMA WritesStep ==
  ASSUME IInv, NEW rearm \in BOOLEAN, StoreWrites(rearm)
  PROVE  IInv' /\ Kept!Use
<1>1. /\ Durable(ram, media, dirty, up, shown) /\ phase = "run" /\ phase' = "run"
      /\ Books(fails, wear, scan)
  BY RunIsDurable DEF StoreWrites, Ticking, IInv
<1>2. PICK e \in Expired : TickWrites([ram EXCEPT ![ToneUnit] = e.slots], e.dirty, rearm)
  BY DEF StoreWrites
<1> DEFINE r == [ram EXCEPT ![ToneUnit] = e.slots]
           f == FailsAt(e.dirty, rearm)
           w == WearAt(e.dirty, rearm)
           u == Turn(Due(e.dirty, f))
<1>3. /\ Due(e.dirty, f) # {} /\ ram' = r
      /\ \E o \in Outcomes({u}) :
             /\ media' = Written(r, o) /\ dirty' = Cleaned(e.dirty, o)
             /\ fails' = Counted(f, o) /\ wear' = Worn(w, o)
             /\ scan' = (u + 1) % Units
  BY <1>2 DEF TickWrites
<1>4. PICK o \in Outcomes({u}) :
             /\ media' = Written(r, o) /\ dirty' = Cleaned(e.dirty, o)
             /\ fails' = Counted(f, o) /\ wear' = Worn(w, o)
             /\ scan' = (u + 1) % Units
  BY <1>3
<1>5. Durable(r, media, e.dirty, up, shown)
  BY <1>1, ExpiredFact
<1>6. Books(f, w, scan)
  BY <1>1, RearmedBooks
<1>7. u \in Due(e.dirty, f) /\ u \in Unit
  <2>1. Due(e.dirty, f) \in SUBSET Unit /\ scan \in Unit
    BY <1>5, <1>6 DEF Due, Durable, Books
  <2> QED
    BY <1>3, <2>1, TurnFact
<1>8. UNCHANGED <<up, shown, sets>>
  BY DEF StoreWrites, Ticking
<1> HIDE DEF r, f, w, u
<1>9. o \in [{u} -> Outcome] /\ {u} \in SUBSET e.dirty /\ {u} \cap Parked(f) = {}
  BY <1>7 DEF Outcomes, Due
<1>10. /\ Durable(r, media', Cleaned(e.dirty, o), up, shown)
       /\ \A x \in Unit : media'[x] = media[x] \/ (media'[x] = r[x] /\ media[x] # Damaged)
  <2>1. media' = Written(r, o)
    BY <1>4
  <2> QED
    BY <1>5, <1>9, <2>1, WriteIsDurable, SMTT(30)
<1>11. Durable(ram', media', dirty', up', shown')
  BY <1>3, <1>4, <1>8, <1>10
<1>12. Books(fails', wear', scan')
  <2>1. scan' \in Unit
    BY <1>4, <1>7, ReceivedPartsAssumption DEF Unit
  <2>2. Books(f, w, scan')
    BY <1>6, <2>1 DEF Books
  <2>3. Books(Counted(f, o), Worn(w, o), scan')
    BY <1>9, <2>1, <2>2, CountedBooks
  <2> QED
    BY <1>4, <2>3
<1>13. IInv'
  BY <1>1, <1>8, <1>11, <1>12, RunInvariant DEF IInv
<1>14. Kept!Use
  BY <1>1, <1>3, <1>10, <1>11, KeptUse DEF Durable, Records
<1> QED
  BY <1>13, <1>14

LEMMA SleepStep ==
  ASSUME IInv, Sleep, sets' = sets, shown' = Nothing
  PROVE  IInv' /\ Kept!Off
<1>1. phase = "run" /\ phase' = "off"
  BY DEF Sleep
<1>2. PICK o : Flushed(o) /\ MaySleep(o)
  BY DEF Sleep
<1>3. /\ Durable(ram', media', dirty', up', shown) /\ Books(fails', wear', scan')
      /\ UNCHANGED <<ram, up, scan>>
      /\ \A u \in Unit : media'[u] = media[u] \/ (media'[u] = ram'[u] /\ media[u] # Damaged)
  BY <1>1, <1>2, FlushedFact
<1>4. /\ o \in [FlushWork -> Outcome] /\ \A u \in FlushWork : o[u] = "ok"
      /\ media' = Written(ram, o) /\ fails' = Counted(fails, o)
  BY <1>2 DEF Flushed, Outcomes, MaySleep, Clean
<1>5. /\ \A u \in Unit : media'[u] = IF u \in FlushWork THEN ram[u] ELSE media[u]
      /\ \A u \in Unit : fails'[u] = IF u \in FlushWork THEN 0 ELSE fails[u]
  BY <1>4 DEF Written, Counted, Hit, Busy
<1>6. IInv'
  BY <1>1, <1>3, RunIsDurable DEF IInv, Durable
<1>7. FlushWork = {u \in dirty : ~ (u \in Unit /\ fails[u] >= FailLimit)}
  BY DEF FlushWork, Due, Parked
<1>8. Parked(fails') = Parked(fails)
  <2>1. \A u \in Unit : (fails'[u] >= FailLimit) <=> (fails[u] >= FailLimit)
    BY <1>5, <1>7, StoreCommitAssumption
  <2> QED
    BY <2>1 DEF Parked
<1>9. \A u \in Unit \ (Parked(fails) \cup (Unit \ up)) : media'[u] = ram[u]
  BY <1>1, <1>5, <1>7, RunIsDurable DEF Durable, Synced, Parked
<1> QED
  BY <1>1, <1>3, <1>6, <1>8, <1>9 DEF Kept!Off, Kept!Saves

LEMMA CutStep ==
  ASSUME IInv, PowerCut, sets' = sets, shown' = Nothing
  PROVE  IInv' /\ Kept!Cut
<1>1. /\ phase \in {"load", "run"} /\ phase' = "cut"
      /\ UNCHANGED <<ram, up, dirty, fails, scan, wear>>
  BY DEF PowerCut
<1>2. PICK k \in 0 .. Units :
         media' = [u \in Unit |-> IF u < k /\ u \in FlushWork THEN ram[u] ELSE media[u]]
  BY DEF PowerCut
<1>3. Durable(ram, media, dirty, up, shown)
  BY <1>1, RunIsDurable
<1>4. \A u \in FlushWork : media[u] # Damaged
  BY <1>3 DEF FlushWork, Due, Durable, Synced
<1>5. /\ DOMAIN media' = Unit
      /\ \A u \in Unit : media'[u] = media[u] \/ (media'[u] = ram[u] /\ media[u] # Damaged)
  BY <1>2, <1>4
<1>6. Records(ram, media')
  BY <1>3, <1>5 DEF Durable, Records
<1>7. IInv'
  BY <1>1, <1>3, <1>6 DEF IInv, Durable
<1> QED
  BY <1>1, <1>5, <1>7 DEF Kept!Cut, Kept!Saves

LEMMA BootStep ==
  ASSUME IInv, Boot, sets' = sets, shown' = shown
  PROVE  IInv' /\ Kept!On
<1>1. /\ phase \in {"off", "cut"} /\ phase' = "load" /\ up' = {u \in Unit : media[u] # Damaged}
      /\ fails' = [u \in Unit |-> 0] /\ wear' = [u \in Unit |-> 0] /\ scan' = 0
      /\ ram' = [u \in Unit |-> IF media[u] \in {Missing, Damaged} THEN Factory[u] ELSE media[u]]
  BY DEF Boot, Loaded
<1> DEFINE W == {u \in Unit : media[u] = Missing}
<1>2. PICK o \in Outcomes(W) : media' = Written(Factory, o) /\ dirty' = {u \in DOMAIN o : o[u] # "ok"}
  BY DEF Boot
<1>3. o \in [W -> Outcome]
  BY DEF Outcomes
<1>4. /\ DOMAIN media' = Unit
      /\ \A u \in Unit : media'[u] = IF u \in W /\ o[u] \in Hit THEN Factory[u] ELSE media[u]
      /\ dirty' = {u \in W : o[u] # "ok"}
  BY <1>2, <1>3 DEF Written
<1>5. Records(ram', media')
  BY <1>1, <1>4, FactoryGood DEF IInv, Records
<1>6. dirty' \subseteq up' /\ up' \subseteq Unit
  BY <1>1, <1>4, StoreCommitAssumption
<1>7. Synced(ram', media', dirty', up')
  BY <1>1, <1>4, StoreCommitAssumption DEF Synced, Hit
<1>8. shown' = Nothing /\ Nothing \in [Store -> {0} \cup SlotId]
  BY <1>1 DEF IInv, Nothing
<1>9. Offered(ram', media', up', shown')
  BY <1>8 DEF Offered, Nothing
<1>10. Books(fails', wear', scan')
  BY <1>1, UnitFact, StoreCommitAssumption DEF Books
<1>11. IInv'
  BY <1>1, <1>5, <1>6, <1>7, <1>8, <1>9, <1>10 DEF IInv, Durable
<1> QED
  BY <1>1, <1>4, <1>11 DEF Kept!On

LEMMA StutterStep ==
  ASSUME IInv, UNCHANGED vars
  PROVE  IInv'
<1>1. UNCHANGED <<ram, media, up, dirty, fails, scan, phase, wear, shown, sets>>
  BY DEF vars, store
<1> QED
  BY <1>1 DEF IInv

LEMMA NextStep ==
  ASSUME IInv, [Next]_vars
  PROVE  IInv' /\ [Kept!Next]_(Kept!vars)
<1>1. CASE UNCHANGED vars
  BY <1>1, StutterStep DEF vars, store, Kept!vars
<1>2. ASSUME NEW f \in Part, Receive(f) PROVE IInv' /\ Kept!Use
  BY <1>2, ReceiveStep
<1>3. ASSUME NEW u \in Store, Show(u) PROVE IInv' /\ UNCHANGED Kept!vars
  BY <1>3, ShowStep DEF store, Kept!vars
<1>4. ASSUME NEW u \in Store, Consume(u) PROVE IInv' /\ Kept!Use
  BY <1>4, ConsumeStep
<1>5. ASSUME Set PROVE IInv' /\ Kept!Use
  BY <1>5, SetStep
<1>6. ASSUME NEW rearm \in BOOLEAN, StoreHolds(rearm) \/ StoreWrites(rearm)
      PROVE  IInv' /\ Kept!Use
  BY <1>6, HoldsStep, WritesStep
<1>7. ASSUME (Flush /\ UNCHANGED <<shown, arrivals, sets>>) \/ Starts PROVE IInv' /\ Kept!Use
  BY <1>7, FlushStep DEF Starts
<1>8. ASSUME Boot, UNCHANGED <<shown, arrivals, sets>> PROVE IInv' /\ Kept!On
  BY <1>8, BootStep
<1>9. ASSUME Sleep, sets' = sets, shown' = [u \in Store |-> 0] PROVE IInv' /\ Kept!Off
  BY <1>9, SleepStep DEF Nothing
<1>10. ASSUME PowerCut, sets' = sets, shown' = [u \in Store |-> 0] PROVE IInv' /\ Kept!Cut
  BY <1>10, CutStep DEF Nothing
<1> QED
  BY <1>1, <1>2, <1>3, <1>4, <1>5, <1>6, <1>7, <1>8, <1>9, <1>10 DEF Next, Kept!Next

-----------------------------------------------------------------------------
(* The theorems.                                                           *)
LEMMA InitInvariant ==
  ASSUME Init
  PROVE  IInv
<1>1. /\ ram = Factory /\ up = {} /\ dirty = {} /\ scan = 0 /\ phase = "off" /\ sets = 0
      /\ fails = [u \in Unit |-> 0] /\ wear = [u \in Unit |-> 0] /\ shown = Nothing
  BY DEF Init, StoreInit, Nothing
<1>2. DOMAIN media = Unit /\ \A u \in Unit : media[u] \in {Missing, Damaged, Factory[u]}
  BY DEF Init, StoreInit
<1>3. Records(ram, media)
  BY <1>1, <1>2, FactoryGood, StoreCommitAssumption DEF Records
<1>4. Books(fails, wear, scan)
  BY <1>1, UnitFact, StoreCommitAssumption DEF Books
<1>5. sets \in 0 .. MaxSets
  BY <1>1, ReceivedPartsAssumption
<1> QED
  BY <1>1, <1>3, <1>4, <1>5 DEF IInv

LEMMA InvariantHolds == Spec => []IInv
<1>1. Init => IInv
  BY InitInvariant
<1>2. IInv /\ [Next]_vars => IInv'
  BY NextStep
<1> QED
  BY <1>1, <1>2, PTL DEF Spec

LEMMA InvariantTypes ==
  ASSUME IInv
  PROVE  TypeOK
<1>1. \A u \in Store, i \in SlotId : ram[u][i] \in SlotType /\ Applies(ram[u][i])
  BY UnitFact DEF IInv, Records, Good, GoodSlots, Sound
<1>2. ram[Settings] \in 0 .. MaxSets
  BY UnitFact DEF IInv, Records, Good
<1>3. shown \in [Store -> {0} \cup SlotId]
  BY DEF IInv, Durable, Nothing
<1>4. /\ scan \in Unit /\ fails \in [Unit -> 0 .. FailLimit] /\ dirty \subseteq up /\ up \subseteq Unit
      /\ phase \in {"load", "run", "off", "cut"}
  BY DEF IInv, Books
<1> QED
  BY <1>1, <1>2, <1>3, <1>4 DEF TypeOK

(* The modem's copy of a part is deleted, and a melody or picture offered, *)
(* only when the medium has it: of a part that the store reports as        *)
(* committed, its unit is not dirty, and what is not dirty is on the       *)
(* medium, whatever failed before.                                         *)
THEOREM ReportsAreDurable == Spec => []ProofIsDurable
<1>1. ASSUME IInv PROVE ProofIsDurable
  <2>1. TypeOK
    BY <1>1, InvariantTypes
  <2>2. ASSUME phase = "run", NEW f \in Part, Proof(f), Pictures \in up
        PROVE  OnMedia(StoreOf(f), f)
    <3> DEFINE u == StoreOf(f)
    <3>1. Durable(ram, media, dirty, up, shown)
      BY <1>1, <2>2, RunIsDurable
    <3>2. u \in Store /\ u \in up /\ u \notin dirty
      BY <2>2, UnitFact DEF Proof, CommitStatus, StoreOf, Ready, Store
    <3>3. media[u] = ram[u] /\ media[u] \notin {Missing, Damaged}
      BY <3>1, <3>2, GoodIsRecord DEF Durable, Records, Synced
    <3>4. \E i \in SlotId : f \in ram[u][i].parts
      BY <2>2 DEF Proof, Slots
    <3> QED
      BY <3>3, <3>4 DEF OnMedia
  <2>3. ASSUME phase = "run", NEW u \in Store \cap up, shown[u] # 0
        PROVE  media[u][shown[u]].st = "ready"
    BY <1>1, <2>3, RunIsDurable DEF Durable, Offered
  <2> QED
    BY <2>1, <2>2, <2>3 DEF ProofIsDurable
<1> QED
  BY <1>1, InvariantHolds, PTL

(* A medium that refuses its record is tried no more often than the limit  *)
(* says, and a unit is given up for refusals of its medium only: the       *)
(* engine's count is the medium's own, with re-arms, resets and writes     *)
(* that core 1 held up.                                                    *)
THEOREM MediumIsSpared == Spec => []Endurance
<1>1. ASSUME IInv PROVE Endurance
  <2> SUFFICES ASSUME NEW u \in Unit
               PROVE  wear[u] <= FailLimit /\ (u \in Parked(fails) => wear[u] = FailLimit)
    BY DEF Endurance
  <2>1. fails[u] \in 0 .. FailLimit /\ wear[u] = fails[u]
    BY <1>1 DEF IInv, Books
  <2> QED
    BY <2>1, StoreCommitAssumption DEF Parked
<1> QED
  BY <1>1, InvariantHolds, PTL

(* The stores and the engine under them implement PersistentRecords: the   *)
(* durable value of a record is only ever replaced by the one in use, a    *)
(* damaged one never, and an orderly power-off loses nothing but what a    *)
(* failed medium has refused.                                              *)
THEOREM StoresKeepRecords == Spec => KeepsRecords
<1>1. Init => Kept!Init
  BY UnitFact, FS_EmptySet DEF Init, StoreInit, Kept!Init, Parked
<1>2. IInv /\ [Next]_vars => [Kept!Next]_(Kept!vars)
  BY NextStep
<1> QED
  BY <1>1, <1>2, InvariantHolds, PTL DEF Spec, KeepsRecords, Kept!Spec
=============================================================================
