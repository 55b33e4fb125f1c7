------------------------- MODULE CallService_proofs -------------------------
(***************************************************************************)
(* What holds of the call table and of the service around it for every set *)
(* of ids, every number of slots, every queue and every set of faults.     *)
(***************************************************************************)
EXTENDS CallInvariant, FiniteSetTheorems, WellFoundedInduction, TLAPS

----------------------------------------------------------------------------
(* Induction over sets.                                                    *)

(* A set of numbers that has 0, and n + 1 whenever it has n, has them all. *)
LEMMA NatSetInduction ==
    ASSUME NEW F, 0 \in F, \A n \in Nat : n \in F => n + 1 \in F
    PROVE  \A n \in Nat : n \in F
<1> DEFINE Bad == {n \in Nat : n \notin F}
           R == OpToRel(<, Nat)
<1>1. SUFFICES ASSUME Bad # {} PROVE FALSE  OBVIOUS
<1>2. \A x, y \in Nat : y < x => <<y, x>> \in R BY DEF OpToRel
<1>3. PICK x \in Bad : \A y \in Bad : <<y, x>> \notin R
  <2>1. IsWellFoundedOn(R, Nat) BY NatLessThanWellFounded
  <2>2. Bad \subseteq Nat OBVIOUS
  <2> HIDE DEF R, Bad
  <2> QED BY <2>1, <2>2, <1>1, WFMin
<1>4. x # 0 /\ x \in Nat OBVIOUS
<1>5. x - 1 \in Nat /\ x - 1 < x BY <1>4
<1>6. x - 1 \notin Bad BY <1>5, <1>3, <1>2, <1>4
<1> QED BY <1>4, <1>5, <1>6

(* A non-empty set of numbers has a least one; a bounded one a greatest.   *)
LEMMA LeastNat ==
    ASSUME NEW S \in SUBSET Nat, S # {}
    PROVE  Min(S) \in S /\ \A y \in S : Min(S) <= y
<1> DEFINE R == OpToRel(<, Nat)
<1>1. \A x, y \in Nat : y < x => <<y, x>> \in R BY DEF OpToRel
<1>2. PICK x \in S : \A y \in S : <<y, x>> \notin R
  <2>1. IsWellFoundedOn(R, Nat) BY NatLessThanWellFounded
  <2> HIDE DEF R
  <2> QED BY <2>1, WFMin
<1>3. \A y \in S : x <= y
  <2> HIDE DEF R
  <2> TAKE y \in S
  <2>1. x \in Nat /\ y \in Nat OBVIOUS
  <2>2. ~(y < x) BY <1>1, <1>2, <2>1
  <2> QED BY <2>1, <2>2
<1> QED BY <1>3 DEF Min

LEMMA GreatestNat ==
    ASSUME NEW S \in SUBSET Nat, S # {}, NEW n \in Nat, \A x \in S : x <= n
    PROVE  Max(S) \in S /\ \A y \in S : Max(S) >= y
<1> DEFINE T == {n - x : x \in S}
<1>0. \A x \in S : x \in Nat /\ n - x \in Nat OBVIOUS
<1>1. T \in SUBSET Nat /\ T # {} BY <1>0
<1>2. PICK t \in T : \A y \in T : t <= y
  <2> HIDE DEF T
  <2> QED BY <1>1, LeastNat
<1>3. PICK x \in S : t = n - x OBVIOUS
<1>4. \A y \in S : n - x <= n - y BY <1>2, <1>3
<1>5. \A y \in S : x >= y BY <1>4, <1>0
<1> QED BY <1>5 DEF Max

----------------------------------------------------------------------------
(* Folds.  One step of each pass that CallModel makes, by the name of the  *)
(* pass, and the passes themselves as functions of the part already done.  *)

Do(c, x, v) ==
    CASE c.pass = "merge"   -> MergeRow(v, x, c.rows[x])
      [] c.pass = "evict"   -> Evict(v, x)
      [] c.pass = "late" -> GiveUp(v, x)
      [] c.pass = "cancel"  -> CancelTxn(v, x)
      [] c.pass = "dials"   -> BindDial(v, x)
      [] c.pass = "tombs"   -> BindTombstone(v, x)

Ascending     == {"dials", "tombs"}
Pick(c, S)    == IF c.pass \in Ascending THEN Max(S) ELSE CHOOSE x \in S : TRUE
Picks(c, S)   == \A s \in SUBSET S : s # {} => Pick(c, s) \in s
Step(c, base, f, s) == IF s = {} THEN base ELSE Do(c, Pick(c, s), f[s \ {Pick(c, s)}])
IsFold(c, base, S, f) == f = [s \in SUBSET S |-> Step(c, base, f, s)]

(* The recursion of a fold over a finite set has a solution.               *)
LEMMA FoldExists ==
    ASSUME NEW c, NEW base, NEW S, IsFiniteSet(S), Picks(c, S)
    PROVE  \E f : IsFold(c, base, S, f)
<1> DEFINE Upto(n) == {s \in SUBSET S : Cardinality(s) <= n}
           Some(n) == \E f : f = [s \in Upto(n) |-> Step(c, base, f, s)]
           F == {n \in Nat : Some(n)}
<1>1. \A s \in SUBSET S : IsFiniteSet(s) /\ Cardinality(s) \in Nat /\ Cardinality(s) <= Cardinality(S)
  BY FS_Subset, FS_CardinalityType
<1>2. Cardinality(S) \in Nat BY FS_CardinalityType
<1>3. 0 \in F
  <2> DEFINE f == [s \in Upto(0) |-> base]
  <2>1. \A s \in Upto(0) : s = {} BY <1>1, FS_EmptySet
  <2>2. f = [s \in Upto(0) |-> Step(c, base, f, s)]
    <3>1. \A s \in Upto(0) : Step(c, base, f, s) = base BY <2>1 DEF Step
    <3> HIDE DEF Upto
    <3> QED BY <3>1
  <2> QED BY <2>2
<1>4. ASSUME NEW n \in Nat, n \in F  PROVE n + 1 \in F
  <2>1. PICK f : f = [s \in Upto(n) |-> Step(c, base, f, s)] BY <1>4
  <2> DEFINE g == [s \in Upto(n + 1) |-> Step(c, base, f, s)]
  <2>2. ASSUME NEW s \in Upto(n + 1)  PROVE Step(c, base, f, s) = Step(c, base, g, s)
    <3>1. CASE s = {} BY <3>1 DEF Step
    <3>2. CASE s # {}
      <4> DEFINE t == s \ {Pick(c, s)}
      <4>1. Pick(c, s) \in s BY <3>2 DEF Picks
      <4>2. t \in SUBSET S /\ Cardinality(t) = Cardinality(s) - 1 BY <4>1, <1>1, FS_RemoveElement
      <4>3. t \in Upto(n) /\ t \in Upto(n + 1) BY <4>2, <1>1
      <4>4. f[t] = Step(c, base, f, t)
        <5> HIDE DEF Upto, t
        <5> QED BY <2>1, <4>3
      <4>5. g[t] = Step(c, base, f, t)
        <5> HIDE DEF Upto, t
        <5> QED BY <4>3
      <4> QED BY <3>2, <4>4, <4>5 DEF Step
    <3> QED BY <3>1, <3>2
  <2>3. g = [s \in Upto(n + 1) |-> Step(c, base, g, s)]
    <3> HIDE DEF Upto
    <3> QED BY <2>2
  <2>4. \E h : h = [s \in Upto(n + 1) |-> Step(c, base, h, s)]
    <3> WITNESS g
    <3> QED BY <2>3
  <2>5. Some(n + 1) BY <2>4
  <2> HIDE DEF Some
  <2> QED BY <2>5
<1>5. Cardinality(S) \in F
  <2> HIDE DEF F
  <2> QED BY <1>2, <1>3, <1>4, NatSetInduction
<1>6. Upto(Cardinality(S)) = SUBSET S BY <1>1
<1>7. Some(Cardinality(S)) BY <1>5
<1>8. PICK f : f = [s \in Upto(Cardinality(S)) |-> Step(c, base, f, s)] BY <1>7
<1> HIDE DEF Upto
<1> QED BY <1>6, <1>8 DEF IsFold

(* What holds of the base and is kept by each step holds of the result.    *)
(* Q relates a value to the set of the elements done so far.               *)
LEMMA FoldInduction ==
    ASSUME NEW c, NEW base, NEW S, IsFiniteSet(S), Picks(c, S), NEW f, IsFold(c, base, S, f),
           NEW Q, <<base, {}>> \in Q,
           \A s \in SUBSET S : \A x \in s : \A v : <<v, s \ {x}>> \in Q => <<Do(c, x, v), s>> \in Q
    PROVE  <<f[S], S>> \in Q
<1> DEFINE F == {n \in Nat : \A s \in SUBSET S : Cardinality(s) = n => <<f[s], s>> \in Q}
<1>1. \A s \in SUBSET S : IsFiniteSet(s) /\ Cardinality(s) \in Nat
  BY FS_Subset, FS_CardinalityType
<1>2. \A s \in SUBSET S : f[s] = Step(c, base, f, s) BY DEF IsFold
<1>3. 0 \in F
  <2>1. \A s \in SUBSET S : Cardinality(s) = 0 => s = {} BY <1>1, FS_EmptySet
  <2>2. f[{}] = base BY <1>2 DEF Step
  <2>3. \A s \in SUBSET S : Cardinality(s) = 0 => <<f[s], s>> \in Q BY <2>1, <2>2
  <2> QED BY <2>3
<1>4. ASSUME NEW n \in Nat, n \in F  PROVE n + 1 \in F
  <2>1. ASSUME NEW s \in SUBSET S, Cardinality(s) = n + 1  PROVE <<f[s], s>> \in Q
    <3> DEFINE x == Pick(c, s)
               t == s \ {x}
    <3>1. s # {} BY <2>1, FS_EmptySet
    <3>2. x \in s BY <3>1 DEF Picks
    <3>3. t \in SUBSET S /\ Cardinality(t) = n BY <3>2, <2>1, <1>1, FS_RemoveElement
    <3>4. <<f[t], t>> \in Q BY <3>3, <1>4
    <3>5. f[s] = Do(c, x, f[t]) BY <3>1, <1>2 DEF Step
    <3> HIDE DEF x
    <3> QED BY <3>2, <3>4, <3>5
  <2> QED BY <2>1
<1>5. Cardinality(S) \in Nat BY FS_CardinalityType
<1>6. Cardinality(S) \in F
  <2> HIDE DEF F
  <2> QED BY <1>3, <1>4, <1>5, NatSetInduction
<1> QED BY <1>6

(* The passes of CallModel are such folds.                                 *)
LEMMA PickInOrder ==
    ASSUME NEW c, c.pass \in Ascending, NEW S \in SUBSET Slot
    PROVE  IsFiniteSet(S) /\ Picks(c, S)
<1>1. IsFiniteSet(Slot) BY CallModelAssumption, FS_Interval DEF Slot
<1>2. IsFiniteSet(S) BY <1>1, FS_Subset
<1>3. ASSUME NEW s \in SUBSET S, s # {}  PROVE Max(s) \in s
  <2>1. s \in SUBSET Nat /\ \A x \in s : x <= LastSlot BY CallModelAssumption DEF Slot
  <2> QED BY <2>1, <1>3, GreatestNat, CallModelAssumption
<1> QED BY <1>2, <1>3 DEF Picks, Pick

LEMMA PickAny ==
    ASSUME NEW c, c.pass \notin Ascending, NEW S
    PROVE  Picks(c, S)
<1>1. ASSUME NEW s \in SUBSET S, s # {}  PROVE (CHOOSE x \in s : TRUE) \in s BY <1>1
<1> QED BY <1>1 DEF Picks, Pick

Tombs(v) == {s \in Slot : v.txns[s].tomb}

LEMMA DialsFold ==
    ASSUME NEW v
    PROVE  \E f : IsFold([pass |-> "dials"], v, Dials(v), f) /\ BindDials(v) = f[Dials(v)]
<1> DEFINE c == [pass |-> "dials"]
           Fn(f) == f = [s \in SUBSET Dials(v) |->
                           IF s = {} THEN v ELSE BindDial(f[s \ {Max(s)}], Max(s))]
<1>1. BindDials(v) = (CHOOSE f : Fn(f))[Dials(v)]
  BY DEF BindDials, InOrder, MapThenFoldSet, Dials
<1>2. c.pass = "dials" /\ c.pass \in Ascending BY DEF Ascending
<1>3. \A f, s : Step(c, v, f, s) = IF s = {} THEN v ELSE BindDial(f[s \ {Max(s)}], Max(s))
  BY <1>2 DEF Step, Do, Pick
<1>4. \A f : IsFold(c, v, Dials(v), f) <=> Fn(f) BY <1>3 DEF IsFold
<1>5. Dials(v) \in SUBSET Slot BY DEF Dials
<1>6. \E f : IsFold(c, v, Dials(v), f)
  <2> HIDE DEF c
  <2> QED BY <1>2, <1>5, PickInOrder, FoldExists
<1>7. \E f : Fn(f) BY <1>4, <1>6
<1>8. Fn(CHOOSE f : Fn(f))
  <2> HIDE DEF Fn
  <2> QED BY <1>7
<1> HIDE DEF Fn
<1> QED BY <1>1, <1>4, <1>8

LEMMA TombsFold ==
    ASSUME NEW v
    PROVE  \E f : IsFold([pass |-> "tombs"], v, Tombs(v), f) /\ BindTombstones(v) = f[Tombs(v)]
<1> DEFINE c == [pass |-> "tombs"]
           Fn(f) == f = [s \in SUBSET Tombs(v) |->
                           IF s = {} THEN v ELSE BindTombstone(f[s \ {Max(s)}], Max(s))]
<1>1. BindTombstones(v) = (CHOOSE f : Fn(f))[Tombs(v)]
  BY DEF BindTombstones, InOrder, MapThenFoldSet, Tombs
<1>2. c.pass = "tombs" /\ c.pass \in Ascending BY DEF Ascending
<1>3. \A f, s : Step(c, v, f, s) = IF s = {} THEN v ELSE BindTombstone(f[s \ {Max(s)}], Max(s))
  BY <1>2 DEF Step, Do, Pick
<1>4. \A f : IsFold(c, v, Tombs(v), f) <=> Fn(f) BY <1>3 DEF IsFold
<1>5. Tombs(v) \in SUBSET Slot BY DEF Tombs
<1>6. \E f : IsFold(c, v, Tombs(v), f)
  <2> HIDE DEF c
  <2> QED BY <1>2, <1>5, PickInOrder, FoldExists
<1>7. \E f : Fn(f) BY <1>4, <1>6
<1>8. Fn(CHOOSE f : Fn(f))
  <2> HIDE DEF Fn
  <2> QED BY <1>7
<1> HIDE DEF Fn
<1> QED BY <1>1, <1>4, <1>8

First(s) == CHOOSE x \in s : TRUE

Merged(v, rows, ids) == FoldSet(LAMBDA id, mm : MergeRow(mm, id, rows[id]), v, ids)

LEMMA MergeFold ==
    ASSUME NEW v, NEW rows, NEW S, IsFiniteSet(S)
    PROVE  \E f : /\ IsFold([pass |-> "merge", rows |-> rows], v, S, f)
                  /\ Merged(v, rows, S) = f[S]
<1> DEFINE c == [pass |-> "merge", rows |-> rows]
           Fn(f) == f = [s \in SUBSET S |->
                           IF s = {} THEN v
                           ELSE MergeRow(f[s \ {First(s)}], First(s), rows[First(s)])]
<1>1. Merged(v, rows, S) = (CHOOSE f : Fn(f))[S]
  BY DEF Merged, FoldSet, MapThenFoldSet, First
<1>2. c.pass = "merge" /\ c.pass \notin Ascending /\ c.rows = rows BY DEF Ascending
<1>3. \A f, s : Step(c, v, f, s) = IF s = {} THEN v
                                   ELSE MergeRow(f[s \ {First(s)}], First(s), rows[First(s)])
  BY <1>2 DEF Step, Do, Pick, First
<1>4. \A f : IsFold(c, v, S, f) <=> Fn(f) BY <1>3 DEF IsFold
<1>6. \E f : IsFold(c, v, S, f)
  <2> HIDE DEF c
  <2> QED BY <1>2, PickAny, FoldExists
<1>7. \E f : Fn(f) BY <1>4, <1>6
<1>8. Fn(CHOOSE f : Fn(f))
  <2> HIDE DEF Fn
  <2> QED BY <1>7
<1> HIDE DEF Fn
<1> QED BY <1>1, <1>4, <1>8

LEMMA EvictFold ==
    ASSUME NEW v, NEW S, IsFiniteSet(S)
    PROVE  \E f : IsFold([pass |-> "evict"], v, S, f) /\ EvictAll(v, S) = f[S]
<1> DEFINE c == [pass |-> "evict"]
           Fn(f) == f = [s \in SUBSET S |->
                           IF s = {} THEN v ELSE Evict(f[s \ {First(s)}], First(s))]
<1>1. EvictAll(v, S) = (CHOOSE f : Fn(f))[S]
  BY DEF EvictAll, FoldSet, MapThenFoldSet, First
<1>2. c.pass = "evict" /\ c.pass \notin Ascending BY DEF Ascending
<1>3. \A f, s : Step(c, v, f, s) = IF s = {} THEN v ELSE Evict(f[s \ {First(s)}], First(s))
  BY <1>2 DEF Step, Do, Pick, First
<1>4. \A f : IsFold(c, v, S, f) <=> Fn(f) BY <1>3 DEF IsFold
<1>6. \E f : IsFold(c, v, S, f)
  <2> HIDE DEF c
  <2> QED BY <1>2, PickAny, FoldExists
<1>7. \E f : Fn(f) BY <1>4, <1>6
<1>8. Fn(CHOOSE f : Fn(f))
  <2> HIDE DEF Fn
  <2> QED BY <1>7
<1> HIDE DEF Fn
<1> QED BY <1>1, <1>4, <1>8

----------------------------------------------------------------------------
(* The operators of the table, one by one: each gives a table again, and   *)
(* none but a listing or the end of a limbo adds or removes a leg.         *)

KeptLeg(a, b) ==
    /\ b.slot = a.slot  /\ b.call = a.call
    /\ b.state = "FREE" <=> a.state = "FREE"
    /\ a.state = "RELEASING" => b.state = "RELEASING"

Keeps(v, w) ==
    /\ w.gen = v.gen  /\ w.absent = v.absent
    /\ \A id \in Id : KeptLeg(v.legs[id], w.legs[id])

LEMMA KeepsItself == \A v : Keeps(v, v)  BY DEF Keeps, KeptLeg

LEMMA KeepsTransitive ==
    ASSUME NEW u, NEW v, NEW w, Keeps(u, v), Keeps(v, w)
    PROVE  Keeps(u, w)
BY DEF Keeps, KeptLeg

LEMMA References ==
    ASSUME NEW v \in Model, NEW id \in Id
    PROVE  Ref(v, id) \in Refs /\ Ref(v, id) # NoRef
BY CallModelAssumption DEF Ref, Refs, Model, NoRef

LEMMA Constants ==
    /\ NoRef \in Refs
    /\ NoLeg \in Leg
    /\ NoTxn \in Txn
    /\ NoMt \in [active : BOOLEAN, gen : Nat, leg : Refs, missed : 0..1]
    /\ Idle \in Shown
<1>1. NoRef \in Refs BY DEF NoRef, Refs
<1>2. Cardinality(Id) \in Nat BY CallModelAssumption, FS_CardinalityType
<1>3. NoLeg \in Leg BY <1>2 DEF NoLeg, Leg, OnAir, Dirs
<1>4. NoTxn \in Txn BY <1>1 DEF NoTxn, Txn, Ops
<1>5. NoMt \in [active : BOOLEAN, gen : Nat, leg : Refs, missed : 0..1] BY <1>1 DEF NoMt
<1>6. Idle \in Shown BY DEF Idle, Shown
<1> QED BY <1>1, <1>3, <1>4, <1>5, <1>6

LEMMA OneIsSome == \A S : Cardinality(S) = 1 => S # {}  BY FS_EmptySet

LEMMA TxnsReplaced ==
    ASSUME NEW v \in Model, NEW ts \in [Slot -> Txn]
    PROVE  /\ [v EXCEPT !.txns = ts] \in Model
           /\ Keeps(v, [v EXCEPT !.txns = ts])
BY DEF Model, Keeps, KeptLeg

LEMMA TouchKeeps ==
    ASSUME NEW v \in Model
    PROVE  Touch(v) \in Model /\ Keeps(v, Touch(v))
BY DEF Model, Keeps, KeptLeg, Touch, Touched

LEMMA UnbindType ==
    ASSUME NEW v \in Model, NEW id \in Id
    PROVE  Unbind(v, id) \in [active : BOOLEAN, gen : Nat, leg : Refs, missed : 0..1]
BY Constants DEF Unbind, Model

LEMMA EvictType ==
    ASSUME NEW v \in Model, NEW id \in Id
    PROVE  /\ Evict(v, id) \in Model
           /\ Evict(v, id).absent = v.absent
           /\ Evict(v, id).legs = [v.legs EXCEPT ![id] = NoLeg]
           /\ \A o \in Id \ {id} : Evict(v, id).gen[o] = v.gen[o]
<1> DEFINE w == Evict(v, id)
<1>1. w.legs = [v.legs EXCEPT ![id] = NoLeg] /\ w.gen = [v.gen EXCEPT ![id] = @ + 1]
  BY DEF Evict, Model
<1>2. w.legs \in [Id -> Leg] /\ w.gen \in [Id -> Nat]
  <2>1. v.legs \in [Id -> Leg] /\ v.gen \in [Id -> Nat] BY DEF Model
  <2>2. [v.legs EXCEPT ![id] = NoLeg] \in [Id -> Leg] BY <2>1, Constants
  <2>3. [v.gen EXCEPT ![id] = @ + 1] \in [Id -> Nat] BY <2>1
  <2> QED BY <1>1, <2>2, <2>3
<1> DEFINE new == [v EXCEPT !.shadow = Touched(v), !.mt = Unbind(v, id), !.gen = w.gen,
                            !.legs = w.legs, !.revised = Revise(v)]
<1>3. w = new BY <1>1 DEF Evict, Model
<1>4. Touched(v) \in {"closed", "open", "bad"} /\ Revise(v) \in BOOLEAN
  BY DEF Touched, Revise, Model
<1>5. new \in Model
  <2> DEFINE g == w.gen
             l == w.legs
  <2> HIDE DEF g, l
  <2>1. l \in [Id -> Leg] /\ g \in [Id -> Nat] BY <1>2 DEF g, l
  <2>2. [v EXCEPT !.shadow = Touched(v), !.mt = Unbind(v, id), !.gen = g,
                  !.legs = l, !.revised = Revise(v)] \in Model
    BY <2>1, <1>4, UnbindType DEF Model
  <2> QED BY <2>2 DEF g, l
<1>6. w.absent = v.absent BY DEF Evict, Model
<1>7. \A o \in Id \ {id} : w.gen[o] = v.gen[o] BY <1>1 DEF Model
<1> QED BY <1>1, <1>3, <1>5, <1>6, <1>7

LEMMA QueueReleaseKeeps ==
    ASSUME NEW v \in Model, NEW r \in Refs, NEW recover \in BOOLEAN
    PROVE  QueueRelease(v, r, recover) \in Model /\ Keeps(v, QueueRelease(v, r, recover))
<1>1. v.releases \in Seq([leg : Refs, recover : BOOLEAN]) BY DEF Model
<1>2. ASSUME NEW q \in Seq([leg : Refs, recover : BOOLEAN])
      PROVE [v EXCEPT !.releases = q] \in Model /\ Keeps(v, [v EXCEPT !.releases = q])
  BY DEF Model, Keeps, KeptLeg
<1>3. Append(v.releases, [leg |-> r, recover |-> recover]) \in Seq([leg : Refs, recover : BOOLEAN])
  BY <1>1
<1>4. [n \in DOMAIN v.releases |-> IF v.releases[n].leg = r /\ recover
                                   THEN [v.releases[n] EXCEPT !.recover = TRUE] ELSE v.releases[n]]
        \in Seq([leg : Refs, recover : BOOLEAN])
  <2> DEFINE E == [leg : Refs, recover : BOOLEAN]
             q == v.releases
             new(n) == IF q[n].leg = r /\ recover THEN [q[n] EXCEPT !.recover = TRUE] ELSE q[n]
  <2>1. q \in Seq(E) BY <1>1
  <2>2. \A n \in 1..Len(q) : q[n] \in E
    <3> HIDE DEF E, q
    <3> QED BY <2>1
  <2>3. \A n \in 1..Len(q) : new(n) \in E BY <2>2
  <2>4. DOMAIN q = 1..Len(q) /\ Len(q) \in Nat
    <3> HIDE DEF E, q
    <3> QED BY <2>1
  <2>5. [n \in 1..Len(q) |-> new(n)] \in [1..Len(q) -> E]
    <3> HIDE DEF E, q, new
    <3> QED BY <2>3
  <2>6. [n \in 1..Len(q) |-> new(n)] \in Seq(E)
    <3> HIDE DEF E, q, new
    <3> QED BY <2>5, <2>4
  <2> QED BY <2>6, <2>4
<1> QED BY <1>1, <1>2, <1>3, <1>4 DEF QueueRelease

LEMMA AbandonLegKeeps ==
    ASSUME NEW v \in Model, NEW t \in Txn
    PROVE  AbandonLeg(v, t) \in Model /\ Keeps(v, AbandonLeg(v, t))
<1> DEFINE r == Owner(t)
           w == [v EXCEPT !.shadow = Touched(v),
                      !.legs[r.id].state = "RELEASING",
                      !.legs[r.id].leaving = TRUE,
                      !.revised = IF v.legs[r.id].state = "RELEASING" THEN @ ELSE Revise(v),
                      !.mt = Unbind(v, r.id)]
<1>1. r \in Refs BY Constants DEF Owner, Txn
<1>2. CASE ~Has(v, r) BY <1>2, KeepsItself DEF AbandonLeg
<1>3. CASE Has(v, r)
  <2>1. r.id \in InUse(v) /\ r.id \in Id BY <1>3 DEF Has, InUse
  <2> DEFINE leg == [v.legs[r.id] EXCEPT !.state = "RELEASING", !.leaving = TRUE]
             mt == Unbind(v, r.id)
             rev == IF v.legs[r.id].state = "RELEASING" THEN v.revised ELSE Revise(v)
             sh == Touched(v)
             u == [v EXCEPT !.shadow = sh, !.legs = [v.legs EXCEPT ![r.id] = leg],
                            !.revised = rev, !.mt = mt]
  <2>b. v.legs[r.id] \in Leg /\ v.legs \in [Id -> Leg] BY <2>1 DEF Model
  <2> DEFINE L == [v.legs EXCEPT ![r.id].state = "RELEASING", ![r.id].leaving = TRUE]
  <2>l. L = [v.legs EXCEPT ![r.id] = leg]
    <3> HIDE DEF r
    <3> QED BY <2>b, <2>1 DEF Leg
  <2>a. w = u
    <3>1. w = [v EXCEPT !.shadow = sh, !.legs = L, !.revised = rev, !.mt = mt]
      <4> HIDE DEF r
      <4> QED BY <2>1 DEF Model
    <3> HIDE DEF L, leg, mt, rev, sh, w
    <3> QED BY <3>1, <2>l
  <2>c. leg \in Leg BY <2>b DEF Leg
  <2>d. [v.legs EXCEPT ![r.id] = leg] \in [Id -> Leg]
    <3> HIDE DEF leg
    <3> QED BY <2>b, <2>c, <2>1
  <2>e. mt \in [active : BOOLEAN, gen : Nat, leg : Refs, missed : 0..1] BY <2>1, UnbindType
  <2>f. rev \in BOOLEAN /\ sh \in {"closed", "open", "bad"} BY DEF Model, Revise, Touched
  <2>g. u \in Model
    <3> DEFINE l == [v.legs EXCEPT ![r.id] = leg]
    <3>1. l \in [Id -> Leg] BY <2>d
    <3> HIDE DEF l, mt, rev, sh
    <3>2. [v EXCEPT !.shadow = sh, !.legs = l, !.revised = rev, !.mt = mt] \in Model
      BY <3>1, <2>e, <2>f DEF Model
    <3> QED BY <3>2 DEF l
  <2>2. w \in Model BY <2>a, <2>g
  <2>3. Keeps(v, w) BY <2>1 DEF Keeps, KeptLeg, InUse, Model
  <2> DEFINE b == t.kind = "RELEASE_ACTIVE" \/ (t.kind = "DIAL" /\ t.second)
  <2>4. b \in BOOLEAN OBVIOUS
  <2>5. AbandonLeg(v, t) = QueueRelease(w, r, b) BY <1>3 DEF AbandonLeg
  <2> HIDE DEF w, r, b
  <2> QED BY <2>2, <2>3, <2>4, <2>5, <1>1, QueueReleaseKeeps, KeepsTransitive
<1> QED BY <1>2, <1>3

LEMMA TxnReplaced ==
    ASSUME NEW v \in Model, NEW s \in Slot, NEW t \in Txn
    PROVE  /\ [v EXCEPT !.txns[s] = t] \in Model
           /\ Keeps(v, [v EXCEPT !.txns[s] = t])
<1>1. v.txns \in [Slot -> Txn] BY DEF Model
<1>2. [v.txns EXCEPT ![s] = t] \in [Slot -> Txn] BY <1>1
<1>3. [v EXCEPT !.txns[s] = t] = [v EXCEPT !.txns = [v.txns EXCEPT ![s] = t]] BY DEF Model
<1> QED BY <1>2, <1>3, TxnsReplaced

LEMMA SlotTxn == \A v \in Model, s \in Slot : v.txns[s] \in Txn  BY DEF Model

LEMMA CancelTxnKeeps ==
    ASSUME NEW v \in Model, NEW s \in Slot
    PROVE  CancelTxn(v, s) \in Model /\ Keeps(v, CancelTxn(v, s))
<1> DEFINE t == v.txns[s]
           u == Touch(v)
           w == AbandonLeg(u, t)
<1>1. t \in Txn BY SlotTxn
<1>2. u \in Model /\ Keeps(v, u) BY TouchKeeps
<1>3. w \in Model /\ Keeps(u, w)
  <2> HIDE DEF u, t
  <2> QED BY <1>1, <1>2, AbandonLegKeeps
<1>4. CASE t.state = "PENDING"
  <2>1. CancelTxn(v, s) = [u EXCEPT !.txns[s] = NoTxn] BY <1>4 DEF CancelTxn
  <2> HIDE DEF u
  <2> QED BY <2>1, <1>2, TxnReplaced, Constants, KeepsTransitive
<1>5. CASE t.state # "PENDING"
  <2> DEFINE b == t.kind \in {"HOLD", "SWAP", "HANGUP"}
             n == [w.txns[s] EXCEPT !.state = "CANCELLED", !.tomb = TRUE, !.cleaned = b]
             W == [w EXCEPT !.txns[s].state = "CANCELLED", !.txns[s].tomb = TRUE,
                            !.txns[s].cleaned = b]
  <2>1. CancelTxn(v, s) = W BY <1>5 DEF CancelTxn
  <2>2. w.txns[s] \in Txn
    <3> HIDE DEF w
    <3> QED BY <1>3, SlotTxn
  <2>3. n \in Txn
    <3>1. b \in BOOLEAN OBVIOUS
    <3> HIDE DEF w, b
    <3> QED BY <2>2, <3>1 DEF Txn
  <2>4. W = [w EXCEPT !.txns[s] = n]
    <3> HIDE DEF w, b
    <3> QED BY <1>3, <2>2 DEF Model, Txn
  <2> HIDE DEF w, u, n, W
  <2> QED BY <2>1, <2>3, <2>4, <1>2, <1>3, TxnReplaced, KeepsTransitive
<1> QED BY <1>4, <1>5

LEMMA CancelKeeps ==
    ASSUME NEW v \in Model, NEW tok
    PROVE  Cancel(v, tok) \in Model /\ Keeps(v, Cancel(v, tok))
<1> DEFINE live == {s \in SlotOf(v, tok) : ~IsTerminal(v.txns[s])}
<1>1. CASE tok = 0 \/ live = {} BY <1>1, KeepsItself DEF Cancel
<1>2. CASE ~(tok = 0 \/ live = {})
  <2>1. PICK s \in live : Cancel(v, tok) = CancelTxn(v, s) BY <1>2 DEF Cancel
  <2>2. s \in Slot BY DEF SlotOf
  <2> QED BY <2>1, <2>2, CancelTxnKeeps
<1> QED BY <1>1, <1>2

LEMMA LeastSlot == \A S \in SUBSET Slot : S # {} => Min(S) \in S
  BY LeastNat, CallModelAssumption DEF Slot

LEMMA NewCallAbandonedKeeps ==
    ASSUME NEW v \in Model
    PROVE  NewCallAbandoned(v) \in Model /\ Keeps(v, NewCallAbandoned(v))
<1> DEFINE some == {s \in Slot : IsOpen(v.txns[s]) /\ v.txns[s].kind = "DIAL" /\ v.txns[s].second}
<1>1. CASE some = {} BY <1>1, KeepsItself DEF NewCallAbandoned
<1>2. CASE some # {}
  <2>1. Min(some) \in Slot
    <3>1. some \in SUBSET Slot OBVIOUS
    <3> HIDE DEF some
    <3> QED BY <3>1, <1>2, LeastSlot
  <2> QED BY <1>2, <2>1, CancelTxnKeeps DEF NewCallAbandoned
<1> QED BY <1>1, <1>2

LEMMA GiveUpKeeps ==
    ASSUME NEW v \in Model, NEW s \in Slot
    PROVE  GiveUp(v, s) \in Model /\ Keeps(v, GiveUp(v, s))
<1> DEFINE w == CancelTxn(v, s)
           n == [w.txns[s] EXCEPT !.state = "FAILED"]
<1>1. w \in Model /\ Keeps(v, w) BY CancelTxnKeeps
<1>2. n \in Txn
  <2> HIDE DEF w
  <2> QED BY <1>1, SlotTxn DEF Txn
<1>3. [w EXCEPT !.txns[s].state = "FAILED"] = [w EXCEPT !.txns[s] = n]
  <2> HIDE DEF w
  <2> QED BY <1>1 DEF Model
<1>4. [w EXCEPT !.txns[s] = n] \in Model /\ Keeps(v, [w EXCEPT !.txns[s] = n])
  <2> HIDE DEF w, n
  <2> QED BY <1>1, <1>2, TxnReplaced, KeepsTransitive
<1> QED BY <1>3, <1>4, KeepsItself DEF GiveUp

LEMMA BindDialKeeps ==
    ASSUME NEW v \in Model, NEW s \in Slot
    PROVE  BindDial(v, s) \in Model /\ Keeps(v, BindDial(v, s))
<1> DEFINE some == {id \in InUse(v) : /\ Ref(v, id) \notin v.txns[s].baseline
                                      /\ ~OwnedByOther(v, s, Ref(v, id))
                                      /\ Places(v, id)}
           id == CHOOSE id \in some : TRUE
           n == [v.txns[s] EXCEPT !.leg = Ref(v, id)]
<1>1. CASE Cardinality(some) # 1 BY <1>1, KeepsItself DEF BindDial
<1>2. CASE Cardinality(some) = 1
  <2>1. some # {} BY <1>2, FS_EmptySet
  <2>2. id \in Id BY <2>1 DEF InUse
  <2>3. n \in Txn
    <3> HIDE DEF id
    <3> QED BY <2>2, References, SlotTxn DEF Txn
  <2>4. BindDial(v, s) = [v EXCEPT !.txns[s].leg = Ref(v, id)] BY <1>2 DEF BindDial
  <2>5. BindDial(v, s) = [v EXCEPT !.txns[s] = n]
    <3> HIDE DEF id
    <3> QED BY <2>4 DEF Model
  <2> HIDE DEF n
  <2> QED BY <2>3, <2>5, TxnReplaced
<1> QED BY <1>1, <1>2

LEMMA TakeAndAbandonKeeps ==
    ASSUME NEW v \in Model, NEW s \in Slot, NEW r \in Refs
    PROVE  TakeAndAbandon(v, s, r) \in Model /\ Keeps(v, TakeAndAbandon(v, s, r))
<1> DEFINE t == [v.txns[s] EXCEPT !.leg = r]
           w == [v EXCEPT !.txns[s].leg = r]
<1>1. t \in Txn BY SlotTxn DEF Txn
<1>2. w = [v EXCEPT !.txns[s] = t] BY DEF Model
<1>3. w \in Model /\ Keeps(v, w)
  <2> HIDE DEF t
  <2> QED BY <1>1, <1>2, TxnReplaced
<1> HIDE DEF t, w
<1>4. AbandonLeg(w, t) \in Model /\ Keeps(v, AbandonLeg(w, t))
  BY <1>1, <1>3, AbandonLegKeeps, KeepsTransitive
<1> QED BY <1>4 DEF TakeAndAbandon, t, w

LEMMA BindTombstoneKeeps ==
    ASSUME NEW v \in Model, NEW s \in Slot
    PROVE  BindTombstone(v, s) \in Model /\ Keeps(v, BindTombstone(v, s))
<1> DEFINE t == v.txns[s]
           some == {id \in InUse(v) : /\ Steady(v, id) /\ Places(v, id)
                                      /\ Ref(v, id) \notin t.baseline
                                      /\ ~OwnedByOther(v, s, Ref(v, id))}
           id == CHOOSE id \in some : TRUE
           A == t.kind \in {"ANSWER", "WAIT_ANSWER"} /\ StateOf(v, t.leg) = "ACTIVE"
           B == t.kind = "DIAL" /\ t.leg = NoRef /\ Cardinality(some) = 1
<1>1. CASE A
  <2>1. BindTombstone(v, s) = AbandonLeg(v, t) BY <1>1 DEF BindTombstone
  <2> QED BY <2>1, AbandonLegKeeps, SlotTxn
<1>2. CASE B
  <2>1. some # {} BY <1>2, FS_EmptySet
  <2>2. id \in Id BY <2>1 DEF InUse
  <2>3. BindTombstone(v, s) = TakeAndAbandon(v, s, Ref(v, id)) BY <1>2 DEF BindTombstone
  <2> HIDE DEF id
  <2> QED BY <2>2, <2>3, TakeAndAbandonKeeps, References
<1>3. CASE ~A /\ ~B
  <2>1. BindTombstone(v, s) = v BY <1>3 DEF BindTombstone
  <2> QED BY <2>1, KeepsItself
<1> QED BY <1>1, <1>2, <1>3

LEMMA FindRoleType ==
    ASSUME NEW v \in Model, NEW st
    PROVE  FindRole(v, st) \in Refs
<1> DEFINE some == {id \in Id : v.legs[id].state = st}
           least(id) == \A o \in some : v.legs[id].slot <= v.legs[o].slot
<1>1. CASE some = {} BY <1>1, Constants DEF FindRole
<1>2. CASE some # {}
  <2> DEFINE S == {v.legs[id].slot : id \in some}
  <2>1. \A id \in Id : v.legs[id].slot \in Nat
    BY CallModelAssumption, FS_CardinalityType DEF Model, Leg
  <2>2. S \in SUBSET Nat /\ S # {} BY <2>1, <1>2
  <2>3. PICK n \in S : \A k \in S : n <= k
    <3> HIDE DEF S
    <3> QED BY <2>2, LeastNat
  <2>4. \E id \in some : least(id) BY <2>3
  <2>5. (CHOOSE id \in some : least(id)) \in Id BY <2>4
  <2>6. FindRole(v, st) = Ref(v, CHOOSE id \in some : least(id)) BY <1>2 DEF FindRole
  <2> HIDE DEF some, least
  <2> QED BY <2>5, <2>6, References
<1> QED BY <1>1, <1>2

LEMMA BindTargetType ==
    ASSUME NEW v \in Model, NEW t \in Txn
    PROVE  BindTarget(v, t) \in Txn
BY FindRoleType DEF BindTarget, Txn

LEMMA ResolveType ==
    ASSUME NEW v \in Model, NEW t \in Txn
    PROVE  Resolve(v, t) \in Txn
BY DEF Resolve, Txn

LEMMA ForEachKeeps ==
    ASSUME NEW v \in Model
    PROVE  /\ ForEach(v, BindTarget) \in Model /\ Keeps(v, ForEach(v, BindTarget))
           /\ ForEach(v, Resolve) \in Model /\ Keeps(v, ForEach(v, Resolve))
<1>1. [s \in Slot |-> BindTarget(v, v.txns[s])] \in [Slot -> Txn] BY BindTargetType, SlotTxn
<1>2. [s \in Slot |-> Resolve(v, v.txns[s])] \in [Slot -> Txn] BY ResolveType, SlotTxn
<1> QED BY <1>1, <1>2, TxnsReplaced DEF ForEach

LEMMA RetireKeeps ==
    ASSUME NEW v \in Model, NEW S
    PROVE  Retire(v, S) \in Model /\ Keeps(v, Retire(v, S))
<1>1. [s \in Slot |-> IF s \in S /\ Retirable(v, s) THEN NoTxn ELSE v.txns[s]] \in [Slot -> Txn]
  BY Constants, SlotTxn
<1> QED BY <1>1, TxnsReplaced DEF Retire

(* The passes over slots.                                                  *)
LEMMA SlotsFinite == \A S \in SUBSET Slot : IsFiniteSet(S)
<1>1. IsFiniteSet(Slot) BY CallModelAssumption, FS_Interval DEF Slot
<1> QED BY <1>1, FS_Subset

LEMMA SlotPass ==
    ASSUME NEW c, c.pass \in {"dials", "tombs", "cancel", "late"},
           NEW base \in Model, NEW S \in SUBSET Slot, NEW f, IsFold(c, base, S, f)
    PROVE  f[S] \in Model /\ Keeps(base, f[S])
<1> DEFINE Q == {q \in Model \X SUBSET S : Keeps(base, q[1])}
<1>1. IsFiniteSet(S) /\ Picks(c, S) BY SlotsFinite, PickInOrder, PickAny
<1>2. <<base, {}>> \in Q BY KeepsItself
<1>3. ASSUME NEW s \in SUBSET S, NEW x \in s, NEW v, <<v, s \ {x}>> \in Q
      PROVE  <<Do(c, x, v), s>> \in Q
  <2>1. v \in Model /\ Keeps(base, v) BY <1>3
  <2>2. x \in Slot OBVIOUS
  <2>3. Do(c, x, v) \in Model /\ Keeps(v, Do(c, x, v))
    <3>1. CASE c.pass = "dials" BY <3>1, <2>1, <2>2, BindDialKeeps DEF Do
    <3>2. CASE c.pass = "tombs" BY <3>2, <2>1, <2>2, BindTombstoneKeeps DEF Do
    <3>3. CASE c.pass = "cancel" BY <3>3, <2>1, <2>2, CancelTxnKeeps DEF Do
    <3>4. CASE c.pass = "late" BY <3>4, <2>1, <2>2, GiveUpKeeps DEF Do
    <3> QED BY <3>1, <3>2, <3>3, <3>4
  <2>4. Keeps(base, Do(c, x, v)) BY <2>1, <2>3, KeepsTransitive
  <2> QED BY <2>3, <2>4
<1>4. <<f[S], S>> \in Q
  <2> HIDE DEF Q
  <2> QED BY <1>1, <1>2, <1>3, FoldInduction
<1> QED BY <1>4

Cancelled(v, S) == FoldSet(LAMBDA s, mm : CancelTxn(mm, s), v, S)
Overdue(v, S)   == FoldSet(LAMBDA s, mm : GiveUp(mm, s), v, S)

LEMMA CancelFold ==
    ASSUME NEW v, NEW S, IsFiniteSet(S)
    PROVE  \E f : IsFold([pass |-> "cancel"], v, S, f) /\ Cancelled(v, S) = f[S]
<1> DEFINE c == [pass |-> "cancel"]
           Fn(f) == f = [s \in SUBSET S |->
                           IF s = {} THEN v ELSE CancelTxn(f[s \ {First(s)}], First(s))]
<1>1. Cancelled(v, S) = (CHOOSE f : Fn(f))[S]
  BY DEF Cancelled, FoldSet, MapThenFoldSet, First
<1>2. c.pass = "cancel" /\ c.pass \notin Ascending BY DEF Ascending
<1>3. \A f, s : Step(c, v, f, s) = IF s = {} THEN v ELSE CancelTxn(f[s \ {First(s)}], First(s))
  BY <1>2 DEF Step, Do, Pick, First
<1>4. \A f : IsFold(c, v, S, f) <=> Fn(f) BY <1>3 DEF IsFold
<1>6. \E f : IsFold(c, v, S, f)
  <2> HIDE DEF c
  <2> QED BY <1>2, PickAny, FoldExists
<1>7. \E f : Fn(f) BY <1>4, <1>6
<1>8. Fn(CHOOSE f : Fn(f))
  <2> HIDE DEF Fn
  <2> QED BY <1>7
<1> HIDE DEF Fn
<1> QED BY <1>1, <1>4, <1>8

LEMMA GiveUpFold ==
    ASSUME NEW v, NEW S, IsFiniteSet(S)
    PROVE  \E f : IsFold([pass |-> "late"], v, S, f) /\ Overdue(v, S) = f[S]
<1> DEFINE c == [pass |-> "late"]
           Fn(f) == f = [s \in SUBSET S |->
                           IF s = {} THEN v ELSE GiveUp(f[s \ {First(s)}], First(s))]
<1>1. Overdue(v, S) = (CHOOSE f : Fn(f))[S]
  BY DEF Overdue, FoldSet, MapThenFoldSet, First
<1>2. c.pass = "late" /\ c.pass \notin Ascending BY DEF Ascending
<1>3. \A f, s : Step(c, v, f, s) = IF s = {} THEN v ELSE GiveUp(f[s \ {First(s)}], First(s))
  BY <1>2 DEF Step, Do, Pick, First
<1>4. \A f : IsFold(c, v, S, f) <=> Fn(f) BY <1>3 DEF IsFold
<1>6. \E f : IsFold(c, v, S, f)
  <2> HIDE DEF c
  <2> QED BY <1>2, PickAny, FoldExists
<1>7. \E f : Fn(f) BY <1>4, <1>6
<1>8. Fn(CHOOSE f : Fn(f))
  <2> HIDE DEF Fn
  <2> QED BY <1>7
<1> HIDE DEF Fn
<1> QED BY <1>1, <1>4, <1>8

LEMMA SlotPassesKeep ==
    ASSUME NEW v \in Model, NEW S \in SUBSET Slot
    PROVE  /\ BindDials(v) \in Model       /\ Keeps(v, BindDials(v))
           /\ BindTombstones(v) \in Model  /\ Keeps(v, BindTombstones(v))
           /\ Cancelled(v, S) \in Model    /\ Keeps(v, Cancelled(v, S))
           /\ Overdue(v, S) \in Model      /\ Keeps(v, Overdue(v, S))
<1>1. IsFiniteSet(S) BY SlotsFinite
<1>2. BindDials(v) \in Model /\ Keeps(v, BindDials(v))
  <2>1. PICK f : IsFold([pass |-> "dials"], v, Dials(v), f) /\ BindDials(v) = f[Dials(v)]
    BY DialsFold
  <2>2. Dials(v) \in SUBSET Slot BY DEF Dials
  <2> DEFINE c == [pass |-> "dials"]
  <2>3. c.pass = "dials" OBVIOUS
  <2> HIDE DEF c
  <2> QED BY <2>1, <2>2, <2>3, SlotPass
<1>3. BindTombstones(v) \in Model /\ Keeps(v, BindTombstones(v))
  <2>1. PICK f : IsFold([pass |-> "tombs"], v, Tombs(v), f) /\ BindTombstones(v) = f[Tombs(v)]
    BY TombsFold
  <2>2. Tombs(v) \in SUBSET Slot BY DEF Tombs
  <2> DEFINE c == [pass |-> "tombs"]
  <2>3. c.pass = "tombs" OBVIOUS
  <2> HIDE DEF c
  <2> QED BY <2>1, <2>2, <2>3, SlotPass
<1>4. Cancelled(v, S) \in Model /\ Keeps(v, Cancelled(v, S))
  <2>1. PICK f : IsFold([pass |-> "cancel"], v, S, f) /\ Cancelled(v, S) = f[S]
    BY <1>1, CancelFold
  <2> DEFINE c == [pass |-> "cancel"]
  <2>3. c.pass = "cancel" OBVIOUS
  <2> HIDE DEF c
  <2> QED BY <2>1, <2>3, SlotPass
<1>5. Overdue(v, S) \in Model /\ Keeps(v, Overdue(v, S))
  <2>1. PICK f : IsFold([pass |-> "late"], v, S, f) /\ Overdue(v, S) = f[S]
    BY <1>1, GiveUpFold
  <2> DEFINE c == [pass |-> "late"]
  <2>3. c.pass = "late" OBVIOUS
  <2> HIDE DEF c
  <2> QED BY <2>1, <2>3, SlotPass
<1> QED BY <1>2, <1>3, <1>4, <1>5

LEMMA ReconcileKeeps ==
    ASSUME NEW v \in Model, NEW late \in SUBSET Slot
    PROVE  Reconcile(v, late) \in Model /\ Keeps(v, Reconcile(v, late))
<1> DEFINE a == BindDials(v)
           b == ForEach(a, BindTarget)
           c == ForEach(b, Resolve)
           d == Overdue(c, late)
<1>1. a \in Model /\ Keeps(v, a) BY SlotPassesKeep
<1>2. b \in Model /\ Keeps(a, b)
  <2> HIDE DEF a
  <2> QED BY <1>1, ForEachKeeps
<1>3. c \in Model /\ Keeps(b, c)
  <2> HIDE DEF b
  <2> QED BY <1>2, ForEachKeeps
<1>4. d \in Model /\ Keeps(c, d)
  <2> HIDE DEF c
  <2> QED BY <1>3, SlotPassesKeep
<1>5. BindTombstones(d) \in Model /\ Keeps(d, BindTombstones(d))
  <2> HIDE DEF d
  <2> QED BY <1>4, SlotPassesKeep
<1>6. Reconcile(v, late) = BindTombstones(d) BY DEF Reconcile, Overdue
<1> HIDE DEF a, b, c, d
<1> QED BY <1>1, <1>2, <1>3, <1>4, <1>5, <1>6, KeepsTransitive

(* Fewer than n marks leave one of 1..n unused.                            *)
LEMMA UnusedMark ==
    ASSUME NEW S, IsFiniteSet(S), NEW n \in Nat, Cardinality(S) < n, NEW g
    PROVE  \E k \in 1..n : \A x \in S : g[x] # k
<1>1. SUFFICES ASSUME \A k \in 1..n : \E x \in S : g[x] = k  PROVE FALSE  OBVIOUS
<1> DEFINE f == [k \in 1..n |-> CHOOSE x \in S : g[x] = k]
<1>2. f \in [1..n -> S] BY <1>1
<1>3. \A k \in 1..n : g[f[k]] = k BY <1>1
<1>4. IsFiniteSet(1..n) /\ Cardinality(1..n) = n BY FS_Interval
<1>5. PICK x, y \in 1..n : x # y /\ f[x] = f[y]
  <2> HIDE DEF f
  <2> QED BY <1>2, <1>4, FS_PigeonHole
<1> HIDE DEF f
<1> QED BY <1>3, <1>5

MtType == [active : BOOLEAN, gen : Nat, leg : Refs, missed : 0..1]

LEMMA MtReplaced ==
    ASSUME NEW v \in Model, NEW mt \in MtType
    PROVE  [v EXCEPT !.mt = mt] \in Model /\ Keeps(v, [v EXCEPT !.mt = mt])
BY DEF Model, MtType, Keeps, KeptLeg

LEMMA MtOf == \A v \in Model : v.mt \in MtType  BY DEF Model, MtType

(* A leg known to be called in keeps its state.                            *)
LEMMA DirectionKnown ==
    ASSUME NEW v \in Model, NEW id \in Id
    PROVE  [v EXCEPT !.legs[id].dir = "MT"] \in Model /\ Keeps(v, [v EXCEPT !.legs[id].dir = "MT"])
<1> DEFINE L == [v.legs EXCEPT ![id].dir = "MT"]
<1>1. v.legs \in [Id -> Leg] BY DEF Model
<1>2. L \in [Id -> Leg] BY <1>1 DEF Leg, Dirs
<1>3. [v EXCEPT !.legs[id].dir = "MT"] = [v EXCEPT !.legs = L] BY DEF Model
<1>4. \A o \in Id : KeptLeg(v.legs[o], L[o]) BY <1>1 DEF Leg, KeptLeg
<1> HIDE DEF L
<1>5. [v EXCEPT !.legs = L] \in Model /\ Keeps(v, [v EXCEPT !.legs = L])
  BY <1>2, <1>4 DEF Model, Keeps
<1> QED BY <1>3, <1>5

LEMMA NewEpisodeType ==
    ASSUME NEW v \in Model
    PROVE  NewEpisode(v) \in Nat
<1> DEFINE g == [s \in Slot |-> v.txns[s].episode]
           T == (1..(LastSlot + 2)) \ {v.txns[s].episode : s \in Slot}
<1>1. IsFiniteSet(Slot) /\ Cardinality(Slot) < LastSlot + 2 /\ LastSlot + 2 \in Nat
  BY CallModelAssumption, FS_Interval DEF Slot
<1>2. PICK k \in 1..(LastSlot + 2) : \A s \in Slot : g[s] # k
  <2> HIDE DEF g
  <2> QED BY <1>1, UnusedMark
<1>3. k \in T BY <1>2
<1>4. T \in SUBSET Nat BY CallModelAssumption
<1>5. Min(T) \in Nat
  <2> HIDE DEF T
  <2> QED BY <1>3, <1>4, LeastNat
<1> QED BY <1>5 DEF NewEpisode

LEMMA OnRingKeeps ==
    ASSUME NEW v \in Model
    PROVE  OnRing(v) \in Model /\ Keeps(v, OnRing(v))
<1> DEFINE u == Touch(v)
<1>1. u \in Model /\ Keeps(v, u) BY TouchKeeps
<1>2. CASE v.mt.active
  <2> DEFINE mt == [u.mt EXCEPT !.missed = 0]
  <2>1. OnRing(v) = [u EXCEPT !.mt.missed = 0] BY <1>2 DEF OnRing
  <2> HIDE DEF u
  <2>2. [u EXCEPT !.mt.missed = 0] = [u EXCEPT !.mt = mt] BY <1>1 DEF Model
  <2>3. mt \in MtType BY <1>1, MtOf DEF MtType
  <2> HIDE DEF mt
  <2> QED BY <2>1, <2>2, <2>3, <1>1, MtReplaced, KeepsTransitive
<1>3. CASE ~v.mt.active
  <2> DEFINE mt == [NoMt EXCEPT !.active = TRUE, !.gen = NewEpisode(v)]
  <2>1. OnRing(v) = [u EXCEPT !.mt = mt] BY <1>3 DEF OnRing
  <2>2. mt \in MtType BY NewEpisodeType, Constants DEF MtType, NoMt
  <2> HIDE DEF u, mt
  <2> QED BY <2>1, <2>2, <1>1, MtReplaced, KeepsTransitive
<1> QED BY <1>2, <1>3

LEMMA BindExistingKeeps ==
    ASSUME NEW v \in Model
    PROVE  BindExisting(v) \in Model /\ Keeps(v, BindExisting(v))
<1> DEFINE some == {id \in InUse(v) : Steady(v, id) /\ Ringing(v, id) /\ v.legs[id].dir # "MO"}
           one == CHOOSE id \in some : TRUE
           A == v.mt.active /\ v.mt.leg = NoRef /\ Cardinality(some) = 1
<1>1. CASE ~A
  <2>1. BindExisting(v) = v BY <1>1 DEF BindExisting
  <2> QED BY <2>1, KeepsItself
<1>2. CASE A
  <2>1. some # {}
    <3> HIDE DEF some
    <3> QED BY <1>2, OneIsSome
  <2>2. one \in Id BY <2>1 DEF InUse
  <2>3. BindExisting(v) = [v EXCEPT !.mt.leg = Ref(v, one), !.legs[one].dir = "MT"]
    BY <1>2 DEF BindExisting
  <2> HIDE DEF one
  <2> DEFINE mt == [v.mt EXCEPT !.leg = Ref(v, one)]
             w == [v EXCEPT !.mt = mt]
  <2>4. mt \in MtType BY <2>2, References, MtOf DEF MtType
  <2>5. BindExisting(v) = [w EXCEPT !.legs[one].dir = "MT"] BY <2>3 DEF Model
  <2>6. w \in Model /\ Keeps(v, w)
    <3> HIDE DEF mt
    <3> QED BY <2>4, MtReplaced
  <2> HIDE DEF w
  <2> QED BY <2>2, <2>5, <2>6, DirectionKnown, KeepsTransitive
<1> QED BY <1>1, <1>2

LEMMA OnClipKeeps ==
    ASSUME NEW v \in Model
    PROVE  OnClip(v) \in Model /\ Keeps(v, OnClip(v))
BY OnRingKeeps, BindExistingKeeps, KeepsTransitive DEF OnClip

LEMMA OnBareFinalKeeps ==
    ASSUME NEW v \in Model
    PROVE  OnBareFinal(v) \in Model /\ Keeps(v, OnBareFinal(v))
<1> DEFINE some == {s \in Slot : /\ v.txns[s].state = "SENT"
                                 /\ v.txns[s].kind \in {"DIAL", "ANSWER", "HANGUP",
                                                        "RELEASE_ACTIVE", "RELEASE_LEG"}}
           s == CHOOSE s \in some : TRUE
           u == Touch(v)
           n == [u.txns[s] EXCEPT !.cause = TRUE]
<1>1. u \in Model /\ Keeps(v, u) BY TouchKeeps
<1>2. CASE Cardinality(some) # 1
  <2>1. OnBareFinal(v) = u BY <1>2 DEF OnBareFinal
  <2> QED BY <2>1, <1>1
<1>3. CASE Cardinality(some) = 1
  <2>1. some # {} BY <1>3, FS_EmptySet
  <2>2. s \in Slot BY <2>1
  <2>3. OnBareFinal(v) = [u EXCEPT !.txns[s].cause = TRUE] BY <1>3 DEF OnBareFinal
  <2> HIDE DEF s, u
  <2>4. OnBareFinal(v) = [u EXCEPT !.txns[s] = n] BY <2>3, <1>1 DEF Model
  <2>5. n \in Txn BY <2>2, <1>1, SlotTxn DEF Txn
  <2> HIDE DEF n
  <2> QED BY <2>2, <2>4, <2>5, <1>1, TxnReplaced, KeepsTransitive
<1> QED BY <1>2, <1>3

Requests == Ops \ {"NONE", "CLCC"}

LEMMA EveryoneType == \A v \in Model : Everyone(v) \in SUBSET Refs
  BY References DEF Everyone, InUse

LEMMA NewTxnType ==
    ASSUME NEW v \in Model, NEW kind \in Requests, NEW target \in Id \cup {0}, NEW second \in BOOLEAN
    PROVE  NewTxn(v, kind, target, second) \in Txn
<1> DEFINE leg == CASE kind \in {"DIAL", "HANGUP"} \/ target = 0 -> WantedRole(v, kind)
                    [] OTHER -> [id |-> target, gen |-> IF target \in InUse(v)
                                                        THEN v.gen[target] ELSE 0]
           held == CASE kind \in {"SWAP", "RELEASE_ACTIVE"} -> FindRole(v, "HELD")
                     [] kind = "WAIT_ANSWER" -> FindRole(v, "ACTIVE")
                     [] OTHER -> NoRef
           ep == IF kind \in {"ANSWER", "WAIT_ANSWER", "WAIT_REJECT", "HANGUP"} /\ v.mt.active
                 THEN v.mt.gen ELSE 0
<1>1. WantedRole(v, kind) \in Refs
  <2>1. v.mt.leg \in Refs /\ NoRef \in Refs BY Constants DEF Model
  <2>2. \A st : FindRole(v, st) \in Refs BY FindRoleType
  <2> HIDE DEF Model
  <2> QED BY <2>1, <2>2 DEF WantedRole
<1>2. leg \in Refs
  <2>1. CASE kind \in {"DIAL", "HANGUP"} \/ target = 0 BY <2>1, <1>1
  <2>2. CASE ~(kind \in {"DIAL", "HANGUP"} \/ target = 0)
    <3>1. (IF target \in InUse(v) THEN v.gen[target] ELSE 0) \in Nat BY DEF InUse, Model
    <3> DEFINE g == IF target \in InUse(v) THEN v.gen[target] ELSE 0
    <3>2. leg = [id |-> target, gen |-> g] BY <2>2
    <3> HIDE DEF g, leg
    <3>3. g \in Nat BY <3>1 DEF g
    <3> QED BY <3>2, <3>3 DEF Refs
  <2> QED BY <2>1, <2>2
<1>3. held \in Refs BY FindRoleType, Constants
<1>4. ep \in Nat BY DEF Model
<1>5. v.token \in Nat BY DEF Model
<1>6. NewTxn(v, kind, target, second) =
        [NoTxn EXCEPT !.kind = kind, !.token = v.token, !.second = second, !.leg = leg,
                      !.held = held, !.episode = ep]
  BY DEF NewTxn
<1> HIDE DEF leg, held, ep
<1> QED BY <1>2, <1>3, <1>4, <1>5, <1>6, Constants DEF Txn, Requests

LEMMA CaptureSetupsKeeps ==
    ASSUME NEW v \in Model, NEW s \in Slot
    PROVE  CaptureSetups(v, s) \in Model /\ Keeps(v, CaptureSetups(v, s))
<1> DEFINE sent == {o \in OpenDials(v) : v.txns[o].state = "SENT"}
           own  == {v.txns[o].token : o \in {x \in sent : ~Has(v, v.txns[x].leg)}}
           free == Cancelled(v, OpenDials(v) \ sent)
           n    == [free.txns[s] EXCEPT !.setups = own, !.baseline = Everyone(v)]
           w    == [free EXCEPT !.txns[s].setups = own, !.txns[s].baseline = Everyone(v)]
<1>1. OpenDials(v) \ sent \in SUBSET Slot BY DEF OpenDials
<1>2. free \in Model /\ Keeps(v, free)
  <2> HIDE DEF sent
  <2> QED BY <1>1, SlotPassesKeep
<1>3. own \in SUBSET Nat BY SlotTxn DEF OpenDials, Txn
<1>4. CaptureSetups(v, s) = w BY DEF CaptureSetups, Cancelled
<1> HIDE DEF own, free
<1>5. n \in Txn BY <1>2, <1>3, SlotTxn, EveryoneType DEF Txn
<1>6. w = [free EXCEPT !.txns[s] = n] BY <1>2 DEF Model, Txn
<1> HIDE DEF n, w
<1> QED BY <1>2, <1>4, <1>5, <1>6, TxnReplaced, KeepsTransitive

LEMMA ClearedKeeps ==
    ASSUME NEW v \in Model, NEW kind, NEW second
    PROVE  Cleared(v, kind, second) \in Model /\ Keeps(v, Cleared(v, kind, second))
<1>1. Superseded(v, second) \in SUBSET Slot BY DEF Superseded, OpenDials
<1>2. CASE kind = "DIAL"
  <2>1. Cleared(v, kind, second) = Cancelled(v, Superseded(v, second))
    BY <1>2 DEF Cleared, Cancelled
  <2> QED BY <2>1, <1>1, SlotPassesKeep
<1>3. CASE kind # "DIAL" BY <1>3, KeepsItself DEF Cleared
<1> QED BY <1>2, <1>3

LEMMA PlacedKeeps ==
    ASSUME NEW v \in Model, NEW s \in Slot, NEW kind \in Requests, NEW target \in Id \cup {0},
           NEW second \in BOOLEAN
    PROVE  /\ Placed(v, s, kind, target, second).m \in Model
           /\ Keeps(v, Placed(v, s, kind, target, second).m)
           /\ Placed(v, s, kind, target, second).token \in Nat
<1> DEFINE t == NewTxn(v, kind, target, second)
           u == [v EXCEPT !.txns[s] = t]
           made == [v EXCEPT !.txns[s] = t, !.token = @ + 1]
<1>1. t \in Txn BY NewTxnType
<1>2. u \in Model /\ Keeps(v, u)
  <2> HIDE DEF t
  <2> QED BY <1>1, TxnReplaced
<1>3. made = [u EXCEPT !.token = @ + 1]
  <2> HIDE DEF t
  <2> QED BY DEF Model
<1>4. made \in Model /\ Keeps(u, made)
  <2> HIDE DEF u
  <2> DEFINE k == u.token + 1
  <2>1. u.token \in Nat \ {0} BY <1>2 DEF Model
  <2>2. k \in Nat \ {0} BY <2>1
  <2>3. made = [u EXCEPT !.token = k] BY <1>3
  <2> HIDE DEF k, made
  <2> QED BY <1>2, <2>2, <2>3 DEF Model, Keeps, KeptLeg
<1>5. Placed(v, s, kind, target, second) =
        [m |-> IF kind = "HANGUP" THEN CaptureSetups(made, s) ELSE made, token |-> v.token]
  BY DEF Placed
<1>6. v.token \in Nat BY DEF Model
<1> HIDE DEF made, u
<1> QED BY <1>2, <1>4, <1>5, <1>6, CaptureSetupsKeeps, KeepsTransitive

LEMMA RequestKeeps ==
    ASSUME NEW v \in Model, NEW kind \in Requests, NEW target \in Id \cup {0}, NEW second \in BOOLEAN
    PROVE  /\ Request(v, kind, target, second).m \in Model
           /\ Keeps(v, Request(v, kind, target, second).m)
           /\ Request(v, kind, target, second).token \in Nat
<1> DEFINE may == IF kind = "HANGUP" THEN {0} ELSE Slot \ {0}
           cleared == Cleared(v, kind, second)
           ready == Retire(cleared, may)
           free == {s \in may : ready.txns[s].kind = "NONE"}
<1>1. cleared \in Model /\ Keeps(v, cleared) BY ClearedKeeps
<1>2. ready \in Model /\ Keeps(cleared, ready)
  <2> HIDE DEF cleared, may
  <2> QED BY <1>1, RetireKeeps
<1>3. free \in SUBSET Slot BY CallModelAssumption DEF Slot
<1>4. CASE kind = "DIAL" /\ ~MayDial(v, second)
  BY <1>4, KeepsItself DEF Request
<1>5. CASE ~(kind = "DIAL" /\ ~MayDial(v, second))
  <2>1. Request(v, kind, target, second) = PlaceIn(ready, free, kind, target, second)
    BY <1>5 DEF Request
  <2> HIDE DEF ready, free, cleared
  <2>2. CASE free = {} BY <2>1, <2>2, <1>1, <1>2, KeepsTransitive DEF PlaceIn
  <2>3. CASE free # {}
    <3>1. Min(free) \in Slot BY <2>3, <1>3, LeastSlot
    <3>2. Request(v, kind, target, second) = Placed(ready, Min(free), kind, target, second)
      BY <2>1, <2>3 DEF PlaceIn
    <3> QED BY <3>1, <3>2, <1>1, <1>2, PlacedKeeps, KeepsTransitive
  <2> QED BY <2>2, <2>3
<1> QED BY <1>4, <1>5

LEMMA DispatchKeeps ==
    ASSUME NEW v \in Model, NEW s \in Slot, NEW guard
    PROVE  Dispatch(v, s, guard) \in Model /\ Keeps(v, Dispatch(v, s, guard))
<1> DEFINE t == v.txns[s]
<1>1. t \in Txn BY SlotTxn
<1>2. CASE guard = "SEND"
  <2> DEFINE bl == IF t.kind \in {"DIAL", "ANSWER", "WAIT_ANSWER"} THEN Everyone(v) ELSE t.baseline
             wh == t.kind \in {"HOLD", "SWAP"} /\ StateOf(v, t.leg) = "HELD"
             n == [t EXCEPT !.state = "SENT", !.baseline = bl, !.wasHeld = wh]
             w == [v EXCEPT !.txns[s].state = "SENT", !.txns[s].baseline = bl,
                            !.txns[s].wasHeld = wh]
  <2>1. bl \in SUBSET Refs /\ wh \in BOOLEAN BY <1>1, EveryoneType DEF Txn
  <2>2. Dispatch(v, s, guard) = w
    <3>1. v.txns \in [Slot -> Txn] BY DEF Model
    <3> QED BY <1>2, <3>1 DEF Dispatch, Txn, Model
  <2> HIDE DEF bl, wh
  <2>3. n \in Txn BY <2>1, <1>1 DEF Txn
  <2>4. w = [v EXCEPT !.txns[s] = n] BY <1>1 DEF Model, Txn
  <2> HIDE DEF n, w
  <2> QED BY <2>2, <2>3, <2>4, TxnReplaced
<1>3. CASE guard # "SEND"
  <2> DEFINE u == Touch(v)
             st == IF guard = "STALE" THEN "FAILED" ELSE "SUCCEEDED"
             n == [u.txns[s] EXCEPT !.cleaned = TRUE, !.state = st]
             w == [u EXCEPT !.txns[s].cleaned = TRUE, !.txns[s].state = st]
  <2>1. u \in Model /\ Keeps(v, u) BY TouchKeeps
  <2>2. Dispatch(v, s, guard) = w BY <1>3 DEF Dispatch
  <2>3. st \in {"FAILED", "SUCCEEDED"} OBVIOUS
  <2> HIDE DEF u, st
  <2>4. n \in Txn BY <2>1, <2>3, SlotTxn DEF Txn
  <2>5. w = [u EXCEPT !.txns[s] = n] BY <2>1, SlotTxn DEF Model, Txn
  <2> HIDE DEF n, w
  <2> QED BY <2>1, <2>2, <2>4, <2>5, TxnReplaced, KeepsTransitive
<1> QED BY <1>2, <1>3

LEMMA CommandResultKeeps ==
    ASSUME NEW v \in Model, NEW tok, NEW status
    PROVE  CommandResult(v, tok, status) \in Model /\ Keeps(v, CommandResult(v, tok, status))
<1> DEFINE live == {s \in SlotOf(v, tok) : ~IsTerminal(v.txns[s])}
           u == Touch(v)
           ts == [s \in Slot |-> IF s \in live /\ status = "ERROR"
                                 THEN [u.txns[s] EXCEPT !.state = "FAILED"] ELSE u.txns[s]]
           heard == [u EXCEPT !.txns = ts]
<1>1. u \in Model /\ Keeps(v, u) BY TouchKeeps
<1>2. ts \in [Slot -> Txn]
  <2> HIDE DEF u, live
  <2> QED BY <1>1, SlotTxn DEF Txn
<1>3. heard \in Model /\ Keeps(u, heard)
  <2> HIDE DEF u, ts
  <2> QED BY <1>1, <1>2, TxnsReplaced
<1>4. CASE tok = 0 \/ live = {} \/ status = "OK" BY <1>4, KeepsItself DEF CommandResult
<1>5. CASE ~(tok = 0 \/ live = {} \/ status = "OK")
  <2>1. CommandResult(v, tok, status) = Reconcile(heard, {}) BY <1>5 DEF CommandResult
  <2> HIDE DEF u, heard
  <2> QED BY <2>1, <1>1, <1>3, ReconcileKeeps, KeepsTransitive
<1> QED BY <1>4, <1>5

LEMMA ListingKeeps ==
    ASSUME NEW v \in Model
    PROVE  /\ ClccBegin(v) \in Model  /\ Keeps(v, ClccBegin(v))
           /\ ClccError(v) \in Model  /\ Keeps(v, ClccError(v))
BY DEF ClccBegin, ClccError, Model, Keeps, KeptLeg

----------------------------------------------------------------------------
(* The tick and the frame.                                                 *)

LEMMA TombstoneDueKeeps ==
    ASSUME NEW v \in Model, NEW e, e.kind = "tombstone" => e.at \in Slot
    PROVE  TombstoneDue(v, e) \in Model /\ Keeps(v, TombstoneDue(v, e))
<1>1. CASE e.kind # "tombstone" BY <1>1, KeepsItself DEF TombstoneDue
<1>2. CASE e.kind = "tombstone"
  <2> DEFINE n == [v.txns[e.at] EXCEPT !.cleaned = TRUE]
             w == [v EXCEPT !.txns[e.at].cleaned = TRUE]
  <2>1. TombstoneDue(v, e) = w BY <1>2 DEF TombstoneDue
  <2>0. e.at \in Slot BY <1>2
  <2>a. v.txns[e.at] \in Txn BY <2>0, SlotTxn
  <2>2. n \in Txn BY <2>a DEF Txn
  <2>3. w = [v EXCEPT !.txns[e.at] = n] BY <2>0 DEF Model
  <2> HIDE DEF n, w
  <2> QED BY <1>2, <2>1, <2>2, <2>3, TxnReplaced
<1> QED BY <1>1, <1>2

LEMMA RingOverKeeps ==
    ASSUME NEW v \in Model, NEW e
    PROVE  RingOver(v, e) \in Model /\ Keeps(v, RingOver(v, e))
BY MtReplaced, KeepsItself, Constants DEF RingOver, MtType

LEMMA MissMtKeeps ==
    ASSUME NEW v \in Model
    PROVE  MissMt(v) \in Model /\ Keeps(v, MissMt(v))
<1> DEFINE missed == IF \E id \in InUse(v) : Ringing(v, id) THEN 0 ELSE v.mt.missed + 1
           mt == IF missed >= 2 THEN NoMt ELSE [v.mt EXCEPT !.missed = missed]
<1>1. mt \in MtType
  <2>1. missed \in Nat BY MtOf DEF MtType
  <2> HIDE DEF missed
  <2> QED BY <2>1, MtOf, Constants DEF MtType
<1>2. MissMt(v) = v \/ MissMt(v) = [v EXCEPT !.mt = mt] BY DEF MissMt
<1> HIDE DEF mt
<1> QED BY <1>1, <1>2, MtReplaced, KeepsItself

LEMMA TickKeeps ==
    ASSUME NEW v \in Model
    PROVE  Tick(v, Calm) \in Model /\ Keeps(v, Tick(v, Calm))
<1> DEFINE a == TombstoneDue(v, Calm)
           b == Retire(a, Slot)
           c == Reconcile(b, {})
           d == Limbo(c, Calm)
<1>1. Calm.kind = "none" BY DEF Calm
<1>2. a \in Model /\ Keeps(v, a) BY <1>1, TombstoneDueKeeps
<1>3. b \in Model /\ Keeps(a, b)
  <2> HIDE DEF a
  <2> QED BY <1>2, RetireKeeps
<1>4. c \in Model /\ Keeps(b, c)
  <2> HIDE DEF b
  <2> QED BY <1>3, ReconcileKeeps
<1>5. d = c BY <1>1 DEF Limbo
<1>6. RingOver(d, Calm) \in Model /\ Keeps(d, RingOver(d, Calm))
  <2> HIDE DEF c, d
  <2> QED BY <1>4, <1>5, RingOverKeeps
<1>7. Tick(v, Calm) = RingOver(d, Calm) BY <1>1 DEF Tick
<1> HIDE DEF a, b, c, d
<1> QED BY <1>2, <1>3, <1>4, <1>5, <1>6, <1>7, KeepsTransitive

(* A step that lets go of some legs and keeps the others.                  *)
Gone(leg) == leg.state = "FREE" /\ leg.call = 0

Lets(v, w, ids) ==
    /\ w.absent = v.absent
    /\ \A id \in ids : Gone(w.legs[id])
    /\ \A id \in Id \ ids : w.gen[id] = v.gen[id] /\ KeptLeg(v.legs[id], w.legs[id])

LEMMA KeepsLets == \A v, w : Keeps(v, w) => Lets(v, w, {})  BY DEF Keeps, Lets

LEMMA LetsThenKeeps ==
    ASSUME NEW u, NEW v, NEW w, NEW ids \in SUBSET Id, Lets(u, v, ids), Keeps(v, w)
    PROVE  Lets(u, w, ids)
BY DEF Lets, Keeps, KeptLeg, Gone

LEMMA TickLets ==
    ASSUME NEW v \in Model, NEW e \in Expiries(v)
    PROVE  Tick(v, e) \in Model /\ \E ids \in SUBSET InUse(v) : Lets(v, Tick(v, e), ids)
<1> DEFINE late == IF e.kind = "abandon" THEN {e.at} ELSE {}
           a == TombstoneDue(v, e)
           b == Retire(a, Slot)
           c == Reconcile(b, late)
           d == Limbo(c, e)
           f == RingOver(d, e)
<1>1. /\ e.kind = "abandon" => e.at \in Slot
      /\ e.kind = "tombstone" => e.at \in Slot
      /\ e.kind = "limbo" => e.at \in InUse(v)
  BY DEF Expiries, Expiry
<1>2. a \in Model /\ Keeps(v, a) BY <1>1, TombstoneDueKeeps
<1>3. b \in Model /\ Keeps(a, b)
  <2> HIDE DEF a
  <2> QED BY <1>2, RetireKeeps
<1>4. c \in Model /\ Keeps(b, c)
  <2> HIDE DEF b
  <2> QED BY <1>1, <1>3, ReconcileKeeps
<1>5. Keeps(v, c)
  <2> HIDE DEF a, b, c
  <2> QED BY <1>2, <1>3, <1>4, KeepsTransitive
<1>6. Tick(v, e) = f BY DEF Tick
<1>7. CASE ~(e.kind = "limbo" /\ c.legs[e.at].leaving)
  <2>1. d = c BY <1>7 DEF Limbo
  <2>2. f \in Model /\ Keeps(c, f)
    <3> HIDE DEF c, d
    <3> QED BY <1>4, <2>1, RingOverKeeps
  <2> HIDE DEF c, f
  <2>3. Keeps(v, f) BY <1>5, <2>2, KeepsTransitive
  <2>4. Lets(v, f, {}) BY <2>3 DEF Lets, Keeps
  <2> QED BY <1>6, <2>2, <2>4
<1>8. CASE e.kind = "limbo" /\ c.legs[e.at].leaving
  <2>1. d = Evict(c, e.at) BY <1>8 DEF Limbo
  <2>2. e.at \in InUse(v) /\ e.at \in Id BY <1>1, <1>8 DEF InUse
  <2> HIDE DEF c
  <2>3. /\ d \in Model  /\ d.absent = c.absent
        /\ d.legs = [c.legs EXCEPT ![e.at] = NoLeg]
        /\ \A o \in Id \ {e.at} : d.gen[o] = c.gen[o]
    BY <1>4, <2>1, <2>2, EvictType
  <2>4. f \in Model /\ Keeps(d, f)
    <3> HIDE DEF d
    <3> QED BY <2>3, RingOverKeeps
  <2>5. f.legs = d.legs /\ f.absent = d.absent /\ f.gen = d.gen
    <3> HIDE DEF d
    <3> QED BY <2>3 DEF RingOver, Model
  <2> HIDE DEF d, f
  <2>6. c.legs \in [Id -> Leg] BY <1>4 DEF Model
  <2>7. f.legs[e.at] = NoLeg /\ \A o \in Id \ {e.at} : f.legs[o] = c.legs[o]
    BY <2>2, <2>3, <2>5, <2>6
  <2>8. Lets(v, f, {e.at})
    BY <1>5, <2>3, <2>5, <2>7 DEF Lets, Keeps, Gone, NoLeg
  <2> QED BY <1>6, <2>2, <2>4, <2>8
<1> QED BY <1>7, <1>8

LEMMA FrameType ==
    ASSUME NEW v \in Model, NEW active \in SUBSET Id, NEW held \in SUBSET Id
    PROVE  Frame(v, active, held) \in Shown
<1> DEFINE up == active \cup held # {}
           id == CHOOSE x \in IF active # {} THEN active ELSE held : TRUE
           waiting == \/ \E st \in {"WAITING", "INCOMING"} : Stays(v, st) \cup Leaves(v, st) # {}
                      \/ v.mt.active
<1>1. up => id \in Id OBVIOUS
<1>2. waiting \in BOOLEAN BY DEF Model
<1> DEFINE hold == active = {}
           second == active # {} /\ held # {}
<1>3. hold \in BOOLEAN /\ second \in BOOLEAN OBVIOUS
<1>4. \/ Frame(v, active, held) \in
           {Idle, [Idle EXCEPT !.state = "ANSWERING"], [Idle EXCEPT !.state = "RINGING", !.ring = TRUE],
            [Idle EXCEPT !.state = "DIALING"]}
      \/ up /\ Frame(v, active, held) = [Idle EXCEPT !.state = "DIALING", !.id = id]
      \/ /\ up
         /\ Frame(v, active, held) =
              [state |-> "ACTIVE", id |-> id, hold |-> hold,
               second |-> second, waiting |-> waiting, ring |-> waiting]
  BY DEF Frame
<1> DEFINE calls1 == [Idle EXCEPT !.state = "DIALING", !.id = id]
           calls2 == [state |-> "ACTIVE", id |-> id, hold |-> hold,
                      second |-> second, waiting |-> waiting, ring |-> waiting]
<1> HIDE DEF up, id, waiting, hold, second
<1>5. up => calls1 \in Shown BY <1>1 DEF Idle, Shown
<1>6. up => calls2 \in Shown BY <1>1, <1>2, <1>3 DEF Shown
<1>7. /\ Idle \in Shown
      /\ [Idle EXCEPT !.state = "ANSWERING"] \in Shown
      /\ [Idle EXCEPT !.state = "RINGING", !.ring = TRUE] \in Shown
      /\ [Idle EXCEPT !.state = "DIALING"] \in Shown
  BY DEF Idle, Shown
<1> HIDE DEF calls1, calls2
<1> QED BY <1>4, <1>5, <1>6, <1>7 DEF calls1, calls2

LEMMA PublishKeeps ==
    ASSUME NEW v \in Model, NEW frame \in Shown
    PROVE  Publish(v, frame) \in Model /\ Keeps(v, Publish(v, frame))
<1> DEFINE new(id) == IF id \in InUse(v) /\ Steady(v, id)
                      THEN [v.legs[id] EXCEPT !.role = v.legs[id].state] ELSE v.legs[id]
           L == [id \in Id |-> new(id)]
           w == [v EXCEPT !.shown = frame, !.legs = L]
<1>1. \A id \in Id : v.legs[id] \in Leg BY DEF Model
<1>2. \A id \in Id : new(id) \in Leg /\ KeptLeg(v.legs[id], new(id)) BY <1>1 DEF Leg, KeptLeg
<1>3. L \in [Id -> Leg] /\ \A id \in Id : KeptLeg(v.legs[id], L[id])
  <2> HIDE DEF new
  <2> QED BY <1>2
<1>4. w \in Model /\ Keeps(v, w)
  <2> HIDE DEF L
  <2> QED BY <1>3 DEF Model, Keeps
<1>5. Publish(v, frame) \in {v, w} BY DEF Publish
<1> HIDE DEF w
<1> QED BY <1>4, <1>5, KeepsItself

LEMMA ProjectKeeps ==
    ASSUME NEW v \in Model
    PROVE  Project(v) \in Model /\ Keeps(v, Project(v))
<1>1. Holders(v, "ACTIVE") \in SUBSET Id /\ Holders(v, "HELD") \in SUBSET Id
  BY DEF Holders, Stays, Leaves, InUse
<1>2. \A a, h \in SUBSET Id : ProjectAs(v, a, h) \in Model /\ Keeps(v, ProjectAs(v, a, h))
  BY FrameType, PublishKeeps, KeepsItself DEF ProjectAs
<1> QED BY <1>1, <1>2 DEF Project

----------------------------------------------------------------------------
(* The listing.                                                            *)

Distinct(v) == \A id, o \in InUse(v) : id # o => v.legs[id].slot # v.legs[o].slot

LEMMA LetsDistinct ==
    ASSUME NEW v \in Model, NEW w \in Model, NEW ids \in SUBSET Id, Lets(v, w, ids), Distinct(v)
    PROVE  Distinct(w)
BY DEF Lets, KeptLeg, Gone, Distinct, InUse

LEMMA FreeLegSlotIsFree ==
    ASSUME NEW v \in Model, NEW id \in Id, v.legs[id].state = "FREE"
    PROVE  /\ FreeLegSlot(v) \in 1..Cardinality(Id)
           /\ \A o \in InUse(v) : v.legs[o].slot # FreeLegSlot(v)
<1> DEFINE n == Cardinality(Id)
           T == {k \in 1..n : \A o \in InUse(v) : v.legs[o].slot # k}
           g == [o \in Id |-> v.legs[o].slot]
<1>1. n \in Nat /\ IsFiniteSet(Id) BY CallModelAssumption, FS_CardinalityType
<1>2. InUse(v) \in SUBSET Id /\ InUse(v) # Id BY DEF InUse
<1>3. IsFiniteSet(InUse(v)) /\ Cardinality(InUse(v)) \in Nat /\ Cardinality(InUse(v)) < n
  BY <1>1, <1>2, FS_Subset, FS_CardinalityType
<1>4. PICK k \in 1..n : \A o \in InUse(v) : g[o] # k
  <2> HIDE DEF g, n
  <2> QED BY <1>1, <1>3, UnusedMark
<1>5. \A o \in InUse(v) : g[o] = v.legs[o].slot BY <1>2
<1>9. \A o \in InUse(v) : v.legs[o].slot # k BY <1>4, <1>5
<1> HIDE DEF g
<1>6. k \in T /\ T \in SUBSET Nat BY <1>1, <1>9
<1>7. Min(T) \in T
  <2> HIDE DEF T
  <2> QED BY <1>6, LeastNat
<1>8. FreeLegSlot(v) = Min(T) BY DEF FreeLegSlot
<1> QED BY <1>7, <1>8

LEMMA BindEpisodeKeeps ==
    ASSUME NEW v \in Model, NEW id \in Id
    PROVE  /\ BindEpisode(v, id) \in Model  /\ Keeps(v, BindEpisode(v, id))
           /\ BindEpisode(v, id).legs = v.legs
<1> DEFINE r == Ref(v, id)
           sets(S) == [s \in Slot |-> IF s \in S THEN [v.txns[s] EXCEPT !.leg = r] ELSE v.txns[s]]
           mts(S) == [v.mt EXCEPT !.leg = IF S # {} /\ v.legs[id].state = "ACTIVE" THEN r ELSE @]
           new(S) == [v EXCEPT !.txns = sets(S), !.mt = mts(S)]
<1>1. r \in Refs BY References
<1>2. \A S : sets(S) \in [Slot -> Txn]
  <2> HIDE DEF r
  <2> QED BY <1>1, SlotTxn DEF Txn
<1>3. \A S : mts(S) \in MtType
  <2> HIDE DEF r
  <2> QED BY <1>1, MtOf DEF MtType
<1>4. \A S : new(S) \in Model /\ Keeps(v, new(S)) /\ new(S).legs = v.legs
  <2> HIDE DEF sets, mts
  <2>1. \A ts \in [Slot -> Txn] : \A mt \in MtType : LET w == [v EXCEPT !.txns = ts, !.mt = mt] IN
          w \in Model /\ Keeps(v, w) /\ w.legs = v.legs
    BY DEF Model, MtType, Keeps, KeptLeg
  <2> QED BY <1>2, <1>3, <2>1
<1>5. BindEpisode(v, id) = v \/ \E S \in SUBSET Slot : BindEpisode(v, id) = new(S)
  <2>1. CASE ~v.mt.active BY <2>1 DEF BindEpisode
  <2>2. CASE v.mt.active
    <3> DEFINE leg == v.legs[id]
               up(t) == leg.state = "ACTIVE" /\ leg.dir # "MO" /\ r \notin t.baseline
               matches(s) == LET t == v.txns[s] IN
                   /\ t.kind # "NONE" /\ t.leg = NoRef
                   /\ t.episode # 0 /\ t.episode = v.mt.gen
                   /\ \/ t.tomb /\ t.kind \in {"ANSWER", "WAIT_ANSWER"} /\ up(t)
                      \/ /\ ~t.tomb /\ IsOpen(t)
                         /\ CASE t.kind = "ANSWER"      -> leg.state = "INCOMING" \/ up(t)
                              [] t.kind = "WAIT_ANSWER" -> leg.state = "WAITING" \/ up(t)
                              [] t.kind = "WAIT_REJECT" -> leg.state = "WAITING"
                              [] t.kind = "HANGUP"      -> \/ Ringing(v, id)
                                                           \/ leg.state = "ACTIVE" /\ leg.dir # "MO"
                              [] OTHER -> FALSE
               mine == {s \in Slot : matches(s)}
    <3>1. BindEpisode(v, id) = new(mine) BY <2>2 DEF BindEpisode
    <3>2. mine \in SUBSET Slot OBVIOUS
    <3> HIDE DEF mine, new
    <3> QED BY <3>1, <3>2
  <2> QED BY <2>1, <2>2
<1> HIDE DEF new
<1> QED BY <1>4, <1>5, KeepsItself

LEMMA TrackMtKeeps ==
    ASSUME NEW v \in Model, NEW id \in Id
    PROVE  /\ TrackMt(v, id) \in Model  /\ Keeps(v, TrackMt(v, id))
           /\ \A o \in Id \ {id} : TrackMt(v, id).legs[o] = v.legs[o]
<1> DEFINE w(mt) == [v EXCEPT !.mt = mt]
           d(mt) == [w(mt) EXCEPT !.legs[id].dir = "MT"]
           mt1 == [v.mt EXCEPT !.leg = Ref(v, id)]
<1>1. mt1 \in MtType /\ NoMt \in MtType BY References, MtOf, Constants DEF MtType
<1>2. \A mt \in MtType : w(mt) \in Model /\ Keeps(v, w(mt)) /\ w(mt).legs = v.legs
  BY MtReplaced DEF Model
<1>3. \A mt \in MtType : d(mt) \in Model /\ Keeps(w(mt), d(mt))
  <2> HIDE DEF w
  <2> QED BY <1>2, DirectionKnown
<1>4. \A mt \in MtType : \A o \in Id \ {id} : d(mt).legs[o] = v.legs[o]
  <2> HIDE DEF w
  <2> QED BY <1>2 DEF Model
<1>5. TrackMt(v, id) \in {v, d(mt1), d(NoMt)}
  <2>1. d(mt1) = [v EXCEPT !.mt.leg = Ref(v, id), !.legs[id].dir = "MT"] BY DEF Model
  <2>2. d(NoMt) = [v EXCEPT !.mt = NoMt, !.legs[id].dir = "MT"] BY DEF Model
  <2> HIDE DEF d, mt1
  <2> QED BY <2>1, <2>2 DEF TrackMt
<1> HIDE DEF w, d, mt1
<1> QED BY <1>1, <1>2, <1>3, <1>4, <1>5, KeepsItself, KeepsTransitive

(* A leg after a row for it has been read.                                 *)
Listed1(old, new, row) ==
    IF old.state = "FREE" THEN new.state # "FREE" /\ new.call = row.call ELSE KeptLeg(old, new)

LEMMA UpdatedType ==
    ASSUME NEW v \in Model, NEW id \in Id, NEW row \in Row, row.state # "FREE"
    PROVE  /\ Updated(v, v.legs[id], row) \in Leg
           /\ Listed1(v.legs[id], Updated(v, v.legs[id], row), row)
           /\ v.legs[id].state = "FREE" => Updated(v, v.legs[id], row).slot = FreeLegSlot(v)
<1> DEFINE old == v.legs[id]
           new == Updated(v, old, row)
<1>1. old \in Leg BY DEF Model
<1>2. Cardinality(Id) \in Nat BY CallModelAssumption, FS_CardinalityType
<1>3. CASE old.state = "FREE"
  <2>1. FreeLegSlot(v) \in 0..Cardinality(Id) BY <1>2, <1>3, FreeLegSlotIsFree
  <2>2. new = [NoLeg EXCEPT !.slot = FreeLegSlot(v), !.state = row.state,
                            !.dir = row.dir, !.call = row.call]
    BY <1>3 DEF Updated
  <2> QED BY <2>1, <2>2, <1>3, Constants DEF Listed1, Leg, Row, NoLeg
<1>4. CASE old.state = "RELEASING"
  <2>1. new = [old EXCEPT !.dir = row.dir] BY <1>4 DEF Updated
  <2> QED BY <2>1, <1>1, <1>4 DEF Listed1, KeptLeg, Leg, Row
<1>5. CASE old.state \notin {"FREE", "RELEASING"}
  <2>1. new = [old EXCEPT !.state = row.state, !.dir = row.dir, !.leaving = FALSE]
    BY <1>5 DEF Updated
  <2> QED BY <2>1, <1>1, <1>5 DEF Listed1, KeptLeg, Leg, Row
<1> QED BY <1>3, <1>4, <1>5

LEMMA TakeLegType ==
    ASSUME NEW v \in Model, NEW id \in Id, NEW leg \in Leg
    PROVE  /\ TakeLeg(v, id, leg) \in Model
           /\ TakeLeg(v, id, leg).legs = [v.legs EXCEPT ![id] = leg]
           /\ TakeLeg(v, id, leg).gen = v.gen  /\ TakeLeg(v, id, leg).absent = v.absent
<1> DEFINE L == [v.legs EXCEPT ![id] = leg]
           rev == IF leg.state = v.legs[id].state THEN v.revised ELSE Revise(v)
           w == [v EXCEPT !.legs = L, !.revised = rev]
<1>1. L \in [Id -> Leg] BY DEF Model
<1>2. rev \in BOOLEAN BY DEF Model, Revise
<1>3. TakeLeg(v, id, leg) = w BY DEF TakeLeg, Model
<1> HIDE DEF L, rev
<1>4. w \in Model /\ w.legs = L /\ w.gen = v.gen /\ w.absent = v.absent
  BY <1>1, <1>2 DEF Model
<1> QED BY <1>3, <1>4 DEF L

LEMMA MergeRowType ==
    ASSUME NEW v \in Model, NEW id \in Id, NEW row \in Row, row.state # "FREE"
    PROVE  /\ MergeRow(v, id, row) \in Model
           /\ MergeRow(v, id, row).gen = v.gen  /\ MergeRow(v, id, row).absent = v.absent
           /\ \A o \in Id \ {id} : MergeRow(v, id, row).legs[o] = v.legs[o]
           /\ Listed1(v.legs[id], MergeRow(v, id, row).legs[id], row)
           /\ Distinct(v) => Distinct(MergeRow(v, id, row))
<1> DEFINE leg == Updated(v, v.legs[id], row)
           a == TakeLeg(v, id, leg)
           b == BindEpisode(a, id)
           w == TrackMt(b, id)
<1>1. leg \in Leg /\ Listed1(v.legs[id], leg, row)
      /\ (v.legs[id].state = "FREE" => leg.slot = FreeLegSlot(v))
  BY UpdatedType
<1>2. /\ a \in Model  /\ a.gen = v.gen  /\ a.absent = v.absent
      /\ a.legs = [v.legs EXCEPT ![id] = leg]
  <2> HIDE DEF leg
  <2> QED BY <1>1, TakeLegType
<1>3. a.legs[id] = leg /\ \A o \in Id \ {id} : a.legs[o] = v.legs[o]
  <2> HIDE DEF leg, a
  <2> QED BY <1>2 DEF Model
<1>4. b \in Model /\ Keeps(a, b) /\ b.legs = a.legs
  <2> HIDE DEF a
  <2> QED BY <1>2, BindEpisodeKeeps
<1>5. w \in Model /\ Keeps(b, w) /\ \A o \in Id \ {id} : w.legs[o] = b.legs[o]
  <2> HIDE DEF b
  <2> QED BY <1>4, TrackMtKeeps
<1>6. MergeRow(v, id, row) = w BY DEF MergeRow
<1> HIDE DEF leg, a, b, w
<1>7. w.gen = v.gen /\ w.absent = v.absent BY <1>2, <1>4, <1>5 DEF Keeps
<1>8. \A o \in Id \ {id} : w.legs[o] = v.legs[o] BY <1>3, <1>4, <1>5
<1>9. KeptLeg(leg, w.legs[id]) BY <1>3, <1>4, <1>5 DEF Keeps
<1>10. Listed1(v.legs[id], w.legs[id], row) BY <1>1, <1>9 DEF Listed1, KeptLeg
<1>11. ASSUME Distinct(v)  PROVE Distinct(w)
  <2>1. \A o \in InUse(v) \ {id} : w.legs[id].slot # v.legs[o].slot
    <3>1. CASE v.legs[id].state = "FREE"
      <4>1. w.legs[id].slot = FreeLegSlot(v) BY <3>1, <1>1, <1>9 DEF KeptLeg
      <4> QED BY <4>1, <3>1, FreeLegSlotIsFree
    <3>2. CASE v.legs[id].state # "FREE"
      <4>1. w.legs[id].slot = v.legs[id].slot BY <3>2, <1>10 DEF Listed1, KeptLeg
      <4>2. id \in InUse(v) BY <3>2 DEF InUse
      <4> QED BY <4>1, <4>2, <1>11 DEF Distinct
    <3> QED BY <3>1, <3>2
  <2>2. \A o \in InUse(w) \ {id} : o \in InUse(v) /\ w.legs[o].slot = v.legs[o].slot
    BY <1>8 DEF InUse
  <2> QED BY <2>1, <2>2, <1>8, <1>11 DEF Distinct
<1> QED BY <1>5, <1>6, <1>7, <1>8, <1>10, <1>11

(* The legs after a listing was merged, and after some were removed.       *)
Merges(v, w, rows, ids) ==
    /\ w.gen = v.gen  /\ w.absent = v.absent
    /\ \A id \in Id : IF id \in ids THEN Listed1(v.legs[id], w.legs[id], rows[id])
                      ELSE KeptLeg(v.legs[id], w.legs[id])
    /\ Distinct(v) => Distinct(w)

LEMMA MergesAll ==
    ASSUME NEW v \in Model, NEW rows \in [Id -> Row]
    PROVE  /\ Merged(v, rows, Rows(rows)) \in Model
           /\ Merges(v, Merged(v, rows, Rows(rows)), rows, Rows(rows))
<1> DEFINE S == Rows(rows)
           c == [pass |-> "merge", rows |-> rows]
           Q == {q \in Model \X SUBSET S : Merges(v, q[1], rows, q[2])}
<1>1. S \in SUBSET Id BY DEF Rows
<1>2. IsFiniteSet(S) BY <1>1, CallModelAssumption, FS_Subset
<1>3. PICK f : IsFold(c, v, S, f) /\ Merged(v, rows, S) = f[S] BY <1>2, MergeFold
<1>4. c.pass = "merge" /\ c.rows = rows OBVIOUS
<1> HIDE DEF c
<1>5. Picks(c, S) BY <1>4, PickAny DEF Ascending
<1>6. <<v, {}>> \in Q BY DEF Merges, KeptLeg
<1>7. ASSUME NEW s \in SUBSET S, NEW id \in s, NEW u, <<u, s \ {id}>> \in Q
      PROVE  <<Do(c, id, u), s>> \in Q
  <2> DEFINE w == MergeRow(u, id, rows[id])
  <2>1. u \in Model /\ Merges(v, u, rows, s \ {id}) BY <1>7
  <2>2. id \in Id /\ rows[id] \in Row /\ rows[id].state # "FREE" BY <1>1 DEF Rows
  <2>3. Do(c, id, u) = w BY <1>4 DEF Do
  <2>4. /\ w \in Model  /\ w.gen = u.gen  /\ w.absent = u.absent
        /\ \A o \in Id \ {id} : w.legs[o] = u.legs[o]
        /\ Listed1(u.legs[id], w.legs[id], rows[id])
        /\ Distinct(u) => Distinct(w)
    BY <2>1, <2>2, MergeRowType
  <2> HIDE DEF w
  <2>5. KeptLeg(v.legs[id], u.legs[id]) BY <2>1, <2>2 DEF Merges
  <2>6. Listed1(v.legs[id], w.legs[id], rows[id]) BY <2>4, <2>5 DEF Listed1, KeptLeg
  <2>7. Merges(v, w, rows, s) BY <2>1, <2>4, <2>6 DEF Merges
  <2> QED BY <2>3, <2>4, <2>7
<1>8. <<f[S], S>> \in Q
  <2> HIDE DEF Q, S
  <2> QED BY <1>2, <1>3, <1>5, <1>6, <1>7, FoldInduction
<1> QED BY <1>3, <1>8

LEMMA EvictsAll ==
    ASSUME NEW v \in Model, NEW S \in SUBSET Id
    PROVE  EvictAll(v, S) \in Model /\ Lets(v, EvictAll(v, S), S)
<1> DEFINE c == [pass |-> "evict"]
           Q == {q \in Model \X SUBSET S : Lets(v, q[1], q[2])}
<1>2. IsFiniteSet(S) BY CallModelAssumption, FS_Subset
<1>3. PICK f : IsFold(c, v, S, f) /\ EvictAll(v, S) = f[S] BY <1>2, EvictFold
<1>4. c.pass = "evict" OBVIOUS
<1> HIDE DEF c
<1>5. Picks(c, S) BY <1>4, PickAny DEF Ascending
<1>6. <<v, {}>> \in Q BY DEF Lets, KeptLeg
<1>7. ASSUME NEW s \in SUBSET S, NEW id \in s, NEW u, <<u, s \ {id}>> \in Q
      PROVE  <<Do(c, id, u), s>> \in Q
  <2> DEFINE w == Evict(u, id)
  <2>1. u \in Model /\ Lets(v, u, s \ {id}) BY <1>7
  <2>2. id \in Id OBVIOUS
  <2>3. Do(c, id, u) = w BY <1>4 DEF Do
  <2>4. /\ w \in Model  /\ w.absent = u.absent  /\ w.legs = [u.legs EXCEPT ![id] = NoLeg]
        /\ \A o \in Id \ {id} : w.gen[o] = u.gen[o]
    BY <2>1, <2>2, EvictType
  <2> HIDE DEF w
  <2>5. w.legs[id] = NoLeg /\ \A o \in Id \ {id} : w.legs[o] = u.legs[o]
    BY <2>1, <2>2, <2>4 DEF Model
  <2>6. Lets(v, w, s) BY <2>1, <2>4, <2>5 DEF Lets, Gone, NoLeg
  <2> QED BY <2>3, <2>4, <2>6
<1>8. <<f[S], S>> \in Q
  <2> HIDE DEF Q
  <2> QED BY <1>2, <1>3, <1>5, <1>6, <1>7, FoldInduction
<1> QED BY <1>3, <1>8

(* Only legs that the listing before lacked as well are removed, and only  *)
(* legs that this listing lacks are armed.                                 *)
LEMMA RemoveAbsentLets ==
    ASSUME NEW v \in Model, NEW before, NEW gone \in SUBSET InUse(v)
    PROVE  /\ RemoveAbsent(v, before, gone) \in Model
           /\ LET w == RemoveAbsent(v, before, gone) IN
              /\ \A id \in Id : Ref(w, id) \in w.absent => id \in gone
              /\ \E ids \in SUBSET gone :
                    /\ \A id \in ids : Ref(v, id) \in v.absent /\ Gone(w.legs[id])
                    /\ \A id \in Id \ ids : w.gen[id] = v.gen[id] /\ KeptLeg(v.legs[id], w.legs[id])
<1> DEFINE refs == {Ref(v, id) : id \in gone}
           w == RemoveAbsent(v, before, gone)
           u == [v EXCEPT !.absent = {}, !.revised = FALSE]
           L == [id \in Id |-> IF id \in gone THEN [v.legs[id] EXCEPT !.leaving = TRUE] ELSE v.legs[id]]
           x == [v EXCEPT !.legs = L, !.absent = refs, !.revised = FALSE]
<1>1. gone \in SUBSET Id BY DEF InUse
<1>2. u \in Model /\ u.absent = {} /\ u.legs = v.legs /\ u.gen = v.gen BY DEF Model
<1>3. CASE gone = {}
  <2>1. w = u BY <1>3 DEF RemoveAbsent
  <2> HIDE DEF u, w
  <2>2. \A id \in Id : KeptLeg(v.legs[id], w.legs[id]) BY <2>1, <1>2 DEF KeptLeg
  <2> QED BY <2>1, <2>2, <1>2, <1>3 DEF w
<1>4. CASE gone # {} /\ refs = v.absent /\ ~before
  <2>1. w = EvictAll(u, gone) BY <1>4 DEF RemoveAbsent
  <2> HIDE DEF u, w
  <2>2. w \in Model /\ Lets(u, w, gone) BY <2>1, <1>1, <1>2, EvictsAll
  <2>3. w.absent = {} BY <2>2, <1>2 DEF Lets
  <2>4. \A id \in gone : Ref(v, id) \in v.absent /\ Gone(w.legs[id]) BY <2>2, <1>4 DEF Lets
  <2>5. \A id \in Id \ gone : w.gen[id] = v.gen[id] /\ KeptLeg(v.legs[id], w.legs[id])
    BY <2>2, <1>2 DEF Lets
  <2> HIDE DEF refs
  <2> QED BY <2>2, <2>3, <2>4, <2>5 DEF w
<1>5. CASE ~(gone = {}) /\ ~(gone # {} /\ refs = v.absent /\ ~before)
  <2>1. w = x BY <1>5 DEF RemoveAbsent
  <2>2. refs \in SUBSET Refs BY <1>1, References
  <2>3. L \in [Id -> Leg] /\ \A id \in Id : KeptLeg(v.legs[id], L[id])
    <3>1. v.legs \in [Id -> Leg] BY DEF Model
    <3> QED BY <3>1 DEF Leg, KeptLeg
  <2> HIDE DEF L, refs
  <2>4. x \in Model /\ x.legs = L /\ x.absent = refs /\ x.gen = v.gen BY <2>2, <2>3 DEF Model
  <2> HIDE DEF x, w
  <2>5. \A id \in Id : Ref(w, id) \in w.absent => id \in gone
    BY <2>1, <2>4, <1>1 DEF Ref, refs
  <2>6. \A id \in Id : w.gen[id] = v.gen[id] /\ KeptLeg(v.legs[id], w.legs[id])
    BY <2>1, <2>3, <2>4
  <2>7. \E ids \in SUBSET gone :
          /\ \A id \in ids : Ref(v, id) \in v.absent /\ Gone(w.legs[id])
          /\ \A id \in Id \ ids : w.gen[id] = v.gen[id] /\ KeptLeg(v.legs[id], w.legs[id])
    <3> WITNESS {} \in SUBSET gone
    <3> QED BY <2>6
  <2>8. w \in Model BY <2>1, <2>4
  <2> HIDE DEF x
  <2> QED BY <2>5, <2>7, <2>8 DEF w
<1> QED BY <1>3, <1>4, <1>5

(* What a step does to the legs: those in ids are gone, those of rows that *)
(* were not there are new, the others are kept.                            *)
Moves(v, w, rows, ids) ==
    /\ \A id \in ids : Gone(w.legs[id])
    /\ \A id \in Id \ ids :
          /\ w.gen[id] = v.gen[id]
          /\ IF id \in Rows(rows) THEN Listed1(v.legs[id], w.legs[id], rows[id])
             ELSE KeptLeg(v.legs[id], w.legs[id])

(* A listing removes only legs that it and the one before lack, and arms   *)
(* only legs that it lacks.                                                *)
Listing(v, w, rows, ids) ==
    /\ ids \subseteq InUse(v) \ Rows(rows)
    /\ \A id \in ids : Ref(v, id) \in v.absent
    /\ \A id \in InUse(w) : Ref(w, id) \in w.absent => id \notin Rows(rows)
    /\ Moves(v, w, rows, ids)
    /\ Distinct(v) => Distinct(w)

LEMMA ListingThenKeeps ==
    ASSUME NEW u, NEW v, NEW w, NEW rows, NEW ids, Listing(u, v, rows, ids), Keeps(v, w),
           u \in Model, v \in Model, w \in Model
    PROVE  Listing(u, w, rows, ids)
<1>1. InUse(w) = InUse(v) BY DEF Keeps, KeptLeg, InUse
<1>2. \A id \in Id : Ref(w, id) = Ref(v, id) BY DEF Keeps, Ref
<1>3. \A id \in InUse(w) : Ref(w, id) \in w.absent => id \notin Rows(rows)
  BY <1>1, <1>2 DEF Listing, Keeps, InUse
<1>4. Moves(u, w, rows, ids)
  <2>1. Moves(u, v, rows, ids) /\ ids \subseteq Id BY DEF Listing, InUse
  <2>2. \A id \in Id : KeptLeg(v.legs[id], w.legs[id]) /\ w.gen[id] = v.gen[id] BY DEF Keeps
  <2>3. \A id \in ids : Gone(w.legs[id]) BY <2>1, <2>2 DEF Moves, KeptLeg, Gone
  <2>4. ASSUME NEW id \in Id \ ids
        PROVE  /\ w.gen[id] = u.gen[id]
               /\ IF id \in Rows(rows) THEN Listed1(u.legs[id], w.legs[id], rows[id])
                  ELSE KeptLeg(u.legs[id], w.legs[id])
    BY <2>1, <2>2, <2>4 DEF Moves, KeptLeg, Listed1
  <2> QED BY <2>3, <2>4 DEF Moves
<1>5. Distinct(v) => Distinct(w) BY LetsDistinct, KeepsLets
<1> QED BY <1>3, <1>4, <1>5 DEF Listing

LEMMA CommitLists ==
    ASSUME NEW v \in Model, NEW rows \in [Id -> Row]
    PROVE  Commit(v, rows) \in Model /\ \E ids \in SUBSET Id : Listing(v, Commit(v, rows), rows, ids)
<1> DEFINE a == [v EXCEPT !.shadow = "closed"]
           b == Merged(a, rows, Rows(rows))
           c == MissMt(b)
           gone == InUse(c) \ Rows(rows)
           w == RemoveAbsent(c, v.revised, gone)
<1>1. a \in Model /\ Keeps(v, a) BY DEF Model, Keeps, KeptLeg
<1>2. b \in Model /\ Merges(a, b, rows, Rows(rows))
  <2> HIDE DEF a
  <2> QED BY <1>1, MergesAll
<1>3. c \in Model /\ Keeps(b, c)
  <2> HIDE DEF b
  <2> QED BY <1>2, MissMtKeeps
<1>4. Commit(v, rows) = w BY DEF Commit, NotListed, Merged
<1> HIDE DEF a, b, c
<1>5. gone \in SUBSET InUse(c) OBVIOUS
<1>6. /\ w \in Model
      /\ \A id \in Id : Ref(w, id) \in w.absent => id \in gone
      /\ \E ids \in SUBSET gone :
            /\ \A id \in ids : Ref(c, id) \in c.absent /\ Gone(w.legs[id])
            /\ \A id \in Id \ ids : w.gen[id] = c.gen[id] /\ KeptLeg(c.legs[id], w.legs[id])
  <2> HIDE DEF gone
  <2> QED BY <1>3, <1>5, RemoveAbsentLets
<1>7. PICK ids \in SUBSET gone :
            /\ \A id \in ids : Ref(c, id) \in c.absent /\ Gone(w.legs[id])
            /\ \A id \in Id \ ids : w.gen[id] = c.gen[id] /\ KeptLeg(c.legs[id], w.legs[id])
  BY <1>6
<1> HIDE DEF w
<1>8. c.gen = v.gen /\ c.absent = v.absent BY <1>1, <1>2, <1>3 DEF Keeps, Merges
<1>9. \A id \in Id : IF id \in Rows(rows) THEN Listed1(v.legs[id], c.legs[id], rows[id])
                     ELSE KeptLeg(v.legs[id], c.legs[id])
  BY <1>1, <1>2, <1>3 DEF Keeps, Merges, KeptLeg, Listed1
<1>10. ids \subseteq InUse(v) \ Rows(rows) /\ ids \subseteq Id BY <1>9 DEF InUse, KeptLeg
<1>11. \A id \in ids : Ref(v, id) \in v.absent BY <1>7, <1>8, <1>10 DEF Ref
<1>12. \A id \in InUse(w) : Ref(w, id) \in w.absent => id \notin Rows(rows) BY <1>6 DEF InUse
<1>13. Moves(v, w, rows, ids)
  <2>1. ASSUME NEW id \in Id \ ids
        PROVE  /\ w.gen[id] = v.gen[id]
               /\ IF id \in Rows(rows) THEN Listed1(v.legs[id], w.legs[id], rows[id])
                  ELSE KeptLeg(v.legs[id], w.legs[id])
    BY <1>7, <1>8, <1>9 DEF KeptLeg, Listed1
  <2> QED BY <1>7, <2>1 DEF Moves
<1>14. ASSUME Distinct(v)  PROVE Distinct(w)
  <2>1. Distinct(a) BY <1>14, <1>1, LetsDistinct, KeepsLets
  <2>2. Distinct(b) BY <2>1, <1>2 DEF Merges
  <2>3. Distinct(c) BY <2>2, <1>2, <1>3, LetsDistinct, KeepsLets
  <2>4. \A id \in InUse(w) : id \in InUse(c) /\ w.legs[id].slot = c.legs[id].slot
    BY <1>7 DEF InUse, Gone, KeptLeg
  <2> QED BY <2>3, <2>4 DEF Distinct
<1>15. Listing(v, w, rows, ids) BY <1>10, <1>11, <1>12, <1>13, <1>14 DEF Listing
<1> QED BY <1>4, <1>6, <1>10, <1>15

LEMMA ResolvedTypes ==
    ASSUME NEW v \in Model
    PROVE  /\ ForEach(v, ResolveNoLeg) \in Model      /\ Keeps(v, ForEach(v, ResolveNoLeg))
           /\ ForEach(v, ResolveTombstone) \in Model  /\ Keeps(v, ForEach(v, ResolveTombstone))
<1>1. \A t \in Txn : ResolveNoLeg(v, t) \in Txn BY DEF ResolveNoLeg, Txn
<1>2. ASSUME NEW t \in Txn  PROVE ResolveTombstone(v, t) \in Txn
  <2>1. ResolveTombstone(v, t) \in {t, [t EXCEPT !.cleaned = TRUE]} BY DEF ResolveTombstone
  <2>2. [t EXCEPT !.cleaned = TRUE] \in Txn BY DEF Txn
  <2> QED BY <2>1, <2>2
<1>3. [s \in Slot |-> ResolveNoLeg(v, v.txns[s])] \in [Slot -> Txn] BY <1>1, SlotTxn
<1>4. [s \in Slot |-> ResolveTombstone(v, v.txns[s])] \in [Slot -> Txn] BY <1>2, SlotTxn
<1> QED BY <1>3, <1>4, TxnsReplaced DEF ForEach

LEMMA ClccOkLists ==
    ASSUME NEW v \in Model, NEW rows \in [Id -> Row]
    PROVE  /\ ClccOk(v, rows) \in Model
           /\ \/ Keeps(v, ClccOk(v, rows))
              \/ \E ids \in SUBSET Id : Listing(v, ClccOk(v, rows), rows, ids)
<1> DEFINE a == Commit(v, rows)
           b == Reconcile(a, {})
           c == ForEach(b, ResolveNoLeg)
           d == ForEach(c, ResolveTombstone)
<1>1. CASE v.shadow # "open"
  <2>1. ClccOk(v, rows) = ClccError(v) BY <1>1 DEF ClccOk, ClccError
  <2> QED BY <2>1, ListingKeeps
<1>2. CASE v.shadow = "open"
  <2>1. ClccOk(v, rows) = d BY <1>2 DEF ClccOk
  <2>2. a \in Model /\ \E ids \in SUBSET Id : Listing(v, a, rows, ids) BY CommitLists
  <2> HIDE DEF a
  <2>3. b \in Model /\ Keeps(a, b) BY <2>2, ReconcileKeeps
  <2> HIDE DEF b
  <2>4. c \in Model /\ Keeps(b, c) BY <2>3, ResolvedTypes
  <2> HIDE DEF c
  <2>5. d \in Model /\ Keeps(c, d) BY <2>4, ResolvedTypes
  <2> HIDE DEF d
  <2>6. Keeps(a, d) BY <2>3, <2>4, <2>5, KeepsTransitive
  <2> QED BY <2>1, <2>2, <2>5, <2>6, ListingThenKeeps
<1> QED BY <1>1, <1>2

----------------------------------------------------------------------------
(* The network.                                                            *)

Rowed == [Id -> Row]

(* The calls of n and no other, whatever became of them.                   *)
SameCalls(n, k) ==
    k \in Rowed /\ \A id \in Id : /\ k[id].state = "FREE" <=> n[id].state = "FREE"
                                  /\ k[id].call = n[id].call

LEMMA PutSame ==
    ASSUME NEW n \in Rowed, NEW S \in SUBSET Busy(n), NEW st \in OnAir \ {"FREE"}
    PROVE  SameCalls(n, Put(n, S, st))
<1> DEFINE new(id) == IF id \in S THEN [n[id] EXCEPT !.state = st] ELSE n[id]
<1>1. \A id \in Id : n[id] \in Row BY DEF Rowed
<1>2. \A id \in Id : new(id) \in Row BY <1>1 DEF Row
<1>3. \A id \in Id : /\ new(id).state = "FREE" <=> n[id].state = "FREE"
                     /\ new(id).call = n[id].call
  BY <1>1 DEF Row, Busy
<1>4. Put(n, S, st) = [id \in Id |-> new(id)] BY DEF Put
<1> HIDE DEF new
<1> QED BY <1>2, <1>3, <1>4 DEF SameCalls, Rowed

LEMMA RealertSame ==
    ASSUME NEW n \in Rowed
    PROVE  SameCalls(n, Realert(n))
<1>1. On(n, "WAITING") \in SUBSET Busy(n) BY DEF On, Busy
<1>2. SameCalls(n, n) BY DEF SameCalls
<1>3. SameCalls(n, Put(n, On(n, "WAITING"), "INCOMING")) BY <1>1, PutSame DEF OnAir
<1> QED BY <1>2, <1>3 DEF Realert

LEMMA SameTransitive ==
    ASSUME NEW n, NEW k, NEW l, SameCalls(n, k), SameCalls(k, l)
    PROVE  SameCalls(n, l)
BY DEF SameCalls

(* Some calls end, the others go on.                                       *)
Ending(n, S, k) ==
    k \in Rowed /\ \A id \in Id : IF id \in S THEN k[id].state = "FREE"
                                  ELSE /\ k[id].state = "FREE" <=> n[id].state = "FREE"
                                       /\ k[id].call = n[id].call

LEMMA DropEnds ==
    ASSUME NEW n \in Rowed, NEW S \in SUBSET Id
    PROVE  Ending(n, S, Drop(n, S))
<1> DEFINE k == [id \in Id |-> IF id \in S THEN NoRow ELSE n[id]]
<1>1. NoRow \in Row BY DEF NoRow, Row, OnAir, Dirs
<1>2. k \in Rowed BY <1>1 DEF Rowed
<1>3. Ending(n, S, k) BY <1>2 DEF Ending, NoRow
<1>4. Drop(n, S) = Realert(k) BY DEF Drop
<1> HIDE DEF k
<1>5. SameCalls(k, Realert(k)) BY <1>2, RealertSame
<1> QED BY <1>3, <1>4, <1>5 DEF Ending, SameCalls

(* The network's part of a step: calls go on or end, and one may be new.   *)
NetMoves(new) ==
    /\ net' \in Rowed  /\ calls' \in Seq(Nat)
    /\ Len(calls) <= Len(calls')  /\ Len(calls') <= MaxCalls
    /\ \A id, o \in new : id = o
    /\ \A id \in Busy(net') :
          IF id \in new THEN Len(calls') = Len(calls) + 1 /\ net'[id].call = Len(calls) + 1
          ELSE id \in Busy(net) /\ net'[id].call = net[id].call

NetType == net \in Rowed /\ calls \in Seq(Nat) /\ Len(calls) <= MaxCalls

LEMMA SpareLeast == Spare # {} => Min(Spare) \in Spare /\ Spare \in SUBSET Id
<1>1. Spare \in SUBSET Nat /\ Spare \in SUBSET Id BY CallModelAssumption DEF Spare
<1> QED BY <1>1, LeastNat

LEMMA EndingMoves ==
    ASSUME NetType, NEW S, Ending(net, S, net'), calls' = calls
    PROVE  NetMoves({})
BY DEF NetType, Ending, NetMoves, Busy

LEMMA SameMoves ==
    ASSUME NetType, SameCalls(net, net'), calls' = calls
    PROVE  NetMoves({})
BY DEF NetType, SameCalls, NetMoves, Busy

LEMMA StillMoves ==
    ASSUME NetType, UNCHANGED <<net, calls>>
    PROVE  NetMoves({})
BY SameMoves DEF SameCalls, NetType

LEMMA NewCallMoves ==
    ASSUME NetType, Spare # {}, Len(calls) < MaxCalls,
           NEW n, SameCalls(net, n), NEW st \in OnAir \ {"FREE"}, NEW dir \in Dirs,
           net' = NewCall(n, st, dir), NEW tok \in Nat, calls' = Append(calls, tok)
    PROVE  NetMoves({Min(Spare)})
<1> DEFINE x == Min(Spare)
           row == [state |-> st, dir |-> dir, call |-> Len(calls) + 1]
<1>1. x \in Spare /\ x \in Id BY SpareLeast
<1> HIDE DEF x
<1>2. Len(calls) \in Nat /\ calls \in Seq(Nat) BY DEF NetType
<1>3. row \in Row BY <1>2 DEF Row
<1>4. net' = [n EXCEPT ![x] = row] BY DEF NewCall, x
<1>5. n \in [Id -> Row] BY DEF SameCalls, Rowed
<1> HIDE DEF row
<1>6. net' \in Rowed /\ net'[x] = row /\ \A id \in Id \ {x} : net'[id] = n[id]
  BY <1>1, <1>3, <1>4, <1>5 DEF Rowed
<1>7. calls' \in Seq(Nat) /\ Len(calls') = Len(calls) + 1 BY <1>2
<1>8. Len(calls') <= MaxCalls BY <1>2, <1>7, CallServiceAssumption
<1>9. \A id \in Busy(net') \ {x} : id \in Busy(net) /\ net'[id].call = net[id].call
  BY <1>6 DEF Busy, SameCalls
<1>10. net'[x].call = Len(calls) + 1 BY <1>6 DEF row
<1> QED BY <1>2, <1>6, <1>7, <1>8, <1>9, <1>10 DEF NetMoves, x

LEMMA OnBusy == \A n, st : st # "FREE" => On(n, st) \in SUBSET Busy(n)  BY DEF On, Busy

LEMMA PutsMove ==
    ASSUME NetType, NEW S \in SUBSET Busy(net), NEW T \in SUBSET Busy(net),
           NEW st \in OnAir \ {"FREE"}, NEW st2 \in OnAir \ {"FREE"}
    PROVE  /\ SameCalls(net, Put(net, S, st))
           /\ SameCalls(net, Put(Put(net, S, st), T, st2))
<1> DEFINE n == Put(net, S, st)
<1>1. SameCalls(net, n) BY PutSame DEF NetType
<1>2. n \in Rowed /\ Busy(n) = Busy(net) BY <1>1 DEF SameCalls, Busy
<1> HIDE DEF n
<1>3. SameCalls(n, Put(n, T, st2)) BY <1>2, PutSame
<1> QED BY <1>1, <1>3, SameTransitive DEF n

(* What a command does leaves the calls it does not end as they are.       *)
LEMMA EffectMoves ==
    ASSUME NetType, NEW c \in Command, c.kind # "NONE",
           net' = Effect(c).net,
           calls' = IF c.kind = "DIAL" /\ Effect(c).ok THEN Append(calls, c.token) ELSE calls
    PROVE  \E new \in SUBSET Spare : NetMoves(new)
<1> DEFINE up == On(net, "ACTIVE")     held == On(net, "HELD")
           wt == On(net, "WAITING")    out  == On(net, "DIALING")
           inc == On(net, "INCOMING")  fg   == up \cup out
<1>1. SUFFICES \/ \E S : Ending(net, S, net') /\ calls' = calls
               \/ SameCalls(net, net') /\ calls' = calls
               \/ Spare # {} /\ NetMoves({Min(Spare)})
  <2>1. NetMoves({}) => \E new \in SUBSET Spare : NetMoves(new) OBVIOUS
  <2>2. CASE NetMoves({Min(Spare)}) /\ Spare # {}
    <3>1. Min(Spare) \in Spare BY <2>2, SpareLeast
    <3> QED BY <2>2, <3>1
  <2> QED BY <2>1, <2>2, EndingMoves, SameMoves
<1>2. SameCalls(net, net) BY DEF SameCalls, NetType
<1>3. /\ up \in SUBSET Busy(net)  /\ held \in SUBSET Busy(net)  /\ wt \in SUBSET Busy(net)
      /\ out \in SUBSET Busy(net)  /\ inc \in SUBSET Busy(net)  /\ fg \in SUBSET Busy(net)
  BY OnBusy
<1>4. Busy(net) \in SUBSET Id BY DEF Busy
<1>5. {"ACTIVE", "HELD", "DIALING", "INCOMING"} \subseteq OnAir \ {"FREE"} BY DEF OnAir
<1>6. net \in Rowed BY DEF NetType
<1>7. CASE Effect(c) = Refused /\ c.kind # "DIAL"
  <2>1. net' = net /\ calls' = calls BY <1>7 DEF Refused
  <2> QED BY <2>1, <1>2
<1>8. CASE c.kind = "CLCC"
  <2>1. net' = net /\ calls' = calls BY <1>8 DEF Effect, Done
  <2> QED BY <2>1, <1>2
<1>9. CASE c.kind = "DIAL"
  <2> DEFINE no == Spare = {} \/ Len(calls) = MaxCalls \/ out \cup wt \cup inc # {}
                   \/ (up # {} /\ held # {})
  <2>1. CASE no
    <3>1. Effect(c) = Refused BY <1>9, <2>1 DEF Effect
    <3>2. net' = net /\ calls' = calls BY <3>1 DEF Refused
    <3> QED BY <3>2, <1>2
  <2>2. CASE ~no
    <3> DEFINE n == Put(net, up, "HELD")
    <3>1. Effect(c) = Done(NewCall(n, "DIALING", "MO")) BY <1>9, <2>2 DEF Effect
    <3>2. net' = NewCall(n, "DIALING", "MO") /\ calls' = Append(calls, c.token)
      BY <3>1, <1>9 DEF Done
    <3>3. SameCalls(net, n) BY <1>3, <1>5, PutsMove
    <3>4. Len(calls) < MaxCalls BY <2>2, CallServiceAssumption DEF NetType
    <3>5. c.token \in Nat BY DEF Command
    <3>6. "DIALING" \in OnAir \ {"FREE"} /\ "MO" \in Dirs BY DEF OnAir, Dirs
    <3>7. Spare # {} BY <2>2
    <3> HIDE DEF n
    <3> QED BY <3>2, <3>3, <3>4, <3>5, <3>6, <3>7, NewCallMoves
  <2> QED BY <2>1, <2>2
<1>10. CASE c.kind = "ANSWER"
  <2>1. Effect(c) = Refused \/ Effect(c) = Done(Put(net, inc, "ACTIVE")) BY <1>10 DEF Effect
  <2>2. CASE Effect(c) = Done(Put(net, inc, "ACTIVE"))
    <3>1. net' = Put(net, inc, "ACTIVE") /\ calls' = calls BY <2>2, <1>10 DEF Done
    <3> QED BY <3>1, <1>3, <1>5, PutsMove
  <2> QED BY <2>1, <2>2, <1>7, <1>10
<1>11. CASE c.kind = "HANGUP"
  <2>1. net' = Drop(net, Id) /\ calls' = calls BY <1>11 DEF Effect, Done
  <2> QED BY <2>1, <1>6, DropEnds
<1>12. CASE c.kind \in {"HOLD", "SWAP", "WAIT_ANSWER"}
  <2> DEFINE T == IF wt # {} THEN wt ELSE held
  <2>1. Effect(c) = Refused \/ Effect(c) = Done(Put(Put(net, up, "HELD"), T, "ACTIVE"))
    BY <1>12 DEF Effect
  <2>2. T \in SUBSET Busy(net) BY <1>3
  <2>3. CASE Effect(c) = Done(Put(Put(net, up, "HELD"), T, "ACTIVE"))
    <3>1. net' = Put(Put(net, up, "HELD"), T, "ACTIVE") /\ calls' = calls
      BY <2>3, <1>12 DEF Done
    <3> HIDE DEF T
    <3> QED BY <3>1, <1>3, <1>5, <2>2, PutsMove
  <2> QED BY <2>1, <2>3, <1>7, <1>12
<1>13. CASE c.kind = "WAIT_REJECT"
  <2> DEFINE T == IF wt # {} THEN wt ELSE held
  <2>1. Effect(c) = Refused \/ Effect(c) = Done(Drop(net, T)) BY <1>13 DEF Effect
  <2>2. T \in SUBSET Id BY <1>3, <1>4
  <2>3. CASE Effect(c) = Done(Drop(net, T))
    <3>1. net' = Drop(net, T) /\ calls' = calls BY <2>3, <1>13 DEF Done
    <3> HIDE DEF T
    <3> QED BY <3>1, <2>2, <1>6, DropEnds
  <2> QED BY <2>1, <2>3, <1>7, <1>13
<1>14. CASE c.kind = "RELEASE_ACTIVE"
  <2> DEFINE T == IF wt # {} THEN wt ELSE held
             n == Drop(net, fg)
  <2>1. Effect(c) = Refused \/ Effect(c) = Done(Put(n, T, "ACTIVE")) BY <1>14 DEF Effect
  <2>2. T \in SUBSET Busy(net) /\ T \cap fg = {} BY <1>3 DEF On
  <2>3. fg \in SUBSET Id BY <1>3, <1>4
  <2>4. Ending(net, fg, n)
    <3> HIDE DEF fg
    <3> QED BY <2>3, <1>6, DropEnds
  <2> HIDE DEF T, n, fg
  <2>5. n \in Rowed /\ T \in SUBSET Busy(n) BY <2>2, <2>4 DEF Ending, Busy
  <2>6. CASE Effect(c) = Done(Put(n, T, "ACTIVE"))
    <3>1. net' = Put(n, T, "ACTIVE") /\ calls' = calls BY <2>6, <1>14 DEF Done
    <3>2. SameCalls(n, net') BY <3>1, <2>5, <1>5, PutSame
    <3>3. Ending(net, fg, net') BY <3>2, <2>4 DEF Ending, SameCalls
    <3> QED BY <3>1, <3>3
  <2> QED BY <2>1, <2>6, <1>7, <1>14
<1>15. CASE c.kind = "RELEASE_LEG"
  <2>1. \/ Effect(c) = Refused
        \/ c.at \in fg \cup held /\ Effect(c) = Done(Drop(net, {c.at}))
    BY <1>15 DEF Effect
  <2>2. CASE c.at \in fg \cup held /\ Effect(c) = Done(Drop(net, {c.at}))
    <3>1. net' = Drop(net, {c.at}) /\ calls' = calls BY <2>2, <1>15 DEF Done
    <3>2. {c.at} \in SUBSET Id BY <2>2, <1>3, <1>4
    <3> QED BY <3>1, <3>2, <1>6, DropEnds
  <2> QED BY <2>1, <2>2, <1>7, <1>15
<1> HIDE DEF up, held, wt, out, inc, fg
<1>16. c.kind \in Ops \ {"NONE"} BY DEF Command
<1> QED BY <1>16, <1>8, <1>9, <1>10, <1>11, <1>12, <1>13, <1>14, <1>15 DEF Ops

----------------------------------------------------------------------------
(* The service.                                                            *)

LEMMA CommandOf ==
    ASSUME NEW k \in Ops, NEW tok \in Nat, NEW at \in Id \cup {0}
    PROVE  Cmd(k, tok, at) \in Command /\ Cmd(k, tok, at).kind = k
BY DEF Cmd, Command

LEMMA SilenceType == Silence \in Command /\ Silence.kind = "NONE"
  BY DEF Silence, Command, Ops

LEMMA CancelTokenKeeps ==
    ASSUME NEW v \in Model, NEW tok
    PROVE  CancelToken(v, tok) \in Model /\ Keeps(v, CancelToken(v, tok))
<1> DEFINE mine == {s \in SlotOf(v, tok) :
                       LET t == v.txns[s] IN
                       /\ t.kind \in {"RELEASE_ACTIVE", "RELEASE_LEG"} /\ t.state = "PENDING"
                       /\ Has(v, t.leg) /\ v.legs[t.leg.id].leaving}
           s == CHOOSE x \in mine : TRUE
           t == v.txns[s]
           u == Cancel(v, tok)
<1>1. u \in Model /\ Keeps(v, u) BY CancelKeeps
<1>2. CASE mine = {}
  <2>1. CancelToken(v, tok) = u BY <1>2 DEF CancelToken
  <2> QED BY <2>1, <1>1
<1>3. CASE mine # {}
  <2>1. s \in Slot BY <1>3 DEF SlotOf
  <2>2. CancelToken(v, tok) = QueueRelease(u, t.leg, t.kind = "RELEASE_ACTIVE")
    BY <1>3 DEF CancelToken
  <2> DEFINE b == t.kind = "RELEASE_ACTIVE"
  <2>3. t.leg \in Refs /\ b \in BOOLEAN
    <3> HIDE DEF s
    <3> QED BY <2>1, SlotTxn DEF Txn
  <2> HIDE DEF u, s, b
  <2>4. QueueRelease(u, t.leg, b) \in Model /\ Keeps(u, QueueRelease(u, t.leg, b))
    BY <1>1, <2>3, QueueReleaseKeeps
  <2> QED BY <2>2, <2>4, <1>1, KeepsTransitive DEF b
<1> QED BY <1>2, <1>3

(* What writing or starting something gives: a table, and a command or     *)
(* none.                                                                   *)
Starting(v, r) ==
    /\ r.m \in Model  /\ Keeps(v, r.m)
    /\ r.cmd \in Command
    /\ r.cmd # Silence => r.cmd.kind # "NONE"

LEMMA SendStarts ==
    ASSUME NEW v \in Model, NEW c \in Command, c.kind # "NONE"
    PROVE  Starting(v, Send(v, c))
<1> DEFINE live == {s \in SlotOf(v, c.token) : ~IsTerminal(v.txns[s])}
           s == CHOOSE s \in live : TRUE
<1>1. CASE live = {}
  <2>1. Send(v, c) = [m |-> v, cmd |-> Silence] BY <1>1 DEF Send
  <2> QED BY <2>1, KeepsItself, SilenceType DEF Starting
<1>2. CASE live # {}
  <2> DEFINE g == Guard(v, v.txns[s])
  <2>1. s \in Slot BY <1>2 DEF SlotOf
  <2>2. Send(v, c) = [m |-> Dispatch(v, s, g), cmd |-> IF g = "SEND" THEN c ELSE Silence]
    BY <1>2 DEF Send, SendAs
  <2> HIDE DEF s, g
  <2> QED BY <2>1, <2>2, DispatchKeeps, SilenceType DEF Starting
<1> QED BY <1>1, <1>2

Queued == [leg : Refs, recover : BOOLEAN]

LEMMA RestKeeps ==
    ASSUME NEW v \in Model, NEW q \in Seq(Queued)
    PROVE  [v EXCEPT !.releases = q] \in Model /\ Keeps(v, [v EXCEPT !.releases = q])
BY DEF Model, Queued, Keeps, KeptLeg

LEMMA ReleaseStarts ==
    ASSUME NEW v \in Model, NEW rest \in Model, Keeps(v, rest), NEW r \in Queued
    PROVE  Starting(v, Release(v, rest, r))
<1> DEFINE kind == IF r.recover THEN "RELEASE_ACTIVE" ELSE "RELEASE_LEG"
           q == Request(rest, kind, r.leg.id, FALSE)
<1>1. r.leg \in Refs /\ r.recover \in BOOLEAN /\ r.leg.id \in Id \cup {0} BY DEF Queued, Refs
<1>2. kind \in Requests BY DEF Requests, Ops
<1>3. CASE r.recover /\ ~ReleaseReady(v, r.leg.id)
  <2>1. Release(v, rest, r) = [m |-> QueueRelease(rest, r.leg, r.recover), cmd |-> Silence]
    BY <1>3 DEF Release
  <2> QED BY <2>1, <1>1, QueueReleaseKeeps, KeepsTransitive, SilenceType DEF Starting
<1>4. CASE ~(r.recover /\ ~ReleaseReady(v, r.leg.id))
  <2>1. Release(v, rest, r) = Released(q, r, kind) BY <1>4 DEF Release
  <2>2. q.m \in Model /\ Keeps(rest, q.m) /\ q.token \in Nat
    <3> HIDE DEF kind
    <3> QED BY <1>1, <1>2, RequestKeeps
  <2>3. Keeps(v, q.m)
    <3> HIDE DEF q
    <3> QED BY <2>2, KeepsTransitive
  <2> HIDE DEF q, kind
  <2>4. CASE q.token = 0
    <3>1. Released(q, r, kind) = [m |-> QueueRelease(q.m, r.leg, r.recover), cmd |-> Silence]
      BY <2>4 DEF Released
    <3> QED BY <3>1, <2>1, <2>2, <2>3, <1>1, QueueReleaseKeeps, KeepsTransitive, SilenceType
         DEF Starting
  <2>5. CASE q.token # 0
    <3> DEFINE c == Cmd(kind, q.token, r.leg.id)
    <3>1. Released(q, r, kind) = Send(q.m, c) BY <2>5 DEF Released
    <3>2. c \in Command /\ c.kind # "NONE" BY <1>1, <1>2, <2>2, CommandOf DEF Requests
    <3> HIDE DEF c
    <3>3. Starting(q.m, Send(q.m, c)) BY <2>2, <3>2, SendStarts
    <3> QED BY <2>1, <3>1, <3>3, <2>3, KeepsTransitive DEF Starting
  <2> QED BY <2>4, <2>5
<1> QED BY <1>3, <1>4

LEMMA StartReleaseStarts ==
    ASSUME NEW v \in Model
    PROVE  Starting(v, StartRelease(v))
<1> DEFINE todo == {n \in DOMAIN v.releases : /\ Has(v, v.releases[n].leg)
                                              /\ ~Scheduled(v, v.releases[n].leg)}
           k == Min(todo)
<1>1. v.releases \in Seq(Queued) BY DEF Model, Queued
<1>2. StartRelease(v) = ReleaseFirst(v, todo) BY DEF StartRelease
<1>3. CASE todo = {}
  <2>1. StartRelease(v) = [m |-> [v EXCEPT !.releases = <<>>], cmd |-> Silence]
    BY <1>2, <1>3 DEF ReleaseFirst
  <2>2. <<>> \in Seq(Queued) OBVIOUS
  <2> DEFINE w == [v EXCEPT !.releases = <<>>]
  <2>3. w \in Model /\ Keeps(v, w) BY <2>2, RestKeeps
  <2> HIDE DEF w
  <2> QED BY <2>1, <2>3, SilenceType DEF Starting, w
<1>4. CASE todo # {}
  <2> DEFINE q == SubSeq(v.releases, k + 1, Len(v.releases))
             rest == [v EXCEPT !.releases = q]
             r == v.releases[k]
  <2>1. DOMAIN v.releases = 1..Len(v.releases) /\ Len(v.releases) \in Nat BY <1>1
  <2>2. todo \in SUBSET Nat BY <2>1
  <2>3. k \in todo
    <3> HIDE DEF todo
    <3> QED BY <2>2, <1>4, LeastNat
  <2>4. k \in 1..Len(v.releases) BY <2>1, <2>3
  <2>5. StartRelease(v) = Release(v, [v EXCEPT !.releases = SubSeq(@, k + 1, Len(@))], r)
    BY <1>2, <1>4 DEF ReleaseFirst
  <2> HIDE DEF todo, k
  <2>6. r \in Queued BY <1>1, <2>4
  <2>7. q \in Seq(Queued)
    <3> HIDE DEF Queued
    <3> QED BY <1>1, <2>1, <2>4
  <2>8. [v EXCEPT !.releases = SubSeq(@, k + 1, Len(@))] = rest BY DEF Model
  <2> HIDE DEF q
  <2>9. rest \in Model /\ Keeps(v, rest) BY <2>7, RestKeeps
  <2> HIDE DEF rest, r
  <2> QED BY <2>5, <2>6, <2>8, <2>9, ReleaseStarts
<1> QED BY <1>3, <1>4

LEMMA ServeKeeps ==
    ASSUME NEW v \in Model, Serve(v)
    PROVE  m' \in Model /\ Keeps(v, m')
<1>1. m' = Project(Tick(v, Calm)) BY DEF Serve
<1>2. Tick(v, Calm) \in Model /\ Keeps(v, Tick(v, Calm)) BY TickKeeps
<1> QED BY <1>1, <1>2, ProjectKeeps, KeepsTransitive

Asks == [kind : Requests, at : Id \cup {0}]

LEMMA OfferedType ==
    ASSUME m \in Model
    PROVE  Offered \in SUBSET Asks
<1> DEFINE no(k) == [kind |-> k, at |-> 0]
           leg == [kind |-> "RELEASE_LEG", at |-> m.shown.id]
<1>1. \A k \in Requests : no(k) \in Asks BY DEF Asks
<1>2. leg \in Asks
  <2>1. m.shown.id \in Id \cup {0} BY DEF Model, Shown
  <2> QED BY <2>1 DEF Asks, Requests, Ops
<1>3. Offered \subseteq {no("HANGUP"), no("DIAL"), no("ANSWER"), no("SWAP"), no("RELEASE_ACTIVE"),
                         no("HOLD"), no("WAIT_REJECT"), no("WAIT_ANSWER"), leg}
  <2>1. m.shown.state \in {"IDLE", "DIALING", "ANSWERING", "RINGING", "ACTIVE"}
    BY DEF Model, Shown
  <2>2. CASE OpenDials(m) # {} BY <2>2 DEF Offered
  <2>3. CASE OpenDials(m) = {} /\ m.shown.state = "ACTIVE" BY <2>3 DEF Offered
  <2>4. CASE OpenDials(m) = {} /\ m.shown.state # "ACTIVE" BY <2>1, <2>4 DEF Offered
  <2> QED BY <2>2, <2>3, <2>4
<1>4. {"HANGUP", "DIAL", "ANSWER", "SWAP", "RELEASE_ACTIVE", "HOLD", "WAIT_REJECT",
       "WAIT_ANSWER"} \subseteq Requests
  BY DEF Requests, Ops
<1> HIDE DEF no, leg
<1> QED BY <1>1, <1>2, <1>3, <1>4

QueueType == queue \in Seq(Command) /\ Len(queue) <= QueueLen
             /\ \A n \in DOMAIN queue : queue[n].kind # "NONE"

LEMMA QueueCallKeeps ==
    ASSUME m \in Model, QueueType, NEW kind \in Requests, NEW id \in Id \cup {0},
           QueueCall(kind, id)
    PROVE  m' \in Model /\ Keeps(m, m') /\ QueueType'
<1> DEFINE full == Len(queue) = QueueLen
           second == kind = "DIAL" /\ m.shown.id # 0
           r == Request(m, kind, id, second)
           c == Cmd(kind, r.token, id)
           block == \/ kind = "DIAL" /\ full
                    \/ CleanupBlocks(kind) /\ CleanupPending(m)
                    \/ kind = "HOLD" /\ ~HoldAvailable(m)
<1>1. CASE block
  <2>1. UNCHANGED <<m, queue>> BY <1>1 DEF QueueCall
  <2> QED BY <2>1, KeepsItself DEF QueueType
<1>2. CASE ~block
  <2>1. r.m \in Model /\ Keeps(m, r.m) /\ r.token \in Nat
    <3>1. second \in BOOLEAN OBVIOUS
    <3> HIDE DEF second
    <3> QED BY <3>1, RequestKeeps
  <2>2. \/ m' = r.m /\ UNCHANGED queue
        \/ ~full /\ m' = r.m /\ queue' = Append(queue, c)
        \/ /\ full  /\ m' = CancelToken(r.m, Last(queue).token)
           /\ queue' = <<c>> \o Front(queue)
        \/ ~full /\ m' = r.m /\ queue' = <<c>> \o queue
    <3>1. IF r.token = 0 THEN m' = r.m /\ UNCHANGED queue
          ELSE IF kind = "DIAL" THEN m' = r.m /\ queue' = Append(queue, c)
          ELSE IF full THEN /\ m' = CancelToken(r.m, Last(queue).token)
                            /\ queue' = <<c>> \o Front(queue)
          ELSE m' = r.m /\ queue' = <<c>> \o queue
      BY <1>2 DEF QueueCall
    <3> HIDE DEF r, c
    <3> QED BY <3>1, <1>2
  <2>3. c \in Command /\ c.kind # "NONE"
    <3> HIDE DEF r
    <3> QED BY <2>1, CommandOf DEF Requests
  <2> HIDE DEF r, c
  <2>4. m' \in Model /\ Keeps(m, m') BY <2>1, <2>2, CancelTokenKeeps, KeepsTransitive
  <2>5. queue \in Seq(Command) /\ Len(queue) \in Nat /\ Len(queue) <= QueueLen
        /\ DOMAIN queue = 1..Len(queue) /\ QueueLen \in Nat \ {0}
    BY CallServiceAssumption DEF QueueType
  <2>6. \A n \in 1..Len(queue) : queue[n] \in Command /\ queue[n].kind # "NONE"
    BY <2>5 DEF QueueType
  <2>12. ~full => Len(queue) + 1 <= QueueLen
    <3>1. \A a, b \in Nat : a <= b /\ a # b => a + 1 <= b OBVIOUS
    <3>2. Len(queue) \in Nat /\ QueueLen \in Nat /\ Len(queue) <= QueueLen BY <2>5
    <3> QED BY <3>1, <3>2
  <2>7. ASSUME queue' \in Seq(Command), Len(queue') <= QueueLen,
               \A n \in 1..Len(queue') : queue'[n].kind # "NONE"
        PROVE  QueueType'
    BY <2>7 DEF QueueType
  <2>8. CASE ~full /\ queue' = Append(queue, c)
    <3> DEFINE q == Append(queue, c)
    <3>1. q \in Seq(Command) /\ Len(q) = Len(queue) + 1
          /\ \A n \in 1..Len(q) : q[n] = IF n = Len(q) THEN c ELSE queue[n]
      BY <2>3, <2>5
    <3>0. queue' = q BY <2>8
    <3> HIDE DEF q
    <3>2. Len(q) <= QueueLen BY <3>1, <2>12, <2>8
    <3>3. ASSUME NEW n \in 1..Len(q)  PROVE q[n].kind # "NONE"
      <4>1. n = Len(q) \/ n \in 1..Len(queue) BY <3>1, <2>5
      <4> QED BY <4>1, <3>1, <2>3, <2>6
    <3> QED BY <3>0, <3>1, <3>2, <3>3, <2>4, <2>7
  <2>9. CASE ~full /\ queue' = <<c>> \o queue
    <3> DEFINE q == <<c>> \o queue
    <3>1. q \in Seq(Command) /\ Len(q) = Len(queue) + 1
          /\ \A n \in 1..Len(q) : q[n] = IF n = 1 THEN c ELSE queue[n - 1]
      BY <2>3, <2>5
    <3>0. queue' = q BY <2>9
    <3> HIDE DEF q
    <3>2. Len(q) <= QueueLen BY <3>1, <2>12, <2>9
    <3>3. ASSUME NEW n \in 1..Len(q)  PROVE q[n].kind # "NONE"
      <4>1. n = 1 \/ n - 1 \in 1..Len(queue) BY <3>1, <2>5
      <4> QED BY <4>1, <3>1, <2>3, <2>6
    <3> QED BY <3>0, <3>1, <3>2, <3>3, <2>4, <2>7
  <2>10. CASE full /\ queue' = <<c>> \o Front(queue)
    <3> DEFINE p == SubSeq(queue, 1, Len(queue) - 1)
               q == <<c>> \o p
    <3>1. p \in Seq(Command) /\ Len(p) = Len(queue) - 1
          /\ \A n \in 1..Len(p) : p[n] = queue[n]
      BY <2>5, <2>10
    <3>2. Front(queue) = p BY DEF Front
    <3> HIDE DEF p
    <3>3. q \in Seq(Command) /\ Len(q) = Len(p) + 1
          /\ \A n \in 1..Len(q) : q[n] = IF n = 1 THEN c ELSE p[n - 1]
      BY <2>3, <3>1
    <3>0. queue' = q BY <2>10, <3>2
    <3> HIDE DEF q
    <3>4. Len(q) <= QueueLen BY <3>1, <3>3, <2>5, <2>10
    <3>5. ASSUME NEW n \in 1..Len(q)  PROVE q[n].kind # "NONE"
      <4>1. n = 1 \/ (n - 1 \in 1..Len(p) /\ n - 1 \in 1..Len(queue)) BY <3>1, <3>3, <2>5
      <4> QED BY <4>1, <3>1, <3>3, <2>3, <2>6
    <3>6. q \in Seq(Command) BY <3>3
    <3> QED BY <3>0, <3>6, <3>4, <3>5, <2>4, <2>7
  <2>11. CASE UNCHANGED queue BY <2>4, <2>11 DEF QueueType
  <2> QED BY <2>2, <2>4, <2>8, <2>9, <2>10, <2>11
<1> QED BY <1>1, <1>2

----------------------------------------------------------------------------
(* The steps, and the invariant of the calls that were given up.           *)

(* What every step does, in the terms of the lemmas above.                 *)
ListingMoves(rows, ids) ==
    /\ Listing(m, m', rows, ids)
    /\ \A id \in Rows(rows) : id \in Busy(net) /\ rows[id].call = net[id].call
    /\ Rows(rows) # {} => net' = net
    /\ ~cut => net' = net
    /\ ~cut /\ ("miss" \in faults' => "miss" \in faults) => rows = net

TableMoves ==
    /\ m' \in Model
    /\ \/ \E ids \in SUBSET InUse(m) : Lets(m, m', ids)
       \/ \E rows \in Rowed, ids \in SUBSET Id : ListingMoves(rows, ids)

ServiceType ==
    /\ queue \in Seq(Command)  /\ Len(queue) <= QueueLen
    /\ wire \in Command  /\ owed \in Seq(Command)
    /\ asked \in 0..MaxAsked  /\ faults \subseteq Faults  /\ cut \in BOOLEAN

ServiceMoves == /\ ServiceType'  /\ Commands'
                /\ faults \subseteq faults'
                /\ cut => cut'

Moved == /\ TableMoves  /\ \E new \in SUBSET Spare : NetMoves(new)
         /\ ServiceMoves  /\ Note

LEMMA NetTypeOK == TypeOK => NetType  BY DEF TypeOK, NetType, Rowed

(* The legs after a step: the old ones, and new ones for calls listed.     *)
LEMMA LegOrigin ==
    ASSUME TypeOK, Calls, TableMoves
    PROVE  /\ \A id \in Id : m'.legs[id].state = "FREE" => m'.legs[id].call = 0
           /\ \A id \in InUse(m') :
                 \/ /\ id \in InUse(m)  /\ m'.legs[id].call = m.legs[id].call
                    /\ m'.gen[id] = m.gen[id]
                    /\ m.legs[id].state = "RELEASING" => m'.legs[id].state = "RELEASING"
                 \/ /\ id \notin InUse(m)  /\ id \in Busy(net)
                    /\ m'.legs[id].call = net[id].call  /\ net' = net
           /\ Distinct(m')
<1>0. m \in Model /\ m' \in Model /\ Distinct(m) BY DEF TypeOK, TableMoves, Distinct
<1>1. CASE \E ids \in SUBSET InUse(m) : Lets(m, m', ids)
  <2>1. PICK ids \in SUBSET InUse(m) : Lets(m, m', ids) BY <1>1
  <2>2. ids \in SUBSET Id BY DEF InUse
  <2>3. \A id \in Id : \/ Gone(m'.legs[id])
                       \/ m'.gen[id] = m.gen[id] /\ KeptLeg(m.legs[id], m'.legs[id])
    BY <2>1 DEF Lets
  <2>4. Distinct(m') BY <1>0, <2>1, <2>2, LetsDistinct
  <2> QED BY <2>3, <2>4 DEF Gone, KeptLeg, InUse, Calls
<1>2. CASE \E rows \in Rowed, ids \in SUBSET Id : ListingMoves(rows, ids)
  <2>1. PICK rows \in Rowed, ids \in SUBSET Id : ListingMoves(rows, ids) BY <1>2
  <2>2. \A id \in Id : \/ Gone(m'.legs[id])
                       \/ m'.gen[id] = m.gen[id] /\ KeptLeg(m.legs[id], m'.legs[id])
                       \/ /\ id \in Rows(rows)  /\ m.legs[id].state = "FREE"
                          /\ m'.legs[id].state # "FREE"  /\ m'.legs[id].call = rows[id].call
    <3>1. Moves(m, m', rows, ids) BY <2>1 DEF ListingMoves, Listing
    <3>2. \A id \in Id \ ids : m'.gen[id] = m.gen[id] BY <3>1 DEF Moves
    <3>3. \A id \in ids : Gone(m'.legs[id]) BY <3>1 DEF Moves
    <3>4. \A id \in Id \ ids : \/ KeptLeg(m.legs[id], m'.legs[id])
                               \/ /\ id \in Rows(rows)  /\ m.legs[id].state = "FREE"
                                  /\ m'.legs[id].state # "FREE"
                                  /\ m'.legs[id].call = rows[id].call
      BY <3>1 DEF Moves, Listed1
    <3> QED BY <3>2, <3>3, <3>4
  <2>3. \A id \in Rows(rows) : id \in Busy(net) /\ rows[id].call = net[id].call /\ net' = net
    BY <2>1 DEF ListingMoves
  <2>4. Distinct(m') BY <1>0, <2>1 DEF ListingMoves, Listing
  <2> QED BY <2>2, <2>3, <2>4 DEF Gone, KeptLeg, InUse, Calls
<1> QED BY <1>1, <1>2 DEF TableMoves

LEMMA CallsKept ==
    ASSUME TypeOK, Calls, TableMoves, NEW new \in SUBSET Spare, NetMoves(new)
    PROVE  Calls'
<1> DEFINE n == Len(calls)
           k == Len(calls')
<1>1. n \in Nat /\ k \in Nat /\ n <= k BY DEF TypeOK, NetMoves
<1>2. \A id \in Busy(net') : \/ id \in new /\ k = n + 1 /\ net'[id].call = n + 1
                             \/ id \in Busy(net) /\ net'[id].call = net[id].call
  BY DEF NetMoves
<1>3. \A id, o \in new : id = o BY DEF NetMoves
<1>4. \A id \in new : id \notin Busy(net) /\ id \notin InUse(m) BY DEF Spare
<1>5. \A id \in InUse(m') :
         \/ id \in InUse(m) /\ m'.legs[id].call = m.legs[id].call
         \/ id \notin InUse(m) /\ id \in Busy(net) /\ m'.legs[id].call = net[id].call
  BY LegOrigin
<1>6. \A id \in Busy(net) : net[id].call \in 1..n BY DEF Calls
<1>7. \A id \in InUse(m) : m.legs[id].call \in 1..n BY DEF Calls, InUse
<1> HIDE DEF n, k
<1>8. \A id \in Busy(net') : net'[id].call \in 1..k BY <1>1, <1>2, <1>6
<1>9. \A id \in InUse(m') : m'.legs[id].call \in 1..n BY <1>5, <1>6, <1>7
<1>10. \A id, o \in Busy(net') : net'[id].call = net'[o].call => id = o
  <2> TAKE id \in Busy(net'), o \in Busy(net')
  <2>1. n + 1 \notin 1..n BY <1>1
  <2>2. CASE id \in Busy(net) /\ o \in Busy(net)
    <3>1. net'[id].call = net[id].call /\ net'[o].call = net[o].call BY <2>2, <1>2, <1>4
    <3> QED BY <2>2, <3>1 DEF Calls
  <2>3. CASE id \in Busy(net) /\ o \notin Busy(net)
    <3>1. net'[id].call = net[id].call /\ net'[o].call = n + 1 BY <2>3, <1>2, <1>4
    <3> QED BY <2>1, <2>3, <3>1, <1>6
  <2>4. CASE id \notin Busy(net) /\ o \in Busy(net)
    <3>1. net'[id].call = n + 1 /\ net'[o].call = net[o].call BY <2>4, <1>2, <1>4
    <3> QED BY <2>1, <2>4, <3>1, <1>6
  <2>5. CASE id \notin Busy(net) /\ o \notin Busy(net)
    <3>1. id \in new /\ o \in new BY <2>5, <1>2
    <3> QED BY <3>1, <1>3
  <2> QED BY <2>2, <2>3, <2>4, <2>5
<1>11. \A id, o \in InUse(m') : m'.legs[id].call = m'.legs[o].call => id = o
  BY <1>5 DEF Calls
<1>12. \A id \in InUse(m'), o \in Busy(net') : m'.legs[id].call = net'[o].call <=> id = o
  <2> TAKE id \in InUse(m'), o \in Busy(net')
  <2>1. n + 1 \notin 1..n BY <1>1
  <2>2. CASE o \in Busy(net)
    <3>1. net'[o].call = net[o].call BY <2>2, <1>2, <1>4
    <3> QED BY <2>2, <3>1, <1>5 DEF Calls
  <2>3. CASE o \notin Busy(net)
    <3>1. o \in new /\ net'[o].call = n + 1 BY <2>3, <1>2
    <3>2. m'.legs[id].call # net'[o].call BY <2>1, <3>1, <1>9
    <3>3. id # o BY <3>1, <1>4, <1>5
    <3> QED BY <3>2, <3>3
  <2> QED BY <2>2, <2>3
<1>13. 1..n \subseteq 1..k BY <1>1
<1>14. \A id \in Id : IF m'.legs[id].state = "FREE" THEN m'.legs[id].call = 0
                      ELSE m'.legs[id].call \in 1..k
  BY <1>9, <1>13, LegOrigin DEF InUse
<1> QED BY <1>8, <1>10, <1>11, <1>12, <1>14 DEF Calls, k

LEMMA ArmedKept ==
    ASSUME TypeOK, Calls, Armed, Moved
    PROVE  Armed'
<1>1. SUFFICES ASSUME ~cut', "miss" \notin faults', NEW id \in InUse(m'),
                      Ref(m', id) \in m'.absent
               PROVE  id \notin Busy(net')
  BY DEF Armed, Ref, InUse, Busy
<1>2. ~cut /\ "miss" \notin faults
  <2>1. cut => cut' BY DEF Moved, ServiceMoves
  <2>2. ~cut BY <2>1, <1>1
  <2>3. faults \subseteq faults' BY DEF Moved, ServiceMoves
  <2>4. "miss" \notin faults BY <2>3, <1>1
  <2> QED BY <2>2, <2>4
<1>3. CASE \E ids \in SUBSET InUse(m) : Lets(m, m', ids)
  <2>1. PICK ids \in SUBSET InUse(m) : Lets(m, m', ids) BY <1>3
  <2>2. id \in Id /\ id \notin ids BY <2>1 DEF Lets, Gone, InUse
  <2>3. id \in InUse(m) /\ Ref(m', id) = Ref(m, id) /\ m'.absent = m.absent
    BY <2>1, <2>2 DEF Lets, KeptLeg, InUse, Ref
  <2>4. id \notin Busy(net) BY <1>1, <1>2, <2>3 DEF Armed
  <2>5. PICK new \in SUBSET Spare : NetMoves(new) BY DEF Moved
  <2>6. id \notin new BY <2>3 DEF Spare
  <2> QED BY <2>4, <2>5, <2>6 DEF NetMoves
<1>4. CASE \E rows \in Rowed, ids \in SUBSET Id : ListingMoves(rows, ids)
  <2>1. PICK rows \in Rowed, ids \in SUBSET Id : ListingMoves(rows, ids) BY <1>4
  <2>2. rows = net /\ net' = net BY <1>1, <1>2, <2>1 DEF ListingMoves
  <2>3. id \notin Rows(rows) BY <1>1, <2>1 DEF ListingMoves, Listing
  <2> QED BY <2>2, <2>3 DEF Rows, Busy
<1> QED BY <1>3, <1>4 DEF Moved, TableMoves

LEMMA CallsBounded ==
    ASSUME Calls
    PROVE  Going(net) \subseteq 1..Len(calls) /\ Shows(m.legs) \subseteq 1..Len(calls)
BY DEF Calls, Going, Shows

LEMMA GivenUpKept ==
    ASSUME TypeOK, Calls, GivenUp, Moved
    PROVE  GivenUp'
<1> DEFINE n == Len(calls)
<1>1. /\ given' = given \cup {m'.legs[id].call : id \in {x \in Id : m'.legs[x].state = "RELEASING"}}
      /\ lost' = (lost \cap (Going(net') \cup Shows(m'.legs)))
                  \cup ((Shows(m.legs) \ Shows(m'.legs)) \cap Going(net'))
  BY DEF Moved, Note
<1>2. \A id \in InUse(m') : m'.legs[id].state = "RELEASING" => m'.legs[id].call \in given'
  BY <1>1 DEF InUse
<1>3. PICK new \in SUBSET Spare : NetMoves(new) BY DEF Moved
<1>4. n \in Nat /\ given \subseteq 1..n BY DEF TypeOK
<1>5. ASSUME NEW c \in given' \cap Going(net')
      PROVE  c \in Shows(m'.legs) \cup lost'
  <2>1. CASE c \notin given
    <3>1. PICK id \in Id : m'.legs[id].state = "RELEASING" /\ c = m'.legs[id].call
      BY <1>1, <2>1
    <3> QED BY <3>1 DEF Shows
  <2>2. CASE c \in given
    <3>1. PICK id \in Busy(net') : c = net'[id].call BY DEF Going
    <3>2. c # n + 1 BY <2>2, <1>4
    <3>3. id \in Busy(net) /\ net[id].call = c
      <4> HIDE DEF n
      <4> QED BY <1>3, <3>1, <3>2 DEF NetMoves, n
    <3>4. c \in Going(net) BY <3>3 DEF Going
    <3>5. c \in Shows(m.legs) \cup lost BY <2>2, <3>4 DEF GivenUp
    <3> QED BY <3>5, <1>1
  <2> QED BY <2>1, <2>2
<1> QED BY <1>2, <1>5 DEF GivenUp

(* The heart of it: a leg that is live after the step is of no call that   *)
(* was given up, or of one the table had let go of.                        *)
LEMMA NoneResurrected ==
    ASSUME TypeOK, Calls, GivenUp, ~Resurrects, Moved
    PROVE  ~Resurrects'
<1>1. SUFFICES ASSUME NEW id \in Id, m'.legs[id].state # "RELEASING",
                      m'.legs[id].call \in given', m'.legs[id].call \notin lost'
               PROVE  FALSE
  BY DEF Resurrects
<1> DEFINE c == m'.legs[id].call
<1>2. /\ given' = given \cup {m'.legs[o].call : o \in {x \in Id : m'.legs[x].state = "RELEASING"}}
      /\ lost' = (lost \cap (Going(net') \cup Shows(m'.legs)))
                  \cup ((Shows(m.legs) \ Shows(m'.legs)) \cap Going(net'))
  BY DEF Moved, Note
<1>3. Calls'
  <2>1. PICK new \in SUBSET Spare : NetMoves(new) BY DEF Moved
  <2> QED BY <2>1, CallsKept DEF Moved
<1>4. m'.legs[id].state # "FREE"
  <2>1. SUFFICES ASSUME m'.legs[id].state = "FREE"  PROVE FALSE  OBVIOUS
  <2>2. c = 0 BY <2>1, <1>3 DEF Calls
  <2>3. 0 \notin given BY DEF TypeOK
  <2>4. PICK o \in Id : m'.legs[o].state = "RELEASING" /\ m'.legs[o].call = 0
    BY <1>1, <1>2, <2>2, <2>3
  <2>5. m'.legs[o].call \in 1..Len(calls') BY <2>4, <1>3 DEF Calls
  <2> QED BY <2>4, <2>5
<1>5. id \in InUse(m') /\ c \in Shows(m'.legs) BY <1>4 DEF InUse, Shows
<1>6. c \in given
  <2>1. SUFFICES ASSUME c \notin given  PROVE FALSE  OBVIOUS
  <2>2. PICK o \in Id : m'.legs[o].state = "RELEASING" /\ m'.legs[o].call = c
    BY <1>1, <1>2, <2>1
  <2>3. o \in InUse(m') BY <2>2 DEF InUse
  <2>4. o = id BY <2>2, <2>3, <1>3, <1>5 DEF Calls
  <2> QED BY <2>2, <2>4, <1>1
<1>7. CASE id \in InUse(m) /\ c = m.legs[id].call
                           /\ (m.legs[id].state = "RELEASING" => m'.legs[id].state = "RELEASING")
  <2>1. m.legs[id].state # "RELEASING" BY <1>1, <1>7
  <2>2. c \in lost BY <2>1, <1>6, <1>7 DEF Resurrects
  <2> QED BY <2>2, <1>1, <1>2, <1>5
<1>8. CASE id \notin InUse(m) /\ id \in Busy(net) /\ c = net[id].call /\ net' = net
  <2>1. c \in Going(net) /\ c \in Going(net') BY <1>8 DEF Going
  <2>2. c \in Shows(m.legs) \cup lost BY <1>6, <2>1 DEF GivenUp
  <2>3. CASE c \in Shows(m.legs)
    <3>1. PICK o \in InUse(m) : m.legs[o].call = c BY <2>3 DEF Shows, InUse
    <3>2. o = id BY <3>1, <1>8 DEF Calls
    <3> QED BY <3>1, <3>2, <1>8
  <2>4. CASE c \in lost BY <2>4, <2>1, <1>1, <1>2
  <2> QED BY <2>2, <2>3, <2>4
<1>9. \/ /\ id \in InUse(m)  /\ c = m.legs[id].call
         /\ m.legs[id].state = "RELEASING" => m'.legs[id].state = "RELEASING"
      \/ id \notin InUse(m) /\ id \in Busy(net) /\ c = net[id].call /\ net' = net
  BY <1>5, LegOrigin DEF Moved
<1> QED BY <1>7, <1>8, <1>9

LEMMA TypeKept ==
    ASSUME TypeOK, Calls, Moved
    PROVE  TypeOK'
<1>1. PICK new \in SUBSET Spare : NetMoves(new) BY DEF Moved
<1>2. Calls' BY <1>1, CallsKept DEF Moved
<1>3. Going(net') \subseteq 1..Len(calls') BY <1>2 DEF Calls, Going
<1>4. Len(calls) \in Nat /\ Len(calls') \in Nat /\ Len(calls) <= Len(calls')
  BY <1>1 DEF NetMoves, TypeOK
<1>5. given' \subseteq 1..Len(calls')
  <2>1. {m'.legs[id].call : id \in {x \in Id : m'.legs[x].state = "RELEASING"}} \subseteq 1..Len(calls')
    BY <1>2 DEF Calls
  <2>2. given \subseteq 1..Len(calls') BY <1>4 DEF TypeOK
  <2> QED BY <2>1, <2>2 DEF Moved, Note
<1>6. lost' \subseteq 1..Len(calls')
  <2>1. lost \subseteq 1..Len(calls') BY <1>4 DEF TypeOK
  <2>2. lost' \subseteq lost \cup Going(net') BY DEF Moved, Note
  <2> QED BY <2>1, <2>2, <1>3
<1>7. Distinct(m') /\ m' \in Model BY LegOrigin DEF Moved, TableMoves
<1>8. net' \in [Id -> Row] /\ calls' \in Seq(Nat) /\ Len(calls') <= MaxCalls
  BY <1>1 DEF NetMoves, Rowed
<1>9. ServiceType' BY DEF Moved, ServiceMoves
<1> QED BY <1>5, <1>6, <1>7, <1>8, <1>9 DEF TypeOK, Distinct, ServiceType

LEMMA MovedKeeps ==
    ASSUME IInv, Moved
    PROVE  IInv'
<1>1. TypeOK /\ ~Resurrects /\ Commands /\ Calls /\ Armed /\ GivenUp
  BY DEF IInv, NeverResurrected, Resurrects
<1>2. PICK new \in SUBSET Spare : NetMoves(new) BY DEF Moved
<1>3. Calls' BY <1>1, <1>2, CallsKept DEF Moved
<1>4. TypeOK' /\ ~Resurrects' /\ Armed' /\ GivenUp'
  BY <1>1, TypeKept, NoneResurrected, ArmedKept, GivenUpKept
<1>5. Commands' BY DEF Moved, ServiceMoves
<1> QED BY <1>3, <1>4, <1>5 DEF IInv, NeverResurrected, Resurrects

----------------------------------------------------------------------------
(* The actions.                                                            *)

LEMMA KeptMoves ==
    ASSUME m' \in Model, Keeps(m, m')
    PROVE  TableMoves
<1>1. Lets(m, m', {}) BY KeepsLets
<1> QED BY <1>1 DEF TableMoves

LEMMA ServiceTypeOK == IInv => ServiceType /\ Commands /\ QueueType /\ NetType /\ m \in Model
  BY NetTypeOK DEF IInv, NeverResurrected, TypeOK, ServiceType, Commands, QueueType

LEMMA Faulty ==
    ASSUME NEW kind, Fault(kind), ServiceType
    PROVE  faults \subseteq faults' /\ faults' \subseteq Faults
BY DEF Fault, ServiceType

(* A step that leaves the commands alone.                                  *)
LEMMA CommandsAlone ==
    ASSUME IInv, UNCHANGED <<queue, wire, owed, cut>>, asked' \in 0..MaxAsked,
           faults \subseteq faults', faults' \subseteq Faults
    PROVE  ServiceMoves
BY ServiceTypeOK DEF ServiceMoves, ServiceType, Commands

LEMMA NobodyAsks == IInv /\ UNCHANGED asked => asked' \in 0..MaxAsked
  BY ServiceTypeOK DEF ServiceType

LEMMA NoFault == IInv /\ UNCHANGED faults => faults \subseteq faults' /\ faults' \subseteq Faults
  BY ServiceTypeOK DEF ServiceType

LEMMA OneMoreAsked == asked \in 0..MaxAsked /\ asked < MaxAsked => asked + 1 \in 0..MaxAsked
  BY CallServiceAssumption

LEMMA AskMoves == IInv /\ Ask => Moved
<1> SUFFICES ASSUME IInv, Ask  PROVE Moved  OBVIOUS
<1>1. PICK o \in Offered : /\ o.kind \in Kinds  /\ asked < MaxAsked  /\ asked' = asked + 1
                           /\ QueueCall(o.kind, o.at)
                           /\ UNCHANGED <<wire, owed, outside, cut, faults>>  /\ Note
  BY DEF Ask
<1>2. o.kind \in Requests /\ o.at \in Id \cup {0} BY OfferedType, ServiceTypeOK DEF Asks
<1>3. m' \in Model /\ Keeps(m, m') /\ QueueType' BY <1>1, <1>2, ServiceTypeOK, QueueCallKeeps
<1>4. asked' \in 0..MaxAsked BY <1>1, ServiceTypeOK, OneMoreAsked DEF ServiceType
<1>5. ServiceMoves
  <2>1. faults \subseteq faults' /\ faults' \subseteq Faults BY <1>1, NoFault
  <2>2. UNCHANGED <<wire, owed, cut>> BY <1>1
  <2> QED BY <1>3, <1>4, <2>1, <2>2, ServiceTypeOK DEF ServiceMoves, ServiceType, Commands, QueueType
<1>6. NetMoves({}) BY <1>1, ServiceTypeOK, StillMoves DEF outside
<1> QED BY <1>1, <1>3, <1>5, <1>6, KeptMoves DEF Moved

LEMMA AbandonMoves == IInv /\ AbandonNewCall => Moved
<1> SUFFICES ASSUME IInv, AbandonNewCall  PROVE Moved  OBVIOUS
<1>1. /\ asked < MaxAsked  /\ asked' = asked + 1
      /\ m' = NewCallAbandoned(m)
      /\ UNCHANGED <<queue, wire, owed, outside, cut, faults>>  /\ Note
  BY DEF AbandonNewCall
<1>2. asked' \in 0..MaxAsked BY <1>1, ServiceTypeOK, OneMoreAsked DEF ServiceType
<1>3. m' \in Model /\ Keeps(m, m') BY <1>1, ServiceTypeOK, NewCallAbandonedKeeps
<1>4. ServiceMoves BY <1>1, <1>2, NoFault, CommandsAlone
<1>5. NetMoves({}) BY <1>1, ServiceTypeOK, StillMoves DEF outside
<1> QED BY <1>1, <1>3, <1>4, <1>5, KeptMoves DEF Moved

LEMMA ArrivesMoves == IInv /\ Arrives => Moved
<1> SUFFICES ASSUME IInv, Arrives  PROVE Moved  OBVIOUS
<1> DEFINE st == IF Busy(net) = {} THEN "INCOMING" ELSE "WAITING"
<1>1. /\ Len(calls) < MaxCalls  /\ Spare # {}
      /\ net' = NewCall(net, st, "MT")
      /\ calls' = Append(calls, 0)
      /\ UNCHANGED <<m, queue, wire, owed, budget>>  /\ Note
  BY DEF Arrives
<1>2. st \in OnAir \ {"FREE"} /\ "MT" \in Dirs /\ 0 \in Nat BY DEF OnAir, Dirs
<1> HIDE DEF st
<1>3. SameCalls(net, net) BY ServiceTypeOK DEF SameCalls, NetType
<1>4. NetMoves({Min(Spare)}) BY <1>1, <1>2, <1>3, ServiceTypeOK, NewCallMoves
<1>5. {Min(Spare)} \in SUBSET Spare BY <1>1, SpareLeast
<1>6. ServiceMoves BY <1>1, NobodyAsks, NoFault, CommandsAlone DEF budget
<1>7. m' \in Model /\ Keeps(m, m') BY <1>1, ServiceTypeOK, KeepsItself
<1> QED BY <1>1, <1>4, <1>5, <1>6, <1>7, KeptMoves DEF Moved

LEMMA RingsMoves == IInv /\ Rings => Moved
<1> SUFFICES ASSUME IInv, Rings  PROVE Moved  OBVIOUS
<1>1. /\ UNCHANGED <<queue, wire, owed, outside, budget>>  /\ Note
      /\ Serve(OnRing(m)) \/ Serve(OnClip(m))
  BY DEF Rings
<1>2. m' \in Model /\ Keeps(m, m')
  BY <1>1, ServiceTypeOK, OnRingKeeps, OnClipKeeps, ServeKeeps, KeepsTransitive
<1>3. ServiceMoves BY <1>1, NobodyAsks, NoFault, CommandsAlone DEF budget
<1>4. NetMoves({}) BY <1>1, ServiceTypeOK, StillMoves DEF outside
<1> QED BY <1>1, <1>2, <1>3, <1>4, KeptMoves DEF Moved

LEMMA RemoteAnswersMoves == IInv /\ RemoteAnswers => Moved
<1> SUFFICES ASSUME IInv, RemoteAnswers  PROVE Moved  OBVIOUS
<1>1. /\ net' = Put(net, On(net, "DIALING"), "ACTIVE")  /\ calls' = calls
      /\ Serve(OnEvent(m))
      /\ UNCHANGED <<queue, wire, owed, budget>>  /\ Note
  BY DEF RemoteAnswers
<1>2. m' \in Model /\ Keeps(m, m')
  BY <1>1, ServiceTypeOK, TouchKeeps, ServeKeeps, KeepsTransitive DEF OnEvent
<1>3. ServiceMoves BY <1>1, NobodyAsks, NoFault, CommandsAlone DEF budget
<1>4. SameCalls(net, net')
  <2>1. On(net, "DIALING") \in SUBSET Busy(net) BY OnBusy
  <2>2. "ACTIVE" \in OnAir \ {"FREE"} BY DEF OnAir
  <2> QED BY <1>1, <2>1, <2>2, ServiceTypeOK, PutSame DEF NetType
<1>5. NetMoves({}) BY <1>1, <1>4, ServiceTypeOK, SameMoves
<1> QED BY <1>1, <1>2, <1>3, <1>5, KeptMoves DEF Moved

LEMMA EndsMoves ==
    ASSUME IInv, NEW id, Ends(id)
    PROVE  NetMoves({}) /\ UNCHANGED <<queue, owed>> /\ asked' \in 0..MaxAsked
<1>1. id \in Busy(net) /\ net' = Drop(net, {id}) /\ UNCHANGED <<queue, owed, calls, asked>>
  BY DEF Ends
<1>2. {id} \in SUBSET Id BY <1>1 DEF Busy
<1>3. Ending(net, {id}, net') BY <1>1, <1>2, ServiceTypeOK, DropEnds DEF NetType
<1> QED BY <1>1, <1>3, ServiceTypeOK, EndingMoves, NobodyAsks

LEMMA EndsWithEventMoves == IInv /\ EndsWithEvent => Moved
<1> SUFFICES ASSUME IInv, EndsWithEvent  PROVE Moved  OBVIOUS
<1>1. PICK id \in Id : Ends(id) /\ Serve(OnEvent(m)) /\ UNCHANGED <<wire, cut, faults>> /\ Note
  BY DEF EndsWithEvent
<1>2. m' \in Model /\ Keeps(m, m')
  BY <1>1, ServiceTypeOK, TouchKeeps, ServeKeeps, KeepsTransitive DEF OnEvent
<1>3. NetMoves({}) /\ UNCHANGED <<queue, owed>> /\ asked' \in 0..MaxAsked BY <1>1, EndsMoves
<1>4. ServiceMoves BY <1>1, <1>3, NoFault, CommandsAlone
<1> QED BY <1>1, <1>2, <1>3, <1>4, KeptMoves DEF Moved

LEMMA EndsUnheardMoves == IInv /\ EndsUnheard => Moved
<1> SUFFICES ASSUME IInv, EndsUnheard  PROVE Moved  OBVIOUS
<1>1. Fault("unheard") BY DEF EndsUnheard
<1>2. PICK id \in Id : Ends(id) /\ UNCHANGED <<m, wire, cut>> /\ Note BY DEF EndsUnheard
<1>3. m' \in Model /\ Keeps(m, m') BY <1>2, ServiceTypeOK, KeepsItself
<1>4. NetMoves({}) /\ UNCHANGED <<queue, owed>> /\ asked' \in 0..MaxAsked BY <1>2, EndsMoves
<1>5. ServiceMoves BY <1>1, <1>2, <1>4, ServiceTypeOK, Faulty, CommandsAlone
<1> QED BY <1>2, <1>3, <1>4, <1>5, KeptMoves DEF Moved

(* A command that ends before its own answer.                              *)
LEMMA CutMoves ==
    ASSUME IInv, UNCHANGED <<queue, owed>>, wire' = Silence, cut' = TRUE,
           asked' \in 0..MaxAsked, faults \subseteq faults', faults' \subseteq Faults
    PROVE  ServiceMoves
BY ServiceTypeOK, SilenceType DEF ServiceMoves, ServiceType, Commands

LEMMA EndsWithFinalMoves == IInv /\ EndsWithFinal => Moved
<1> SUFFICES ASSUME IInv, EndsWithFinal  PROVE Moved  OBVIOUS
<1>1. PICK id \in Id :
         /\ Ends(id)
         /\ IF WaitsForCall
            THEN /\ Serve(CommandResult(m, wire.token, "ERROR"))  /\ wire' = Silence
                 /\ cut' = TRUE
            ELSE Serve(OnBareFinal(m)) /\ UNCHANGED <<wire, cut>>
         /\ UNCHANGED faults  /\ Note
  BY DEF EndsWithFinal
<1>2. m' \in Model /\ Keeps(m, m')
  <2>1. CASE WaitsForCall
    BY <1>1, <2>1, ServiceTypeOK, CommandResultKeeps, ServeKeeps, KeepsTransitive
  <2>2. CASE ~WaitsForCall
    BY <1>1, <2>2, ServiceTypeOK, OnBareFinalKeeps, ServeKeeps, KeepsTransitive
  <2> QED BY <2>1, <2>2
<1>3. NetMoves({}) /\ UNCHANGED <<queue, owed>> /\ asked' \in 0..MaxAsked BY <1>1, EndsMoves
<1>4. ServiceMoves
  <2>1. faults \subseteq faults' /\ faults' \subseteq Faults BY <1>1, NoFault
  <2>2. CASE WaitsForCall BY <1>1, <1>3, <2>1, <2>2, CutMoves
  <2>3. CASE ~WaitsForCall BY <1>1, <1>3, <2>1, <2>3, CommandsAlone
  <2> QED BY <2>2, <2>3
<1> QED BY <1>1, <1>2, <1>3, <1>4, KeptMoves DEF Moved

LEMMA TimesOutMoves == IInv /\ TimesOut => Moved
<1> SUFFICES ASSUME IInv, TimesOut  PROVE Moved  OBVIOUS
<1>1. /\ Fault("timeout")  /\ wire' = Silence  /\ cut' = TRUE
      /\ Serve(IF wire.kind = "CLCC" THEN ClccError(m) ELSE CommandResult(m, wire.token, "TIMEOUT"))
      /\ UNCHANGED <<queue, owed, outside, asked>>  /\ Note
  BY DEF TimesOut
<1>2. m' \in Model /\ Keeps(m, m')
  <2>1. CASE wire.kind = "CLCC"
    BY <1>1, <2>1, ServiceTypeOK, ListingKeeps, ServeKeeps, KeepsTransitive
  <2>2. CASE wire.kind # "CLCC"
    BY <1>1, <2>2, ServiceTypeOK, CommandResultKeeps, ServeKeeps, KeepsTransitive
  <2> QED BY <2>1, <2>2
<1>3. ServiceMoves BY <1>1, ServiceTypeOK, Faulty, NobodyAsks, CutMoves
<1>4. NetMoves({}) BY <1>1, ServiceTypeOK, StillMoves DEF outside
<1> QED BY <1>1, <1>2, <1>3, <1>4, KeptMoves DEF Moved

LEMMA PassesMoves ==
    ASSUME IInv, NEW e \in Expiries(m), Passes(e), faults \subseteq faults', faults' \subseteq Faults
    PROVE  Moved
<1>1. /\ UNCHANGED <<queue, wire, owed, outside, cut, asked>>  /\ Note
      /\ m' = Project(Tick(m, e))
  BY DEF Passes
<1> DEFINE t == Tick(m, e)
<1>2. t \in Model /\ \E ids \in SUBSET InUse(m) : Lets(m, t, ids) BY ServiceTypeOK, TickLets
<1> HIDE DEF t
<1>3. PICK ids \in SUBSET InUse(m) : Lets(m, t, ids) BY <1>2
<1>4. m' \in Model /\ Keeps(t, m') BY <1>1, <1>2, ProjectKeeps DEF t
<1>5. ids \in SUBSET Id BY DEF InUse
<1>6. TableMoves BY <1>3, <1>4, <1>5, LetsThenKeeps DEF TableMoves
<1>7. ServiceMoves BY <1>1, NobodyAsks, CommandsAlone
<1>8. NetMoves({}) BY <1>1, ServiceTypeOK, StillMoves DEF outside
<1> QED BY <1>1, <1>6, <1>7, <1>8 DEF Moved

LEMMA DeadlinesMove == IInv /\ (Deadline \/ Slow) => Moved
<1> SUFFICES ASSUME IInv, Deadline \/ Slow  PROVE Moved  OBVIOUS
<1>1. CASE Deadline
  <2>1. faults \subseteq faults' /\ faults' \subseteq Faults BY <1>1, NoFault DEF Deadline
  <2>2. PICK e \in Expiries(m) : Passes(e) BY <1>1 DEF Deadline
  <2> QED BY <2>1, <2>2, PassesMoves
<1>2. CASE Slow
  <2>1. faults \subseteq faults' /\ faults' \subseteq Faults
    BY <1>2, ServiceTypeOK, Faulty DEF Slow
  <2>2. PICK e \in Expiries(m) : Passes(e) BY <1>2 DEF Slow
  <2> QED BY <2>1, <2>2, PassesMoves
<1> QED BY <1>1, <1>2

(* A listing read by a command that ended with its own answer drops no     *)
(* call that goes on: the listing before lacked it as well, and one of the *)
(* two was complete.                                                       *)
LEMMA ListingDropsNone ==
    ASSUME IInv, ~cut, Note, NEW rows \in Rowed, NEW ids \in SUBSET Id, ListingMoves(rows, ids)
    PROVE  lost' \subseteq lost
<1>1. SUFFICES ASSUME NEW c \in Shows(m.legs), c \notin Shows(m'.legs), c \in Going(net')
               PROVE  FALSE
  BY DEF Note
<1>2. Calls /\ Armed BY DEF IInv
<1>3. PICK id \in InUse(m) : m.legs[id].call = c BY DEF Shows, InUse
<1>4. id \in Id BY DEF InUse
<1>5. id \in ids
  <2>1. SUFFICES ASSUME id \notin ids  PROVE FALSE  OBVIOUS
  <2>2. \/ KeptLeg(m.legs[id], m'.legs[id])
        \/ Listed1(m.legs[id], m'.legs[id], rows[id])
    BY <2>1, <1>4 DEF ListingMoves, Listing, Moves
  <2>3. m'.legs[id].state # "FREE" /\ m'.legs[id].call = c
    BY <2>2, <1>3 DEF KeptLeg, Listed1, InUse
  <2> QED BY <2>3, <1>1, <1>4 DEF Shows
<1>6. Ref(m, id) \in m.absent /\ id \notin Rows(rows) BY <1>5 DEF ListingMoves, Listing
<1>7. net' = net BY DEF ListingMoves
<1>8. PICK o \in Busy(net) : net[o].call = c BY <1>1, <1>7 DEF Going
<1>9. o = id BY <1>2, <1>3, <1>8 DEF Calls
<1>10. CASE "miss" \in faults
  <2>1. rows = net BY <1>10 DEF ListingMoves
  <2> QED BY <2>1, <1>6, <1>8, <1>9 DEF Rows, Busy
<1>11. CASE "miss" \notin faults
  BY <1>2, <1>3, <1>6, <1>8, <1>9, <1>11 DEF Armed
<1> QED BY <1>10, <1>11

LEMMA KeptDropsNone ==
    ASSUME Keeps(m, m'), Note
    PROVE  lost' \subseteq lost
<1>1. Shows(m'.legs) = Shows(m.legs) BY DEF Keeps, KeptLeg, Shows
<1> QED BY <1>1 DEF Note

(* What the answers have in common: the modem carries out the oldest       *)
(* command or refuses it, and its rows are those of the network or fewer.  *)
LEMMA AnswerMoves ==
    ASSUME IInv, NEW eff, NEW rows \in Rowed, Answer(eff, rows),
           \E new \in SUBSET Spare : NetMoves(new),
           \A id \in Rows(rows) : id \in Busy(net) /\ rows[id].call = net[id].call,
           Rows(rows) # {} => net' = net,
           Head(owed).kind = "CLCC" => net' = net,
           Head(owed).kind = "CLCC" /\ ("miss" \in faults' => "miss" \in faults) => rows = net,
           faults \subseteq faults', faults' \subseteq Faults
    PROVE  Moved /\ (~cut' => lost' \subseteq lost)
<1> DEFINE v == Final(eff.ok, rows)
<1>1. /\ owed # <<>>  /\ owed' = Tail(owed)  /\ UNCHANGED <<queue, cut, asked>>
      /\ Serve(v)  /\ wire' = Silence  /\ Note
  BY DEF Answer
<1>2. ServiceType /\ Commands /\ m \in Model BY ServiceTypeOK
<1>3. \/ v \in Model /\ Keeps(m, v)
      \/ /\ v \in Model  /\ wire.kind = "CLCC"  /\ Waits
         /\ \E ids \in SUBSET Id : Listing(m, v, rows, ids)
  <2>1. CASE ~Waits BY <2>1, <1>2, KeepsItself DEF Final
  <2>2. CASE Waits /\ wire.kind # "CLCC"
    <3>1. v = CommandResult(m, wire.token, IF eff.ok THEN "OK" ELSE "ERROR") BY <2>2 DEF Final
    <3> QED BY <3>1, <1>2, CommandResultKeeps
  <2>3. CASE Waits /\ wire.kind = "CLCC" /\ eff.ok
    <3>1. v = ClccOk(m, rows) BY <2>3 DEF Final
    <3> QED BY <3>1, <2>3, <1>2, ClccOkLists DEF Rowed
  <2>4. CASE Waits /\ wire.kind = "CLCC" /\ ~eff.ok
    <3>1. v = ClccError(m) BY <2>4 DEF Final
    <3> QED BY <3>1, <1>2, ListingKeeps
  <2> QED BY <2>1, <2>2, <2>3, <2>4
<1> HIDE DEF v
<1>4. v \in Model /\ m' \in Model /\ Keeps(v, m') BY <1>1, <1>3, ServeKeeps
<1>5. ServiceMoves
  <2>1. owed' \in Seq(Command) /\ \A n \in DOMAIN owed' : owed'[n].kind # "NONE"
    <3>1. owed \in Seq(Command) /\ owed # <<>> BY <1>1, <1>2 DEF ServiceType
    <3>2. /\ Tail(owed) \in Seq(Command)  /\ Len(Tail(owed)) = Len(owed) - 1
          /\ Len(owed) \in Nat
          /\ \A n \in 1..Len(Tail(owed)) : Tail(owed)[n] = owed[n + 1] /\ n + 1 \in 1..Len(owed)
      BY <3>1
    <3>3. \A n \in 1..Len(owed) : owed[n].kind # "NONE" BY <3>1, <1>2 DEF Commands
    <3>4. DOMAIN owed' = 1..Len(Tail(owed)) BY <1>1, <3>2
    <3> QED BY <1>1, <3>2, <3>3, <3>4
  <2>2. ~cut' => owed' = <<>>
    <3>1. ~cut => owed = <<wire>> BY <1>1, <1>2 DEF Commands
    <3> QED BY <3>1, <1>1
  <2>3. ServiceType' BY <1>1, <1>2, <2>1, SilenceType DEF ServiceType
  <2>4. Commands' BY <1>1, <1>2, <2>1, <2>2 DEF Commands
  <2> QED BY <1>1, <2>3, <2>4 DEF ServiceMoves
<1>6. TableMoves /\ (~cut' => lost' \subseteq lost)
  <2>1. CASE Keeps(m, v)
    <3>1. Keeps(m, m') BY <2>1, <1>4, KeepsTransitive
    <3> QED BY <3>1, <1>1, <1>4, KeptMoves, KeptDropsNone
  <2>2. CASE wire.kind = "CLCC" /\ Waits /\ \E ids \in SUBSET Id : Listing(m, v, rows, ids)
    <3>1. PICK ids \in SUBSET Id : Listing(m, v, rows, ids) BY <2>2
    <3>2. Listing(m, m', rows, ids) BY <3>1, <1>2, <1>4, ListingThenKeeps
    <3>3. ~cut => Head(owed).kind = "CLCC"
      <4>1. ~cut => owed = <<wire>> BY <2>2, <1>2 DEF Commands, Waits
      <4> QED BY <4>1, <2>2
    <3>4. ListingMoves(rows, ids) BY <3>2, <3>3 DEF ListingMoves
    <3> QED BY <3>4, <1>1, <1>4, ListingDropsNone DEF TableMoves
  <2> QED BY <1>3, <2>1, <2>2
<1> QED BY <1>1, <1>5, <1>6 DEF Moved

LEMMA HeadOwed ==
    ASSUME IInv, owed # <<>>
    PROVE  Head(owed) \in Command /\ Head(owed).kind # "NONE"
<1>1. owed \in Seq(Command) /\ \A n \in DOMAIN owed : owed[n].kind # "NONE"
  BY ServiceTypeOK DEF ServiceType, Commands
<1>2. Head(owed) = owed[1] /\ 1 \in DOMAIN owed /\ owed[1] \in Command BY <1>1
<1> QED BY <1>1, <1>2

(* The rows of an answer to something else than AT+CLCC: none.             *)
LEMMA ListedRows ==
    ASSUME IInv
    PROVE  /\ Listed \in Rowed
           /\ \A id \in Rows(Listed) : id \in Busy(net) /\ Listed[id] = net[id]
           /\ Rows(Listed) # {} => Head(owed).kind = "CLCC"
           /\ Head(owed).kind = "CLCC" => Listed = net
<1>1. net \in Rowed BY ServiceTypeOK DEF NetType
<1>2. NoRow \in Row /\ NoRow.state = "FREE" BY DEF NoRow, Row, OnAir, Dirs
<1>3. CASE Head(owed).kind = "CLCC"
  <2>1. Listed = net BY <1>3 DEF Listed
  <2> QED BY <2>1, <1>1, <1>3 DEF Rows, Busy
<1>4. CASE Head(owed).kind # "CLCC"
  <2>1. Listed = [id \in Id |-> NoRow] BY <1>4 DEF Listed
  <2>2. Rows(Listed) = {} BY <2>1, <1>2 DEF Rows
  <2> QED BY <2>1, <2>2, <1>2, <1>4 DEF Rowed
<1> QED BY <1>3, <1>4

LEMMA AnswersMoves == IInv /\ Answers => Moved /\ (~cut' => lost' \subseteq lost)
<1> SUFFICES ASSUME IInv, Answers  PROVE Moved /\ (~cut' => lost' \subseteq lost)  OBVIOUS
<1> DEFINE c == Head(owed)
           eff == Effect(c)
<1>1. UNCHANGED faults /\ owed # <<>> /\ Answer(eff, Listed) BY DEF Answers
<1>2. c \in Command /\ c.kind # "NONE" BY <1>1, HeadOwed
<1>3. net' = eff.net /\ calls' = IF c.kind = "DIAL" /\ eff.ok THEN Append(calls, c.token) ELSE calls
  BY <1>1 DEF Answer
<1>4. \E new \in SUBSET Spare : NetMoves(new)
  <2>1. NetType BY ServiceTypeOK
  <2> HIDE DEF c
  <2> QED BY <1>2, <1>3, <2>1, EffectMoves
<1>5. c.kind = "CLCC" => net' = net BY <1>3 DEF Effect, Done
<1>6. faults \subseteq faults' /\ faults' \subseteq Faults BY <1>1, NoFault
<1> HIDE DEF eff
<1> QED BY <1>1, <1>4, <1>5, <1>6, ListedRows, AnswerMoves

LEMMA RefusesMoves == IInv /\ Refuses => Moved /\ (~cut' => lost' \subseteq lost)
<1> SUFFICES ASSUME IInv, Refuses  PROVE Moved /\ (~cut' => lost' \subseteq lost)  OBVIOUS
<1>1. Fault("refuse") /\ owed # <<>> /\ Answer(Refused, Listed) BY DEF Refuses
<1>2. net' = net /\ calls' = calls BY <1>1 DEF Answer, Refused
<1>3. NetMoves({}) BY <1>2, ServiceTypeOK, StillMoves
<1>4. faults \subseteq faults' /\ faults' \subseteq Faults BY <1>1, ServiceTypeOK, Faulty
<1> QED BY <1>1, <1>2, <1>3, <1>4, ListedRows, AnswerMoves

LEMMA MissesMoves == IInv /\ Misses => Moved /\ (~cut' => lost' \subseteq lost)
<1> SUFFICES ASSUME IInv, Misses  PROVE Moved /\ (~cut' => lost' \subseteq lost)  OBVIOUS
<1>1. Fault("miss") /\ owed # <<>> /\ Head(owed).kind = "CLCC" BY DEF Misses
<1>2. PICK id \in Busy(net) : Answer(Done(net), [Listed EXCEPT ![id] = NoRow]) BY DEF Misses
<1> DEFINE rows == [Listed EXCEPT ![id] = NoRow]
<1>3. net' = net /\ calls' = calls BY <1>1, <1>2 DEF Answer, Done
<1>4. NetMoves({}) BY <1>3, ServiceTypeOK, StillMoves
<1>5. faults \subseteq faults' /\ faults' \subseteq Faults BY <1>1, ServiceTypeOK, Faulty
<1>6. "miss" \in faults' /\ "miss" \notin faults BY <1>1 DEF Fault
<1>7. Listed = net /\ net \in Rowed BY <1>1, ServiceTypeOK DEF Listed, NetType
<1>8. NoRow \in Row /\ NoRow.state = "FREE" BY DEF NoRow, Row, OnAir, Dirs
<1>9. rows \in Rowed BY <1>7, <1>8 DEF Rowed
<1>10. \A o \in Rows(rows) : o \in Busy(net) /\ rows[o].call = net[o].call
  BY <1>7, <1>8 DEF Rows, Busy, Rowed
<1> HIDE DEF rows
<1> QED BY <1>2, <1>3, <1>4, <1>5, <1>6, <1>9, <1>10, AnswerMoves DEF rows

(* A pass that writes a command, or would have.                            *)
LEMMA BeginsMoves ==
    ASSUME IInv, ~Waits, NEW v \in Model, Keeps(m, v), NEW r, Starting(v, r), Begins(r),
           QueueType', UNCHANGED <<outside, budget>>
    PROVE  Moved
<1>1. /\ wire' = r.cmd  /\ owed' = IF r.cmd = Silence THEN owed ELSE Append(owed, r.cmd)
      /\ m' = Project(r.m)  /\ Note
  BY DEF Begins
<1>2. ServiceType /\ Commands BY ServiceTypeOK
<1>3. r.cmd \in Command /\ (r.cmd # Silence => r.cmd.kind # "NONE") BY DEF Starting
<1>4. m' \in Model /\ Keeps(m, m')
  <2>1. r.m \in Model /\ Keeps(m, r.m) BY KeepsTransitive DEF Starting
  <2> QED BY <1>1, <2>1, ProjectKeeps, KeepsTransitive
<1>5. owed' \in Seq(Command) /\ \A n \in DOMAIN owed' : owed'[n].kind # "NONE"
  <2>1. CASE r.cmd = Silence BY <1>1, <1>2, <2>1 DEF ServiceType, Commands
  <2>2. CASE r.cmd # Silence
    <3> DEFINE q == Append(owed, r.cmd)
    <3>1. owed \in Seq(Command) /\ r.cmd \in Command BY <1>2, <1>3 DEF ServiceType
    <3>2. /\ q \in Seq(Command)  /\ Len(q) = Len(owed) + 1  /\ Len(owed) \in Nat
          /\ \A n \in 1..Len(q) : q[n] = IF n = Len(q) THEN r.cmd ELSE owed[n]
      BY <3>1
    <3>3. \A n \in 1..Len(owed) : owed[n].kind # "NONE" BY <3>1, <1>2 DEF Commands
    <3>0. owed' = q BY <1>1, <2>2
    <3> HIDE DEF q
    <3>4. ASSUME NEW n \in 1..Len(q)  PROVE q[n].kind # "NONE"
      <4>1. n = Len(q) \/ n \in 1..Len(owed) BY <3>2
      <4> QED BY <4>1, <3>2, <3>3, <1>3, <2>2
    <3> QED BY <3>0, <3>2, <3>4
  <2> QED BY <2>1, <2>2
<1>6. ~cut' => owed' = IF wire' = Silence THEN <<>> ELSE <<wire'>>
  <2>1. cut' = cut BY DEF budget
  <2>2. ~cut => owed = <<>> BY <1>2 DEF Commands, Waits
  <2> QED BY <1>1, <2>1, <2>2
<1>7. ServiceMoves
  <2>1. asked' \in 0..MaxAsked /\ faults \subseteq faults' /\ faults' \subseteq Faults
        /\ UNCHANGED <<cut, faults>>
    BY NobodyAsks, NoFault DEF budget
  <2>2. wire' \in Command BY <1>1, <1>3
  <2>3. ServiceType' BY <1>2, <1>5, <2>1, <2>2 DEF ServiceType, QueueType
  <2>4. Commands' BY <1>5, <1>6 DEF Commands, QueueType
  <2> QED BY <2>1, <2>3, <2>4 DEF ServiceMoves
<1>8. NetMoves({}) BY ServiceTypeOK, StillMoves DEF outside
<1> QED BY <1>1, <1>4, <1>7, <1>8, KeptMoves DEF Moved

LEMMA TurnMoves == IInv /\ Turn => Moved
<1> SUFFICES ASSUME IInv, Turn  PROVE Moved  OBVIOUS
<1> DEFINE t == Tick(m, Calm)
           r == StartRelease(t)
<1>1. StartRequest(t) \/ StartCleanup(t, r) \/ Poll(t, r) \/ Rest(t, r) BY DEF Turn
<1>2. t \in Model /\ Keeps(m, t) BY ServiceTypeOK, TickKeeps
<1> HIDE DEF t
<1>3. Starting(t, r) BY <1>2, StartReleaseStarts
<1> HIDE DEF r
<1>4. QueueType BY ServiceTypeOK
<1>5. ASSUME UNCHANGED queue  PROVE QueueType' BY <1>4, <1>5 DEF QueueType
<1>6. CASE StartRequest(t)
  <2>1. /\ UNCHANGED <<outside, budget>>  /\ ~Waits  /\ queue # <<>>  /\ queue' = Tail(queue)
        /\ Begins(Send(t, Head(queue)))
    BY <1>6 DEF StartRequest, Ready
  <2>2. Head(queue) \in Command /\ Head(queue).kind # "NONE"
    <3>1. queue \in Seq(Command) /\ \A n \in DOMAIN queue : queue[n].kind # "NONE"
      BY <1>4 DEF QueueType
    <3>2. Head(queue) = queue[1] /\ 1 \in DOMAIN queue /\ queue[1] \in Command BY <2>1, <3>1
    <3> QED BY <3>1, <3>2
  <2>3. QueueType'
    <3>1. queue \in Seq(Command) /\ queue # <<>> /\ Len(queue) <= QueueLen BY <1>4, <2>1 DEF QueueType
    <3>2. /\ Tail(queue) \in Seq(Command)  /\ Len(Tail(queue)) = Len(queue) - 1
          /\ Len(queue) \in Nat
          /\ \A n \in 1..Len(Tail(queue)) : Tail(queue)[n] = queue[n + 1] /\ n + 1 \in 1..Len(queue)
      BY <3>1
    <3>3. \A n \in 1..Len(queue) : queue[n].kind # "NONE" BY <3>1, <1>4 DEF QueueType
    <3>4. DOMAIN queue' = 1..Len(Tail(queue)) BY <2>1, <3>2
    <3>5. Len(queue') <= QueueLen BY <2>1, <3>1, <3>2, CallServiceAssumption
    <3> QED BY <2>1, <3>2, <3>3, <3>4, <3>5 DEF QueueType
  <2>4. Starting(t, Send(t, Head(queue))) BY <1>2, <2>2, SendStarts
  <2> QED BY <1>2, <2>1, <2>3, <2>4, BeginsMoves
<1>7. CASE StartCleanup(t, r)
  <2>1. UNCHANGED <<queue, outside, budget>> /\ ~Waits /\ Begins(r) BY <1>7 DEF StartCleanup
  <2> QED BY <1>2, <1>3, <1>5, <2>1, BeginsMoves
<1>8. CASE Poll(t, r)
  <2> DEFINE p == [m |-> ClccBegin(r.m), cmd |-> Cmd("CLCC", 0, 0)]
  <2>1. UNCHANGED <<queue, outside, budget>> /\ ~Waits /\ Begins(p) BY <1>8 DEF Poll
  <2>2. ClccBegin(r.m) \in Model /\ Keeps(t, ClccBegin(r.m))
    BY <1>3, ListingKeeps, KeepsTransitive DEF Starting
  <2>3. Cmd("CLCC", 0, 0) \in Command /\ Cmd("CLCC", 0, 0).kind # "NONE"
    BY CommandOf DEF Ops
  <2>4. Starting(t, p) BY <2>2, <2>3 DEF Starting
  <2> HIDE DEF p
  <2> QED BY <1>2, <1>5, <2>1, <2>4, BeginsMoves
<1>9. CASE Rest(t, r)
  <2>1. /\ UNCHANGED <<queue, wire, owed, outside, budget>>  /\ Note
        /\ m' = Project(t) \/ m' = Project(r.m)
    BY <1>9 DEF Rest, Rested
  <2>2. m' \in Model /\ Keeps(m, m')
    <3>1. r.m \in Model /\ Keeps(m, r.m) BY <1>2, <1>3, KeepsTransitive DEF Starting
    <3> QED BY <2>1, <3>1, <1>2, ProjectKeeps, KeepsTransitive
  <2>3. ServiceMoves BY <2>1, NobodyAsks, NoFault, CommandsAlone DEF budget
  <2>4. NetMoves({}) BY <2>1, ServiceTypeOK, StillMoves DEF outside
  <2> QED BY <2>1, <2>2, <2>3, <2>4, KeptMoves DEF Moved
<1> QED BY <1>1, <1>6, <1>7, <1>8, <1>9

----------------------------------------------------------------------------
(* The initial states.                                                     *)

LEMMA InitModelType ==
    /\ InitModel \in Model  /\ InUse(InitModel) = {}  /\ InitModel.absent = {}
    /\ \A id \in Id : InitModel.legs[id] = NoLeg
<1>1. NoLeg \in Leg /\ NoTxn \in Txn /\ NoMt \in MtType /\ Idle \in Shown
  <2>1. 0 \in 0..Cardinality(Id) BY CallModelAssumption, FS_CardinalityType
  <2>2. NoRef \in Refs BY DEF NoRef, Refs
  <2> QED BY <2>1, <2>2 DEF NoLeg, Leg, OnAir, Dirs, NoTxn, Txn, Ops, NoMt, MtType, Idle, Shown
<1>2. InitModel \in Model
  <2>1. <<>> \in Seq([leg : Refs, recover : BOOLEAN]) OBVIOUS
  <2> QED BY <1>1, <2>1 DEF InitModel, Model, MtType
<1>3. \A id \in Id : InitModel.legs[id] = NoLeg BY DEF InitModel
<1>4. InUse(InitModel) = {} BY <1>3 DEF InUse, NoLeg
<1>5. InitModel.absent = {} BY DEF InitModel
<1> QED BY <1>2, <1>3, <1>4, <1>5

(* The call the user is talking in.                                        *)
LEMMA TalkingModelType ==
    ASSUME Id # {}
    PROVE  /\ Min(Id) \in Id  /\ TalkingModel \in Model  /\ TalkingModel.absent = {}
           /\ InUse(TalkingModel) = {Min(Id)}
           /\ TalkingModel.legs[Min(Id)].call = 1
           /\ TalkingModel.legs[Min(Id)].state = "ACTIVE"
           /\ \A id \in Id \ {Min(Id)} : TalkingModel.legs[id] = NoLeg
<1> DEFINE x == Min(Id)
           leg == [slot |-> 1, state |-> "ACTIVE", dir |-> "MO", leaving |-> FALSE,
                   role |-> "ACTIVE", call |-> 1]
           txn == [NoTxn EXCEPT !.kind = "DIAL", !.token = 1, !.state = "SUCCEEDED",
                                !.leg = Ref(InitModel, x)]
           frame == [Idle EXCEPT !.state = "ACTIVE", !.id = x]
           v == [InitModel EXCEPT !.legs[x] = leg, !.txns[1] = txn, !.shown = frame, !.token = 2]
<1>1. x \in Id BY CallModelAssumption, LeastNat
<1>2. TalkingModel = v BY DEF TalkingModel
<1> HIDE DEF x
<1>3. leg \in Leg
  <2>1. Cardinality(Id) \in Nat /\ Cardinality(Id) # 0
    BY CallModelAssumption, FS_CardinalityType, FS_EmptySet
  <2>2. 1 \in 0..Cardinality(Id) BY <2>1
  <2> QED BY <2>2 DEF Leg, OnAir, Dirs
<1>4. txn \in Txn
  <2>1. Ref(InitModel, x) \in Refs BY <1>1 DEF Ref, InitModel, Refs
  <2>2. NoTxn \in Txn BY InitModelType, SlotTxn, Constants DEF NoTxn, Txn, Ops, NoRef, Refs
  <2> QED BY <2>1, <2>2 DEF Txn, Ops
<1>5. frame \in Shown BY <1>1 DEF Shown, Idle
<1> HIDE DEF leg, txn, frame
<1>7. v \in Model /\ v.absent = {} /\ v.legs = [InitModel.legs EXCEPT ![x] = leg]
  <2> DEFINE u == InitModel
             L == [u.legs EXCEPT ![x] = leg]
             T == [u.txns EXCEPT ![1] = txn]
             n == [u EXCEPT !.shown = frame]
             o == [n EXCEPT !.token = 2]
             p == [o EXCEPT !.txns = T]
             w == [p EXCEPT !.legs = L]
  <2>1. u \in Model /\ u.absent = {} BY InitModelType
  <2>2. L \in [Id -> Leg] /\ T \in [Slot -> Txn]
    <3>1. u.legs \in [Id -> Leg] /\ u.txns \in [Slot -> Txn] BY <2>1 DEF Model
    <3> HIDE DEF u
    <3> QED BY <3>1, <1>3, <1>4
  <2>3. v = w BY DEF InitModel
  <2> HIDE DEF u, L, T
  <2>7. n \in Model /\ n.absent = {} BY <2>1, <1>5 DEF Model
  <2> HIDE DEF n
  <2>4. o \in Model /\ o.absent = {}
    <3>1. 2 \in Nat \ {0} OBVIOUS
    <3> QED BY <3>1, <2>7 DEF Model
  <2> HIDE DEF o
  <2>5. p \in Model /\ p.absent = {} BY <2>2, <2>4 DEF Model
  <2> HIDE DEF p
  <2>6. w \in Model /\ w.absent = {} /\ w.legs = L BY <2>2, <2>5 DEF Model
  <2> HIDE DEF w, v
  <2> QED BY <2>3, <2>6 DEF L, u
<1>8. v.legs[x] = leg /\ \A id \in Id \ {x} : v.legs[id] = NoLeg
  BY <1>1, <1>7, InitModelType DEF Model
<1> HIDE DEF v
<1>9. leg.state = "ACTIVE" /\ leg.call = 1 BY DEF leg
<1>10. InUse(v) = {x} BY <1>1, <1>8, <1>9 DEF InUse, NoLeg
<1> QED BY <1>1, <1>2, <1>7, <1>8, <1>9, <1>10 DEF x

(* Both beginnings: nothing is given up yet, nothing is out.               *)
LEMMA InitIInv == Init => IInv
<1> SUFFICES ASSUME Init  PROVE IInv  OBVIOUS
<1>1. /\ queue = <<>>  /\ wire = Silence  /\ owed = <<>>  /\ given = {}  /\ lost = {}
      /\ cut = FALSE  /\ asked = 0  /\ faults = {}
  BY DEF Init
<1>2. NoRow \in Row /\ NoRow.state = "FREE" BY DEF NoRow, Row, OnAir, Dirs
<1>5. /\ queue \in Seq(Command)  /\ Len(queue) <= QueueLen
      /\ wire \in Command  /\ owed \in Seq(Command)
      /\ asked \in 0..MaxAsked  /\ faults \subseteq Faults  /\ cut \in BOOLEAN
      /\ given = {}  /\ lost = {}
  <2>1. Len(queue) = 0 /\ queue \in Seq(Command) /\ owed \in Seq(Command) BY <1>1
  <2>2. Len(queue) <= QueueLen /\ 0 \in 0..MaxAsked BY <2>1, CallServiceAssumption
  <2> QED BY <1>1, <2>1, <2>2, SilenceType
<1>3. CASE m = InitModel /\ net = [id \in Id |-> NoRow] /\ calls = <<>>
  <2>1. m \in Model /\ InUse(m) = {} /\ m.absent = {} /\ \A id \in Id : m.legs[id] = NoLeg
    BY <1>3, InitModelType
  <2>2. Busy(net) = {} /\ net \in [Id -> Row] BY <1>2, <1>3 DEF Busy
  <2>3. calls \in Seq(Nat) /\ Len(calls) = 0 BY <1>3
  <2> QED
    <3>0. Len(calls) <= MaxCalls BY <2>3, CallServiceAssumption
    <3>1. TypeOK BY <1>5, <2>1, <2>2, <2>3, <3>0 DEF TypeOK
    <3>2. NeverResurrected BY <1>1, <3>1 DEF NeverResurrected
    <3>3. Calls BY <2>1, <2>2 DEF Calls, NoLeg
    <3>4. Commands /\ Armed /\ GivenUp BY <1>1, <2>1 DEF Commands, Armed, GivenUp
    <3> QED BY <3>2, <3>3, <3>4 DEF IInv
<1>4. CASE /\ "talking" \in Starts  /\ m = TalkingModel  /\ calls = <<1>>
           /\ net = [id \in Id |-> IF id = Min(Id)
                                   THEN [state |-> "ACTIVE", dir |-> "MO", call |-> 1] ELSE NoRow]
  <2> DEFINE x == Min(Id)
             row == [state |-> "ACTIVE", dir |-> "MO", call |-> 1]
  <2>0. Id # {} /\ MaxCalls # 0 BY <1>4, CallServiceAssumption
  <2>1. /\ x \in Id  /\ m \in Model  /\ m.absent = {}  /\ InUse(m) = {x}
        /\ m.legs[x].call = 1  /\ m.legs[x].state = "ACTIVE"
        /\ \A id \in Id \ {x} : m.legs[id] = NoLeg
    BY <1>4, <2>0, TalkingModelType
  <2>2. net = [id \in Id |-> IF id = x THEN row ELSE NoRow] BY <1>4
  <2> HIDE DEF x
  <2>3. row \in Row /\ row.state # "FREE" /\ row.call = 1 BY DEF Row, OnAir, Dirs
  <2> HIDE DEF row
  <2>4. net \in [Id -> Row] /\ Busy(net) = {x} /\ net[x].call = 1
    BY <1>2, <2>1, <2>2, <2>3 DEF Busy
  <2>5. calls \in Seq(Nat) /\ Len(calls) = 1 BY <1>4
  <2>6. Len(calls) <= MaxCalls BY <2>0, <2>5, CallServiceAssumption
  <2>7. TypeOK BY <1>5, <2>1, <2>4, <2>5, <2>6 DEF TypeOK
  <2>8. NeverResurrected BY <1>1, <2>7 DEF NeverResurrected
  <2>9. Calls BY <2>1, <2>4, <2>5 DEF Calls, NoLeg
  <2>10. Commands /\ Armed /\ GivenUp BY <1>1, <2>1 DEF Commands, Armed, GivenUp
  <2> QED BY <2>8, <2>9, <2>10 DEF IInv
<1> QED BY <1>3, <1>4 DEF Init

----------------------------------------------------------------------------
(* The theorems.                                                           *)

LEMMA StepMoves == IInv /\ Next => Moved
BY AskMoves, AbandonMoves, ArrivesMoves, RingsMoves, RemoteAnswersMoves, EndsWithEventMoves,
   EndsUnheardMoves, EndsWithFinalMoves, AnswersMoves, RefusesMoves, MissesMoves, TimesOutMoves,
   DeadlinesMove, TurnMoves
   DEF Next, User, Network, Modem, Service

LEMMA StutterKeeps == IInv /\ UNCHANGED vars => IInv'
BY DEF vars, IInv, NeverResurrected, TypeOK, Commands, Calls, Armed, GivenUp, InUse, Ref, Busy,
       Going, Shows

(* The inductive invariant holds in every state: the commands out, the     *)
(* calls and their legs, the legs that a listing lacked and the calls that *)
(* were given up are as the parts of IInv say (CallService: every action). *)
THEOREM IInvHolds == Spec => []IInv
<1>1. Init => IInv BY InitIInv
<1>2. IInv /\ [Next]_vars => IInv' BY StepMoves, MovedKeeps, StutterKeeps
<1> QED BY <1>1, <1>2, PTL DEF Spec

(* A call the table gave up never comes back as a live one, unless the     *)
(* table had let go of it while it went on (modem_call_model.c, the        *)
(* RELEASING legs of merge_row and abandon_leg), and every variable has    *)
(* its type: for any ids, slots, queue, requests and faults.               *)
THEOREM GivenUpStaysGivenUp == Spec => []NeverResurrected
<1>1. IInv => NeverResurrected BY DEF IInv
<1> QED BY <1>1, IInvHolds, PTL

(* Only an answer takes a command off what the modem owes.                 *)
LEMMA OnlyAnswers ==
    ASSUME IInv, [Next]_vars, owed # <<>>, owed' = Tail(owed)
    PROVE  Answers \/ Refuses \/ Misses
<1>1. owed \in Seq(Command) BY ServiceTypeOK DEF ServiceType
<1>2. owed' # owed
  <2>1. \A s \in Seq(Command) : s # <<>> => Len(Tail(s)) # Len(s) OBVIOUS
  <2>2. Len(Tail(owed)) # Len(owed) BY <1>1, <2>1
  <2> QED BY <2>2
<1>3. ASSUME NEW r, Begins(r)  PROVE FALSE
  <2>1. owed' = owed \/ owed' = Append(owed, r.cmd) BY <1>3 DEF Begins
  <2>2. owed' = Append(owed, r.cmd) BY <2>1, <1>2
  <2>3. \A s \in Seq(Command) : \A x : Len(Append(s, x)) = Len(s) + 1 OBVIOUS
  <2>4. Len(owed') = Len(owed) + 1 BY <2>2, <2>3, <1>1
  <2>5. Len(owed') = Len(owed) - 1 /\ Len(owed) \in Nat BY <1>1
  <2> QED BY <2>4, <2>5
<1>4. ~Turn BY <1>2, <1>3 DEF Turn, StartRequest, StartCleanup, Poll, Rest
<1>5. ~UNCHANGED vars BY <1>2 DEF vars
<1>6. ~(User \/ Network \/ Rings \/ TimesOut \/ Deadline \/ Slow)
  BY <1>2 DEF User, Ask, AbandonNewCall, Network, Arrives, RemoteAnswers, EndsWithEvent,
              EndsWithFinal, EndsUnheard, Ends, Rings, TimesOut, Deadline, Slow, Passes
<1> QED BY <1>4, <1>5, <1>6 DEF Next, Service, Modem

(* As long as every command ends with its own answer, the poll drops no    *)
(* call that goes on: two listings in a row must lack it, and one of them  *)
(* was complete (modem_call_model.c, the commit of a listing).             *)
THEOREM PollKeepsLive == Spec => PollNeverDropsLive
<1>1. IInv /\ [Next]_vars =>
        [owed # <<>> /\ owed' = Tail(owed) /\ ~cut' => lost' \subseteq lost]_vars
  BY OnlyAnswers, AnswersMoves, RefusesMoves, MissesMoves
<1> QED BY <1>1, IInvHolds, PTL DEF Spec, PollNeverDropsLive

----------------------------------------------------------------------------
(* Dials and the legs they take.  What holds of a table between two        *)
(* operators, and what every operator but a listing, a request and a       *)
(* command written does to it.                                             *)

(* A leg is as it was, or is given up, or has gone.                        *)
GoesLeg(v, w, id) ==
    \/ /\ w.gen[id] = v.gen[id]
       /\ w.legs[id].state = "FREE" <=> v.legs[id].state = "FREE"
       /\ v.legs[id].state # "FREE" =>
             /\ w.legs[id].dir = v.legs[id].dir  /\ w.legs[id].call = v.legs[id].call
             /\ w.legs[id].state \in {v.legs[id].state, "RELEASING"}
    \/ w.gen[id] > v.gen[id] /\ w.legs[id].state = "FREE"

(* Dial s may take the leg r: it is one that was not there when it was     *)
(* sent, that places a call and that no other dial has.                    *)
Free(v, s, r) == /\ Has(v, r)  /\ Places(v, r.id)  /\ r \notin v.txns[s].baseline
                 /\ \A o \in Slot \ {s} : v.txns[o].kind = "DIAL" => v.txns[o].leg # r

(* T: the dials that may become tombstones; U: those that may end with     *)
(* nothing left to wait for.                                               *)
GoesDial(v, s, a, b, T, U) ==
    /\ b.second = a.second  /\ b.baseline = a.baseline
    /\ b.state = "PENDING" => a.state = "PENDING"
    /\ b.state = "SENT" => a.state = "SENT"
    /\ b.leg = a.leg \/ (a.leg = NoRef /\ Free(v, s, b.leg) /\ (a.tomb \/ a.state = "SENT"))
    /\ a.tomb => b.tomb
    /\ b.tomb => a.tomb \/ (s \in T /\ a.state = "SENT")
    /\ b.cleaned => s \in U \/ a.cleaned
    /\ IsTerminal(b) /\ b.leg = NoRef /\ ~b.tomb => s \in U \/ (IsTerminal(a) /\ ~a.tomb)

GoesTxn(v, w, s, a, b, T, U) ==
    /\ b.kind # "NONE" => b.kind = a.kind /\ b.token = a.token
    /\ b.kind = "DIAL" => GoesDial(v, s, a, b, T, U)
    /\ a.kind = "DIAL" /\ a.leg # NoRef /\ Has(w, a.leg) => b.kind = "DIAL"

GoesClaims(v, w) == \A r \in Claims(w) : r \in Claims(v) \/ Harmless(w, r)

Goes(v, w, T, U) ==
    /\ w.token = v.token
    /\ \A id \in Id : GoesLeg(v, w, id)
    /\ \A s \in Slot : GoesTxn(v, w, s, v.txns[s], w.txns[s], T, U)
    /\ GoesClaims(v, w)

LEMMA ClaimsType == \A v \in Model : Claims(v) \subseteq Refs
<1> SUFFICES ASSUME NEW v \in Model  PROVE Claims(v) \subseteq Refs  OBVIOUS
<1>1. \A s \in Slot : v.txns[s].leg \in Refs BY DEF Model, Txn
<1>2. \A n \in DOMAIN v.releases : v.releases[n].leg \in Refs
  <2>1. v.releases \in Seq(Queued) BY DEF Model, Queued
  <2> TAKE n \in DOMAIN v.releases
  <2>2. v.releases[n] \in Queued BY <2>1
  <2> QED BY <2>2 DEF Queued
<1> QED BY <1>1, <1>2 DEF Claims

(* What a leg that is left says of the table before.                       *)
LEMMA HadLeg ==
    ASSUME NEW v \in Model, NEW w \in Model, \A id \in Id : GoesLeg(v, w, id), NEW r, Has(w, r)
    PROVE  /\ Has(v, r)  /\ r.id \in Id
           /\ w.legs[r.id].dir = v.legs[r.id].dir  /\ w.legs[r.id].call = v.legs[r.id].call
           /\ w.legs[r.id].state \in {v.legs[r.id].state, "RELEASING"}
           /\ Places(w, r.id) => Places(v, r.id)
           /\ Taken(v, r) => Taken(w, r)
BY DEF Has, InUse, GoesLeg, Places, Taken

LEMMA KnownStays ==
    ASSUME NEW v \in Model, NEW w \in Model, \A id \in Id : GoesLeg(v, w, id), NEW r \in Refs
    PROVE  /\ Known(v, r) => Known(w, r)
           /\ Harmless(v, r) => Harmless(w, r)
<1>1. ASSUME Known(v, r)  PROVE Known(w, r)
  <2>1. CASE r.id \notin Id BY <2>1 DEF Known
  <2>2. CASE r.id \in Id
    <3>1. GoesLeg(v, w, r.id) BY <2>2
    <3>2. r.gen \in Nat /\ v.gen[r.id] \in Nat /\ w.gen[r.id] \in Nat BY <2>2 DEF Refs, Model
    <3>3. CASE r.gen < v.gen[r.id] BY <3>1, <3>2, <3>3 DEF GoesLeg, Known
    <3>4. CASE Has(v, r)
      <4>1. r.gen = v.gen[r.id] /\ v.legs[r.id].state # "FREE" /\ r.id # 0
        BY <3>4 DEF Has, InUse
      <4> QED BY <4>1, <3>1, <3>2, <2>2 DEF GoesLeg, Known, Has, InUse
    <3> QED BY <1>1, <2>2, <3>3, <3>4 DEF Known
  <2> QED BY <2>1, <2>2
<1>2. ASSUME Harmless(v, r)  PROVE Harmless(w, r) BY <1>1, <1>2, HadLeg DEF Harmless
<1> QED BY <1>1, <1>2

LEMMA FreeBefore ==
    ASSUME NEW v \in Model, NEW w \in Model, NEW T, NEW U, Goes(v, w, T, U),
           NEW s \in Slot, w.txns[s].kind = "DIAL", NEW r, Free(w, s, r)
    PROVE  Free(v, s, r)
<1>1. \A id \in Id : GoesLeg(v, w, id) BY DEF Goes
<1>2. Has(w, r) BY DEF Free
<1>3. Has(v, r) /\ Places(v, r.id) BY <1>1, <1>2, HadLeg DEF Free
<1>4. r \notin v.txns[s].baseline BY DEF Free, Goes, GoesTxn, GoesDial
<1>5. ASSUME NEW o \in Slot \ {s}, v.txns[o].kind = "DIAL", v.txns[o].leg = r  PROVE FALSE
  <2>1. r # NoRef BY <1>2 DEF Has, NoRef
  <2>2. w.txns[o].kind = "DIAL" /\ w.txns[o].leg = r
    BY <2>1, <1>5, <1>2 DEF Goes, GoesTxn, GoesDial
  <2> QED BY <2>2, <1>5 DEF Free
<1> QED BY <1>3, <1>4, <1>5 DEF Free

LEMMA GoesOn ==
    ASSUME NEW u \in Model, NEW v \in Model, NEW w \in Model, NEW T, NEW U,
           Goes(u, v, T, U), Goes(v, w, T, U)
    PROVE  Goes(u, w, T, U)
<1>a. \A id \in Id : GoesLeg(u, v, id) /\ GoesLeg(v, w, id) BY DEF Goes
<1>b. \A s \in Slot : /\ GoesTxn(u, v, s, u.txns[s], v.txns[s], T, U)
                      /\ GoesTxn(v, w, s, v.txns[s], w.txns[s], T, U)
  BY DEF Goes
<1>1. \A id \in Id : GoesLeg(u, w, id)
  <2> TAKE id \in Id
  <2>1. u.gen[id] \in Nat /\ v.gen[id] \in Nat /\ w.gen[id] \in Nat BY DEF Model
  <2> QED BY <2>1, <1>a DEF GoesLeg
<1>2. ASSUME NEW s \in Slot  PROVE GoesTxn(u, w, s, u.txns[s], w.txns[s], T, U)
  <2> DEFINE a == u.txns[s]
             b == v.txns[s]
             c == w.txns[s]
  <2>1. c.kind # "NONE" => c.kind = a.kind /\ c.token = a.token BY <1>b DEF GoesTxn
  <2>2. ASSUME c.kind = "DIAL"  PROVE GoesDial(u, s, a, c, T, U)
    <3>1. b.kind = "DIAL" /\ GoesDial(u, s, a, b, T, U) /\ GoesDial(v, s, b, c, T, U)
      BY <2>2, <1>b DEF GoesTxn
    <3>2. \A r : Free(v, s, r) => Free(u, s, r) BY <3>1, FreeBefore
    <3>3. \A x, r : Free(x, s, r) => r # NoRef BY DEF Free, Has, NoRef
    <3> HIDE DEF a, b, c
    <3>4. b.leg # NoRef => c.leg = b.leg BY <3>1 DEF GoesDial
    <3>5. c.leg = a.leg \/ (a.leg = NoRef /\ Free(u, s, c.leg) /\ (a.tomb \/ a.state = "SENT"))
      BY <3>1, <3>2, <3>3, <3>4 DEF GoesDial
    <3>6. c.leg = NoRef => b.leg = NoRef BY <3>4
    <3>7. /\ IsTerminal(c) /\ c.leg = NoRef /\ ~c.tomb => s \in U \/ (IsTerminal(a) /\ ~a.tomb)
          /\ c.cleaned => s \in U \/ a.cleaned
      BY <3>1, <3>6 DEF GoesDial
    <3> QED BY <3>1, <3>5, <3>7 DEF GoesDial
  <2>3. ASSUME a.kind = "DIAL", a.leg # NoRef, Has(w, a.leg)  PROVE c.kind = "DIAL"
    <3>1. Has(v, a.leg) BY <2>3, <1>a, HadLeg
    <3>2. b.kind = "DIAL" /\ b.leg = a.leg BY <3>1, <2>3, <1>b DEF GoesTxn, GoesDial
    <3> QED BY <3>2, <2>3, <1>b DEF GoesTxn
  <2> QED BY <2>1, <2>2, <2>3 DEF GoesTxn
<1>3. GoesClaims(u, w)
  <2> SUFFICES ASSUME NEW r \in Claims(w), r \notin Claims(u)  PROVE Harmless(w, r)
    BY DEF GoesClaims
  <2>1. CASE r \in Claims(v)
    <3>1. Harmless(v, r) /\ r \in Refs BY <2>1, ClaimsType DEF Goes, GoesClaims
    <3> QED BY <3>1, <1>a, KnownStays
  <2>2. CASE r \notin Claims(v) BY <2>2 DEF Goes, GoesClaims
  <2> QED BY <2>1, <2>2
<1>4. w.token = u.token BY DEF Goes
<1> QED BY <1>1, <1>2, <1>3, <1>4 DEF Goes

LEMMA GoesNowhere == \A v, T, U : Goes(v, v, T, U)
  BY DEF Goes, GoesLeg, GoesTxn, GoesDial, GoesClaims

LEMMA GoesMore ==
    ASSUME NEW v, NEW w, NEW T, NEW U, NEW P \in SUBSET T, NEW Q \in SUBSET U, Goes(v, w, P, Q)
    PROVE  Goes(v, w, T, U)
BY DEF Goes, GoesTxn, GoesDial

Well(v, w, T, U) == Fit(w) /\ Goes(v, w, T, U)

LEMMA WellOn ==
    ASSUME NEW u, NEW v, NEW w, NEW T, NEW U, Fit(u), Well(u, v, T, U), Well(v, w, T, U)
    PROVE  Well(u, w, T, U)
BY GoesOn DEF Well, Fit

LEMMA WellNowhere == \A v, T, U : Fit(v) => Well(v, v, T, U)
  BY GoesNowhere DEF Well

LEMMA WellMore ==
    ASSUME NEW v, NEW w, NEW T, NEW U, Well(v, w, {}, {})
    PROVE  Well(v, w, T, U)
<1>1. {} \in SUBSET T /\ {} \in SUBSET U OBVIOUS
<1> QED BY <1>1, GoesMore DEF Well

LEMMA SweptStays ==
    ASSUME NEW v, NEW w, NEW T, Swept(v), Well(v, w, T, {})
    PROVE  Swept(w)
BY DEF Swept, Well, Goes, GoesTxn, GoesDial

(* Operators that leave the legs and the transactions alone.               *)
LEMMA SameTable ==
    ASSUME NEW v, Fit(v), NEW w \in Model, MtFits(w),
           w.gen = v.gen, w.token = v.token, w.txns = v.txns, w.releases = v.releases,
           \A id \in Id : /\ w.legs[id].state = v.legs[id].state
                          /\ w.legs[id].dir = v.legs[id].dir
                          /\ w.legs[id].call = v.legs[id].call
    PROVE  Well(v, w, {}, {})
<1>1. Fit(w) BY DEF Fit, LegFits
<1>2. Claims(w) = Claims(v) BY DEF Claims
<1>3. Goes(v, w, {}, {}) BY <1>2 DEF Goes, GoesLeg, GoesTxn, GoesDial, GoesClaims
<1> QED BY <1>1, <1>3 DEF Well

(* Operators that change the transactions only.                            *)
TxnFits(v, s, a, b, T, U) ==
    /\ GoesTxn(v, v, s, a, b, T, U)
    /\ b.kind = "DIAL" => FitDial(b)
    /\ b.kind \notin {"NONE", "DIAL"} => b.leg = a.leg \/ Harmless(v, b.leg)

LEMMA TxnsGo ==
    ASSUME NEW v, Fit(v), NEW ts \in [Slot -> Txn], NEW T, NEW U,
           \A s \in Slot : TxnFits(v, s, v.txns[s], ts[s], T, U)
    PROVE  Well(v, [v EXCEPT !.txns = ts], T, U)
<1> DEFINE w == [v EXCEPT !.txns = ts]
<1>0. v \in Model BY DEF Fit
<1>1. /\ w \in Model  /\ w.txns = ts  /\ w.legs = v.legs  /\ w.gen = v.gen  /\ w.mt = v.mt
      /\ w.token = v.token  /\ w.releases = v.releases
  BY <1>0, TxnsReplaced DEF Model
<1> HIDE DEF w
<1>2. \A r : Has(w, r) <=> Has(v, r) BY <1>1 DEF Has, InUse
<1>3. Fit(w) BY <1>1, <1>2 DEF Fit, MtFits, TxnFits
<1>4. \A s \in Slot : GoesTxn(v, w, s, v.txns[s], w.txns[s], T, U)
  BY <1>1, <1>2 DEF TxnFits, GoesTxn
<1>5. \A r : Harmless(v, r) => Harmless(w, r) BY <1>1, <1>2 DEF Harmless, Known, Taken
<1>6. ASSUME NEW r \in Claims(w)  PROVE r \in Claims(v) \/ Harmless(w, r)
  <2>1. CASE \E n \in DOMAIN v.releases : r = v.releases[n].leg BY <2>1 DEF Claims
  <2>2. CASE \E s \in Slot : w.txns[s].kind \notin {"NONE", "DIAL"} /\ r = w.txns[s].leg
    <3>1. PICK s \in Slot : ts[s].kind \notin {"NONE", "DIAL"} /\ r = ts[s].leg BY <2>2, <1>1
    <3>2. v.txns[s].kind = ts[s].kind BY <3>1 DEF TxnFits, GoesTxn
    <3>3. CASE r = v.txns[s].leg BY <3>1, <3>2, <3>3 DEF Claims
    <3>4. CASE Harmless(v, r) BY <3>4, <1>5
    <3> QED BY <3>1, <3>3, <3>4 DEF TxnFits
  <2> QED BY <1>1, <2>1, <2>2 DEF Claims
<1>7. Goes(v, w, T, U) BY <1>1, <1>4, <1>6 DEF Goes, GoesLeg, GoesClaims
<1> QED BY <1>3, <1>7 DEF Well, w

LEMMA TxnStays ==
    ASSUME NEW v, Fit(v), NEW s \in Slot, NEW T, NEW U
    PROVE  TxnFits(v, s, v.txns[s], v.txns[s], T, U)
BY DEF TxnFits, GoesTxn, GoesDial, Fit

(* One transaction replaced.                                               *)
LEMMA TxnGoes ==
    ASSUME NEW v, Fit(v), NEW s \in Slot, NEW t \in Txn, NEW T, NEW U,
           TxnFits(v, s, v.txns[s], t, T, U)
    PROVE  Well(v, [v EXCEPT !.txns[s] = t], T, U)
<1> DEFINE ts == [v.txns EXCEPT ![s] = t]
<1>1. v.txns \in [Slot -> Txn] BY DEF Fit, Model
<1>2. ts \in [Slot -> Txn] BY <1>1
<1>3. [v EXCEPT !.txns[s] = t] = [v EXCEPT !.txns = ts] BY DEF Fit, Model
<1>4. \A o \in Slot : TxnFits(v, o, v.txns[o], ts[o], T, U) BY <1>1, TxnStays
<1> HIDE DEF ts
<1> QED BY <1>2, <1>3, <1>4, TxnsGo

----------------------------------------------------------------------------
(* The operators, one by one.                                              *)

LEMMA FitModel == \A v : Fit(v) => v \in Model  BY DEF Fit

LEMMA NoMtFits == ~(NoMt.leg # NoRef)  BY DEF NoMt

LEMMA TouchGoes ==
    ASSUME NEW v, Fit(v)
    PROVE  Well(v, Touch(v), {}, {})
<1> DEFINE w == Touch(v)
<1>1. w \in Model BY FitModel, TouchKeeps
<1>2. /\ w.gen = v.gen  /\ w.token = v.token  /\ w.txns = v.txns  /\ w.releases = v.releases
      /\ w.legs = v.legs  /\ w.mt = v.mt
  BY FitModel DEF Touch, Model
<1> HIDE DEF w
<1>3. MtFits(w) BY <1>2 DEF Fit, MtFits, Has, InUse
<1>4. Well(v, w, {}, {}) BY <1>1, <1>2, <1>3, SameTable
<1> QED BY <1>4 DEF w

(* Changes of the ringing episode that leave its leg, or forget it.        *)
LEMMA MtGoes ==
    ASSUME NEW v, Fit(v), NEW mt \in MtType, mt.leg \in {NoRef, v.mt.leg}
    PROVE  Well(v, [v EXCEPT !.mt = mt], {}, {})
<1> DEFINE w == [v EXCEPT !.mt = mt]
<1>1. w \in Model BY FitModel, MtReplaced
<1>2. /\ w.gen = v.gen  /\ w.token = v.token  /\ w.txns = v.txns  /\ w.releases = v.releases
      /\ w.legs = v.legs  /\ w.mt = mt
  BY FitModel DEF Model
<1> HIDE DEF w
<1>3. MtFits(w) BY <1>2 DEF Fit, MtFits, Has, InUse
<1>4. Well(v, w, {}, {}) BY <1>1, <1>2, <1>3, SameTable
<1> QED BY <1>4 DEF w

LEMMA OnRingGoes ==
    ASSUME NEW v, Fit(v)
    PROVE  Well(v, OnRing(v), {}, {})
<1> DEFINE u == Touch(v)
           a == [u.mt EXCEPT !.missed = 0]
           b == [NoMt EXCEPT !.active = TRUE, !.gen = NewEpisode(v)]
<1>1. Well(v, u, {}, {}) BY TouchGoes
<1>2. u.mt = v.mt /\ u \in Model
  <2>1. v \in Model BY FitModel
  <2>2. u.mt = v.mt BY <2>1 DEF Touch, Model
  <2> QED BY <2>1, <2>2, TouchKeeps
<1>3. a \in MtType /\ a.leg = u.mt.leg
  <2>1. u.mt \in MtType BY <1>2, MtOf
  <2> HIDE DEF u
  <2> QED BY <2>1 DEF MtType
<1>4. b \in MtType /\ b.leg = NoRef
  BY FitModel, NewEpisodeType, Constants DEF NoMt, MtType
<1>5. OnRing(v) = [u EXCEPT !.mt = IF v.mt.active THEN a ELSE b] BY <1>2 DEF OnRing
<1> HIDE DEF u, a, b
<1>6. Fit(u) BY <1>1 DEF Well
<1>7. Well(u, [u EXCEPT !.mt = IF v.mt.active THEN a ELSE b], {}, {})
  BY <1>3, <1>4, <1>6, MtGoes
<1> QED BY <1>1, <1>5, <1>7, WellOn

LEMMA RingOverGoes ==
    ASSUME NEW v, Fit(v), NEW e
    PROVE  Well(v, RingOver(v, e), {}, {})
<1>1. NoMt \in MtType /\ NoMt.leg = NoRef BY Constants DEF MtType, NoMt
<1> QED BY <1>1, MtGoes, WellNowhere DEF RingOver

LEMMA MissMtGoes ==
    ASSUME NEW v, Fit(v)
    PROVE  Well(v, MissMt(v), {}, {})
<1> DEFINE missed == IF \E id \in InUse(v) : Ringing(v, id) THEN 0 ELSE v.mt.missed + 1
           mt == IF missed >= 2 THEN NoMt ELSE [v.mt EXCEPT !.missed = missed]
<1>1. CASE ~v.mt.active \/ v.mt.leg # NoRef BY <1>1, WellNowhere DEF MissMt
<1>2. CASE ~(~v.mt.active \/ v.mt.leg # NoRef)
  <2>1. MissMt(v) = [v EXCEPT !.mt = mt] BY <1>2 DEF MissMt
  <2>2. v.mt \in MtType BY FitModel, MtOf
  <2>3. mt \in MtType /\ mt.leg \in {NoRef, v.mt.leg}
    BY <2>2, Constants DEF MtType, NoMt
  <2> HIDE DEF mt
  <2> QED BY <2>1, <2>3, MtGoes
<1> QED BY <1>1, <1>2

LEMMA ShadowGoes ==
    ASSUME NEW v, Fit(v), NEW shadow \in {"closed", "open", "bad"}
    PROVE  Well(v, [v EXCEPT !.shadow = shadow], {}, {})
<1> DEFINE w == [v EXCEPT !.shadow = shadow]
<1>0. v \in Model BY FitModel
<1>1. /\ w.gen = v.gen  /\ w.token = v.token  /\ w.txns = v.txns  /\ w.releases = v.releases
      /\ w.legs = v.legs  /\ w.mt = v.mt
  BY <1>0 DEF Model
<1>3. w \in Model BY <1>0 DEF Model
<1> HIDE DEF w
<1>2. MtFits(w) BY <1>1 DEF Fit, MtFits, Has, InUse
<1>4. Well(v, w, {}, {}) BY <1>1, <1>2, <1>3, SameTable
<1> QED BY <1>4 DEF w

LEMMA ProjectGoes ==
    ASSUME NEW v, Fit(v)
    PROVE  Well(v, Project(v), {}, {})
<1> DEFINE frame == Frame(v, Holders(v, "ACTIVE"), Holders(v, "HELD"))
           shows == [v EXCEPT !.shown = frame,
                              !.legs = [id \in Id |-> IF id \in InUse(v) /\ Steady(v, id)
                                                      THEN [@[id] EXCEPT !.role = v.legs[id].state]
                                                      ELSE @[id]]]
           w == Project(v)
<1>1. w = v \/ w = shows BY DEF Project, ProjectAs, Publish
<1>2. w \in Model BY FitModel, ProjectKeeps
<1>3. v \in Model BY FitModel
<1> HIDE DEF frame
<1>4. /\ w.gen = v.gen  /\ w.token = v.token  /\ w.txns = v.txns  /\ w.releases = v.releases
      /\ w.mt = v.mt
  BY <1>1, <1>3 DEF Model
<1>5. \A id \in Id : /\ w.legs[id].state = v.legs[id].state  /\ w.legs[id].dir = v.legs[id].dir
                     /\ w.legs[id].call = v.legs[id].call
  <2> TAKE id \in Id
  <2>1. v.legs[id] \in Leg BY <1>3 DEF Model
  <2> DEFINE ls == [x \in Id |-> IF x \in InUse(v) /\ Steady(v, x)
                                 THEN [v.legs[x] EXCEPT !.role = v.legs[x].state] ELSE v.legs[x]]
  <2>a. shows.legs = ls BY <1>3 DEF Model
  <2>b. w.legs = v.legs \/ w.legs = ls BY <1>1, <2>a
  <2>2. w.legs[id] = v.legs[id] \/ w.legs[id] = [v.legs[id] EXCEPT !.role = v.legs[id].state]
    <3> HIDE DEF w
    <3> QED BY <2>b
  <2> HIDE DEF w
  <2> QED BY <2>1, <2>2 DEF Leg
<1> HIDE DEF w, shows
<1>6. MtFits(w) BY <1>4, <1>5 DEF Fit, MtFits, Has, InUse, Model, Refs, MtType
<1> QED BY <1>2, <1>4, <1>5, <1>6, SameTable DEF w

LEMMA NoRefHarmless == \A v : Harmless(v, NoRef) /\ ~Has(v, NoRef)
  BY CallModelAssumption DEF Harmless, Known, Has, NoRef

(* A release that is queued goes by a leg that is on its way out already.  *)
LEMMA ReleasesGo ==
    ASSUME NEW v, Fit(v), NEW q \in Seq(Queued),
           \A n \in DOMAIN q : q[n].leg \in Claims(v) \/ Harmless(v, q[n].leg)
    PROVE  Well(v, [v EXCEPT !.releases = q], {}, {})
<1> DEFINE w == [v EXCEPT !.releases = q]
<1>0. v \in Model BY FitModel
<1>1. w \in Model BY <1>0, RestKeeps
<1>2. /\ w.gen = v.gen  /\ w.token = v.token  /\ w.txns = v.txns  /\ w.releases = q
      /\ w.legs = v.legs  /\ w.mt = v.mt
  BY <1>0 DEF Model
<1> HIDE DEF w
<1>3. Fit(w) BY <1>1, <1>2 DEF Fit, MtFits, Has, InUse
<1>4. \A r : Harmless(v, r) => Harmless(w, r) BY <1>2 DEF Harmless, Known, Taken, Has, InUse
<1>5. GoesClaims(v, w)
  <2> SUFFICES ASSUME NEW r \in Claims(w)  PROVE r \in Claims(v) \/ Harmless(w, r)
    BY DEF GoesClaims
  <2>1. CASE \E n \in DOMAIN q : r = q[n].leg BY <2>1, <1>4
  <2>2. CASE ~\E n \in DOMAIN q : r = q[n].leg BY <2>2, <1>2 DEF Claims
  <2> QED BY <2>1, <2>2
<1>6. Goes(v, w, {}, {}) BY <1>2, <1>5 DEF Goes, GoesLeg, GoesTxn, GoesDial
<1> QED BY <1>3, <1>6 DEF Well, w

LEMMA QueueReleaseGoes ==
    ASSUME NEW v, Fit(v), NEW r \in Refs, r \in Claims(v) \/ Harmless(v, r), NEW recover \in BOOLEAN
    PROVE  Well(v, QueueRelease(v, r, recover), {}, {})
<1>0. v \in Model BY FitModel
<1>1. v.releases \in Seq(Queued) BY <1>0 DEF Model, Queued
<1>2. \A n \in DOMAIN v.releases : v.releases[n] \in Queued /\ v.releases[n].leg \in Claims(v)
  BY <1>1 DEF Claims
<1>3. CASE \E n \in DOMAIN v.releases : v.releases[n].leg = r
  <2> DEFINE q == v.releases
             new(n) == IF q[n].leg = r /\ recover THEN [q[n] EXCEPT !.recover = TRUE] ELSE q[n]
             p == [n \in DOMAIN q |-> new(n)]
  <2>1. QueueRelease(v, r, recover) = [v EXCEPT !.releases = p]
    BY <1>3 DEF QueueRelease
  <2>2. \A n \in DOMAIN q : new(n) \in Queued /\ new(n).leg = q[n].leg BY <1>2 DEF Queued
  <2>3. DOMAIN q = 1..Len(q) /\ Len(q) \in Nat
    <3> HIDE DEF q
    <3> QED BY <1>1 DEF q
  <2>4. p \in Seq(Queued)
    <3> HIDE DEF q, new
    <3>1. p \in [1..Len(q) -> Queued] BY <2>2, <2>3
    <3> QED BY <3>1, <2>3
  <2>5. \A n \in DOMAIN p : p[n].leg \in Claims(v)
    <3>1. \A n \in DOMAIN q : p[n] = new(n) OBVIOUS
    <3>2. DOMAIN p = DOMAIN q OBVIOUS
    <3> HIDE DEF p, new
    <3> QED BY <3>1, <3>2, <2>2, <1>2
  <2> HIDE DEF p
  <2> QED BY <2>1, <2>4, <2>5, ReleasesGo
<1>4. CASE ~\E n \in DOMAIN v.releases : v.releases[n].leg = r
  <2> DEFINE e == [leg |-> r, recover |-> recover]
             p == Append(v.releases, e)
  <2>1. QueueRelease(v, r, recover) = [v EXCEPT !.releases = p] BY <1>4 DEF QueueRelease
  <2>2. e \in Queued /\ e.leg = r BY DEF Queued
  <2> HIDE DEF e
  <2>3. p \in Seq(Queued) BY <1>1, <2>2
  <2>4. \A n \in DOMAIN p : p[n] = e \/ \E k \in DOMAIN v.releases : p[n] = v.releases[k]
    BY <1>1, <2>2
  <2>5. \A n \in DOMAIN p : p[n].leg \in Claims(v) \/ Harmless(v, p[n].leg)
    BY <2>2, <2>4, <1>2
  <2> HIDE DEF p
  <2> QED BY <2>1, <2>3, <2>5, ReleasesGo
<1> QED BY <1>3, <1>4

LEMMA AbandonLegGoes ==
    ASSUME NEW v, Fit(v), NEW t \in Txn
    PROVE  /\ Well(v, AbandonLeg(v, t), {}, {})
           /\ AbandonLeg(v, t).txns = v.txns
<1> DEFINE r == Owner(t)
           w == [v EXCEPT !.shadow = Touched(v),
                      !.legs[r.id].state = "RELEASING",
                      !.legs[r.id].leaving = TRUE,
                      !.revised = IF v.legs[r.id].state = "RELEASING" THEN @ ELSE Revise(v),
                      !.mt = Unbind(v, r.id)]
           b == t.kind = "RELEASE_ACTIVE" \/ (t.kind = "DIAL" /\ t.second)
<1>0. v \in Model BY FitModel
<1>1. r \in Refs BY Constants DEF Owner, Txn
<1>2. CASE ~Has(v, r) BY <1>2, WellNowhere DEF AbandonLeg
<1>3. CASE Has(v, r)
  <2>1. r.id \in InUse(v) /\ r.id \in Id /\ v.gen[r.id] = r.gen BY <1>3 DEF Has, InUse
  <2>2. AbandonLeg(v, t) = QueueRelease(w, r, b) BY <1>3 DEF AbandonLeg
  <2> HIDE DEF r, b
  <2>3. /\ w.gen = v.gen  /\ w.token = v.token  /\ w.txns = v.txns  /\ w.releases = v.releases
        /\ w.mt = Unbind(v, r.id)
    BY <1>0 DEF Model
  <2>4. \A id \in Id : IF id = r.id
          THEN w.legs[id] = [v.legs[id] EXCEPT !.state = "RELEASING", !.leaving = TRUE]
          ELSE w.legs[id] = v.legs[id]
    <3>1. v.legs \in [Id -> Leg] BY <1>0 DEF Model
    <3>2. w.legs = [v.legs EXCEPT ![r.id].state = "RELEASING", ![r.id].leaving = TRUE]
      BY <1>0 DEF Model
    <3> HIDE DEF w
    <3> QED BY <2>1, <3>1, <3>2 DEF Leg
  <2>5. \A id \in Id : v.legs[id] \in Leg BY <1>0 DEF Model
  <2> HIDE DEF w
  <2>6. \A id \in Id : /\ w.legs[id].dir = v.legs[id].dir  /\ w.legs[id].call = v.legs[id].call
                       /\ w.legs[id].state = IF id = r.id THEN "RELEASING" ELSE v.legs[id].state
    BY <2>4, <2>5 DEF Leg
  <2>7. w \in Model
    <3> DEFINE leg == [v.legs[r.id] EXCEPT !.state = "RELEASING", !.leaving = TRUE]
               sh == Touched(v)
               mt == Unbind(v, r.id)
               rev == IF v.legs[r.id].state = "RELEASING" THEN v.revised ELSE Revise(v)
               l == [v.legs EXCEPT ![r.id] = leg]
    <3>1. leg \in Leg BY <2>1, <2>5 DEF Leg
    <3>2. v.legs \in [Id -> Leg] BY <1>0 DEF Model
    <3>3. l \in [Id -> Leg]
      <4> HIDE DEF leg
      <4> QED BY <3>1, <3>2, <2>1
    <3>4. w.legs = l
      <4>1. w.legs = [v.legs EXCEPT ![r.id].state = "RELEASING", ![r.id].leaving = TRUE]
        BY <1>0 DEF Model, w
      <4>2. v.legs[r.id] \in Leg BY <2>1, <2>5
      <4> QED BY <4>1, <4>2, <3>2, <2>1 DEF Leg
    <3>5. mt \in MtType /\ sh \in {"closed", "open", "bad"} /\ rev \in BOOLEAN
      BY <1>0, <2>1, UnbindType DEF Model, Revise, Touched, MtType
    <3> DEFINE L == [v.legs EXCEPT ![r.id].state = "RELEASING", ![r.id].leaving = TRUE]
    <3>6. w = [v EXCEPT !.shadow = sh, !.legs = L, !.revised = rev, !.mt = mt]
      <4>1. w = [v EXCEPT !.shadow = sh, !.legs[r.id].state = "RELEASING",
                          !.legs[r.id].leaving = TRUE, !.revised = rev, !.mt = mt]
        BY DEF w
      <4> HIDE DEF sh, rev, mt
      <4> QED BY <4>1, <1>0, <2>1 DEF Model
    <3>a. w.legs = L BY <1>0 DEF Model, w
    <3>7. w = [v EXCEPT !.shadow = sh, !.legs = l, !.revised = rev, !.mt = mt]
      <4> HIDE DEF l, L, sh, rev, mt
      <4> QED BY <3>4, <3>6, <3>a
    <3> HIDE DEF l, sh, rev, mt
    <3>8. [v EXCEPT !.shadow = sh, !.legs = l, !.revised = rev, !.mt = mt] \in Model
      BY <1>0, <3>3, <3>5 DEF Model, MtType
    <3> QED BY <3>7, <3>8
  <2>8. InUse(w) = InUse(v) BY <2>1, <2>6 DEF InUse
  <2>9. MtFits(w)
    <3>1. w.mt = NoMt \/ (w.mt = v.mt /\ v.mt.leg # Ref(v, r.id)) BY <2>3 DEF Unbind
    <3>2. NoMt.leg = NoRef BY DEF NoMt
    <3>3. Has(v, v.mt.leg) => Has(w, v.mt.leg) /\ v.mt.leg.id \in Id
      BY <2>3, <2>8 DEF Has, InUse
    <3>4. CASE w.mt = NoMt BY <3>2, <3>4 DEF MtFits
    <3>5. CASE w.mt = v.mt
      <4> SUFFICES ASSUME v.mt.leg # NoRef
                   PROVE  Has(w, v.mt.leg) /\ w.legs[v.mt.leg.id].dir = "MT"
        BY <3>5 DEF MtFits
      <4>1. Has(v, v.mt.leg) /\ v.legs[v.mt.leg.id].dir = "MT" BY DEF Fit, MtFits
      <4> QED BY <4>1, <3>3, <2>6
    <3> QED BY <3>1, <3>4, <3>5
  <2>10. Fit(w)
    <3>1. \A id \in Id : w.legs[id].state # "FREE" => v.legs[id].state # "FREE"
      BY <2>1, <2>6 DEF InUse
    <3>2. \A id \in Id : w.gen[id] # 0 /\ (w.legs[id].state # "FREE" => LegFits(w.legs[id]))
      BY <3>1, <2>3, <2>6 DEF Fit, LegFits
    <3> QED BY <3>2, <2>3, <2>7, <2>9 DEF Fit
  <2>11. Claims(w) = Claims(v) BY <2>3 DEF Claims
  <2>12. Goes(v, w, {}, {})
    <3>1. \A id \in Id : GoesLeg(v, w, id) BY <2>1, <2>3, <2>6 DEF GoesLeg, InUse
    <3> QED BY <3>1, <2>3, <2>11 DEF Goes, GoesTxn, GoesDial, GoesClaims
  <2>13. Harmless(w, r)
    <3>1. Has(w, r) BY <1>3, <2>3, <2>8 DEF Has
    <3> QED BY <3>1, <2>1, <2>6 DEF Harmless, Known, Taken
  <2>14. Well(w, QueueRelease(w, r, b), {}, {})
    <3>1. b \in BOOLEAN BY DEF b
    <3>2. r \in Refs BY <1>1 DEF r
    <3> QED BY <3>1, <3>2, <2>10, <2>13, QueueReleaseGoes
  <2>15. QueueRelease(w, r, b).txns = w.txns BY <2>7 DEF QueueRelease, Model
  <2> QED BY <2>2, <2>3, <2>10, <2>12, <2>14, <2>15, WellOn DEF Well
<1> QED BY <1>2, <1>3

LEMMA WellTxns ==
    ASSUME NEW v, Fit(v), NEW w, NEW T, NEW U, Well(v, w, T, U), NEW s \in Slot
    PROVE  w \in Model /\ w.txns[s] \in Txn
BY FitModel, SlotTxn DEF Well

(* Cancelling a transaction, and giving it up: one that was sent becomes a *)
(* tombstone, the others are not touched.                                  *)
LEMMA CancelTxnGoes ==
    ASSUME NEW v, Fit(v), NEW s \in Slot, ~IsTerminal(v.txns[s]),
           NEW T, v.txns[s].kind = "DIAL" /\ v.txns[s].state = "SENT" => s \in T
    PROVE  /\ Well(v, CancelTxn(v, s), T, {})
           /\ \A o \in Slot \ {s} : CancelTxn(v, s).txns[o] = v.txns[o]
           /\ v.txns[s].kind = "DIAL" => CancelTxn(v, s).txns[s].kind # "DIAL"
                                         \/ CancelTxn(v, s).txns[s].tomb
<1> DEFINE t == v.txns[s]
           u == Touch(v)
           w == AbandonLeg(u, t)
<1>1. t \in Txn /\ v \in Model BY FitModel, SlotTxn
<1>2. u \in Model /\ u.txns = v.txns BY <1>1, TouchKeeps DEF Touch, Model
<1>3. Well(v, u, {}, {}) /\ Fit(u) BY TouchGoes DEF Well
<1>4. CASE t.state = "PENDING"
  <2>1. CancelTxn(v, s) = [u EXCEPT !.txns[s] = NoTxn] BY <1>4 DEF CancelTxn
  <2>2. t.kind = "DIAL" => t.leg = NoRef BY <1>4 DEF Fit, FitDial
  <2>3. TxnFits(u, s, u.txns[s], NoTxn, T, {})
    BY <1>2, <2>2 DEF TxnFits, GoesTxn, NoTxn
  <2>4. Well(u, [u EXCEPT !.txns[s] = NoTxn], T, {})
    <3> HIDE DEF u
    <3> QED BY <1>3, <2>3, Constants, TxnGoes
  <2>5. v.txns \in [Slot -> Txn] BY <1>1 DEF Model
  <2>6. [u EXCEPT !.txns[s] = NoTxn].txns = [v.txns EXCEPT ![s] = NoTxn]
    <3> HIDE DEF u
    <3> QED BY <1>2 DEF Model
  <2>7. NoTxn.kind # "DIAL" BY DEF NoTxn
  <2> HIDE DEF u
  <2> QED BY <2>1, <2>4, <2>5, <2>6, <2>7, <1>3, WellMore, WellOn
<1>5. CASE t.state # "PENDING"
  <2> DEFINE b == t.kind \in {"HOLD", "SWAP", "HANGUP"}
             n == [t EXCEPT !.state = "CANCELLED", !.tomb = TRUE, !.cleaned = b]
             W == [w EXCEPT !.txns[s].state = "CANCELLED", !.txns[s].tomb = TRUE,
                            !.txns[s].cleaned = b]
  <2>1. CancelTxn(v, s) = W BY <1>5 DEF CancelTxn
  <2>2. w.txns = v.txns /\ Well(u, w, {}, {})
    <3> HIDE DEF u
    <3> QED BY <1>1, <1>2, <1>3, AbandonLegGoes
  <2>3. w \in Model /\ Fit(w) BY <2>2, FitModel DEF Well
  <2>4. n \in Txn
    <3>1. b \in BOOLEAN OBVIOUS
    <3> HIDE DEF b
    <3> QED BY <1>1, <3>1 DEF Txn
  <2>5. W = [w EXCEPT !.txns[s] = n]
    <3> DEFINE R == [w.txns EXCEPT ![s].state = "CANCELLED", ![s].tomb = TRUE, ![s].cleaned = b]
    <3>1. w.txns \in [Slot -> Txn] /\ w.txns[s] = t /\ t \in Txn BY <1>1, <2>2 DEF Model
    <3>2. R = [w.txns EXCEPT ![s] = n]
      <4> HIDE DEF w, b, t
      <4> QED BY <1>1, <3>1 DEF Txn
    <3>3. W = [w EXCEPT !.txns = R]
      <4> HIDE DEF w, b
      <4> QED BY <2>3 DEF Model
    <3>4. [w EXCEPT !.txns = R] = [w EXCEPT !.txns[s] = n]
      <4> HIDE DEF w, n, R
      <4> QED BY <3>2
    <3> QED BY <3>3, <3>4
  <2>6. t.state = "SENT" BY <1>1, <1>5 DEF Txn, IsTerminal
  <2>7. /\ n.kind = t.kind  /\ n.token = t.token  /\ n.leg = t.leg  /\ n.second = t.second
        /\ n.baseline = t.baseline  /\ n.state = "CANCELLED"  /\ n.tomb = TRUE  /\ n.cleaned = b
    <3> HIDE DEF b
    <3> QED BY <1>1 DEF Txn
  <2>8. t.kind = "DIAL" => ~b OBVIOUS
  <2>9. TxnFits(w, s, w.txns[s], n, T, {})
    <3> HIDE DEF w, n, b
    <3> QED BY <2>2, <2>6, <2>7, <2>8 DEF TxnFits, GoesTxn, GoesDial, FitDial, IsTerminal
  <2>10. Well(w, [w EXCEPT !.txns[s] = n], T, {})
    <3> HIDE DEF w, n
    <3> QED BY <2>3, <2>4, <2>9, TxnGoes
  <2>11. Well(v, w, T, {})
    <3> HIDE DEF w, u
    <3> QED BY <1>3, <2>2, WellOn, WellMore
  <2>12. [w EXCEPT !.txns[s] = n].txns = [v.txns EXCEPT ![s] = n]
    <3> HIDE DEF w, n
    <3> QED BY <2>2, <2>3 DEF Model
  <2>13. v.txns \in [Slot -> Txn] BY <1>1 DEF Model
  <2>14. /\ \A o \in Slot \ {s} : W.txns[o] = v.txns[o]
         /\ W.txns[s] = n
    <3> HIDE DEF w, n, W
    <3> QED BY <2>5, <2>12, <2>13
  <2> HIDE DEF w, n, W, u
  <2> QED BY <2>1, <2>5, <2>7, <2>10, <2>11, <2>14, WellOn
<1> QED BY <1>4, <1>5

LEMMA GiveUpGoes ==
    ASSUME NEW v, Fit(v), NEW s \in Slot, NEW T, s \in T
    PROVE  Well(v, GiveUp(v, s), T, {})
<1>1. CASE ~(v.txns[s].kind # "NONE" /\ v.txns[s].state = "SENT")
  BY <1>1, WellNowhere DEF GiveUp
<1>2. CASE v.txns[s].kind # "NONE" /\ v.txns[s].state = "SENT"
  <2> DEFINE w == CancelTxn(v, s)
             n == [w.txns[s] EXCEPT !.state = "FAILED"]
  <2>1. ~IsTerminal(v.txns[s]) BY <1>2 DEF IsTerminal
  <2>2. Well(v, w, T, {}) /\ (v.txns[s].kind = "DIAL" => w.txns[s].kind # "DIAL" \/ w.txns[s].tomb)
    BY <2>1, CancelTxnGoes
  <2>3. GiveUp(v, s) = [w EXCEPT !.txns[s].state = "FAILED"] BY <1>2 DEF GiveUp
  <2> HIDE DEF w
  <2>4. w \in Model /\ w.txns[s] \in Txn /\ Fit(w) BY <2>2, WellTxns DEF Well
  <2>5. n \in Txn BY <2>4 DEF Txn
  <2>6. [w EXCEPT !.txns[s].state = "FAILED"] = [w EXCEPT !.txns[s] = n] BY <2>4 DEF Model
  <2>7. w.txns[s].kind = "DIAL" => w.txns[s].tomb /\ FitDial(w.txns[s])
    BY <2>2, <2>4 DEF Well, Goes, GoesTxn, Fit
  <2>8. TxnFits(w, s, w.txns[s], n, T, {})
    BY <2>4, <2>7 DEF TxnFits, GoesTxn, GoesDial, FitDial, IsTerminal, Txn
  <2>9. Well(w, [w EXCEPT !.txns[s] = n], T, {})
    <3> HIDE DEF n
    <3> QED BY <2>4, <2>5, <2>8, TxnGoes
  <2> QED BY <2>2, <2>3, <2>6, <2>9, WellOn
<1> QED BY <1>1, <1>2

LEMMA BindDialGoes ==
    ASSUME NEW v, Fit(v), NEW s \in Dials(v)
    PROVE  /\ Well(v, BindDial(v, s), {}, {})
           /\ \A o \in Slot \ {s} : BindDial(v, s).txns[o] = v.txns[o]
<1> DEFINE some == {id \in InUse(v) : /\ Ref(v, id) \notin v.txns[s].baseline
                                      /\ ~OwnedByOther(v, s, Ref(v, id))
                                      /\ Places(v, id)}
           id == CHOOSE id \in some : TRUE
           t == v.txns[s]
           n == [t EXCEPT !.leg = Ref(v, id)]
<1>0. v \in Model /\ s \in Slot /\ t \in Txn BY FitModel, SlotTxn DEF Dials
<1>1. CASE Cardinality(some) # 1
  <2>1. BindDial(v, s) = v BY <1>1 DEF BindDial
  <2> QED BY <2>1, WellNowhere
<1>2. CASE Cardinality(some) = 1
  <2>1. some # {} BY <1>2, FS_EmptySet
  <2>2. id \in some BY <2>1
  <2>3. id \in Id /\ id # 0 BY <2>2, CallModelAssumption DEF InUse
  <2>4. n \in Txn
    <3> HIDE DEF id
    <3> QED BY <1>0, <2>3, References DEF Txn
  <2>5. BindDial(v, s) = [v EXCEPT !.txns[s].leg = Ref(v, id)] BY <1>2 DEF BindDial
  <2>6. [v EXCEPT !.txns[s].leg = Ref(v, id)] = [v EXCEPT !.txns[s] = n]
    <3> HIDE DEF id
    <3> QED BY <1>0 DEF Model
  <2>7. Free(v, s, Ref(v, id))
    <3>1. id \in InUse(v) BY <2>2
    <3>2. Has(v, Ref(v, id)) /\ Ref(v, id).id = id
      <4> HIDE DEF id
      <4> QED BY <3>1, <2>3 DEF Has, Ref
    <3>3. /\ Places(v, id)  /\ Ref(v, id) \notin v.txns[s].baseline
          /\ ~OwnedByOther(v, s, Ref(v, id))
      BY <2>2
    <3> HIDE DEF id
    <3> QED BY <3>2, <3>3 DEF Free, OwnedByOther
  <2>8. /\ n.kind = t.kind  /\ n.token = t.token  /\ n.leg = Ref(v, id)  /\ n.second = t.second
        /\ n.baseline = t.baseline  /\ n.state = t.state  /\ n.tomb = t.tomb
        /\ n.cleaned = t.cleaned
    <3> HIDE DEF id
    <3> QED BY <1>0 DEF Txn
  <2>9. t.kind = "DIAL" /\ t.state = "SENT" /\ t.leg = NoRef /\ FitDial(t) BY DEF Dials, Fit
  <2>10. ~t.tomb /\ ~t.cleaned BY <2>9 DEF FitDial, IsTerminal
  <2> HIDE DEF n, id, t
  <2>11. TxnFits(v, s, t, n, {}, {})
    BY <2>7, <2>8, <2>9, <2>10 DEF TxnFits, GoesTxn, GoesDial, FitDial, IsTerminal
  <2>12. Well(v, [v EXCEPT !.txns[s] = n], {}, {}) BY <1>0, <2>4, <2>11, TxnGoes DEF t
  <2>13. v.txns \in [Slot -> Txn] BY <1>0 DEF Model
  <2>14. [v EXCEPT !.txns[s] = n].txns = [v.txns EXCEPT ![s] = n] BY <1>0 DEF Model
  <2> QED BY <2>5, <2>6, <2>12, <2>13, <2>14
<1> QED BY <1>1, <1>2

LEMMA TakeAndAbandonGoes ==
    ASSUME NEW v, Fit(v), NEW s \in Slot, v.txns[s].kind = "DIAL", v.txns[s].tomb,
           ~v.txns[s].cleaned, v.txns[s].leg = NoRef, NEW r \in Refs, Free(v, s, r)
    PROVE  /\ Well(v, TakeAndAbandon(v, s, r), {}, {})
           /\ \A o \in Slot : TakeAndAbandon(v, s, r).txns[o].tomb = v.txns[o].tomb
<1> DEFINE t == v.txns[s]
           n == [t EXCEPT !.leg = r]
           u == [v EXCEPT !.txns[s].leg = r]
<1>1. v \in Model /\ t \in Txn BY FitModel, SlotTxn
<1>2. n \in Txn BY <1>1 DEF Txn
<1>3. u = [v EXCEPT !.txns[s] = n] BY <1>1 DEF Model
<1>4. /\ n.kind = t.kind  /\ n.token = t.token  /\ n.leg = r  /\ n.second = t.second
      /\ n.baseline = t.baseline  /\ n.state = t.state  /\ n.tomb = t.tomb
      /\ n.cleaned = t.cleaned
  BY <1>1 DEF Txn
<1>5. FitDial(t) BY DEF Fit
<1>6. r # NoRef BY DEF Free, Has, NoRef
<1>7. TxnFits(v, s, v.txns[s], n, {}, {})
  <2> HIDE DEF n
  <2> QED BY <1>4, <1>5, <1>6 DEF TxnFits, GoesTxn, GoesDial, FitDial, IsTerminal
<1>8. Well(v, [v EXCEPT !.txns[s] = n], {}, {})
  <2> HIDE DEF n
  <2> QED BY <1>2, <1>7, TxnGoes
<1>9. v.txns \in [Slot -> Txn] BY <1>1 DEF Model
<1>10. \A o \in Slot : u.txns[o].tomb = v.txns[o].tomb
  <2>1. u.txns = [v.txns EXCEPT ![s] = n] BY <1>1, <1>3 DEF Model
  <2> HIDE DEF n, u
  <2> QED BY <2>1, <1>4, <1>9
<1>11. Well(v, u, {}, {}) BY <1>3, <1>8
<1>12. Fit(u) BY <1>11 DEF Well
<1>13. TakeAndAbandon(v, s, r) = AbandonLeg(u, n) BY DEF TakeAndAbandon
<1> HIDE DEF n, u
<1>14. Well(u, AbandonLeg(u, n), {}, {}) /\ AbandonLeg(u, n).txns = u.txns
  BY <1>2, <1>12, AbandonLegGoes
<1> QED BY <1>10, <1>11, <1>13, <1>14, WellOn

LEMMA BindTombstoneGoes ==
    ASSUME NEW v, Fit(v), Swept(v), NEW s \in Slot, v.txns[s].tomb
    PROVE  /\ Well(v, BindTombstone(v, s), {}, {})
           /\ \A o \in Slot : BindTombstone(v, s).txns[o].tomb = v.txns[o].tomb
<1> DEFINE t == v.txns[s]
           some == {id \in InUse(v) : /\ Steady(v, id) /\ Places(v, id)
                                      /\ Ref(v, id) \notin t.baseline
                                      /\ ~OwnedByOther(v, s, Ref(v, id))}
           id == CHOOSE id \in some : TRUE
           A == t.kind \in {"ANSWER", "WAIT_ANSWER"} /\ StateOf(v, t.leg) = "ACTIVE"
           B == t.kind = "DIAL" /\ t.leg = NoRef /\ Cardinality(some) = 1
<1>0. v \in Model /\ t \in Txn BY FitModel, SlotTxn
<1>1. CASE A
  <2>1. BindTombstone(v, s) = AbandonLeg(v, t) BY <1>1 DEF BindTombstone
  <2>2. Well(v, AbandonLeg(v, t), {}, {}) /\ AbandonLeg(v, t).txns = v.txns
    BY <1>0, AbandonLegGoes
  <2> QED BY <2>1, <2>2
<1>2. CASE B
  <2>1. some # {} BY <1>2, FS_EmptySet
  <2>2. id \in some BY <2>1
  <2>3. id \in Id /\ id # 0 /\ id \in InUse(v) BY <2>2, CallModelAssumption DEF InUse
  <2>4. BindTombstone(v, s) = TakeAndAbandon(v, s, Ref(v, id)) BY <1>2 DEF BindTombstone
  <2>5. Free(v, s, Ref(v, id))
    <3>1. Has(v, Ref(v, id)) /\ Ref(v, id).id = id
      <4> HIDE DEF id
      <4> QED BY <2>3 DEF Has, Ref
    <3>2. /\ Places(v, id)  /\ Ref(v, id) \notin v.txns[s].baseline
          /\ ~OwnedByOther(v, s, Ref(v, id))
      BY <2>2
    <3> HIDE DEF id
    <3> QED BY <3>1, <3>2 DEF Free, OwnedByOther
  <2>6. Ref(v, id) \in Refs
    <3> HIDE DEF id
    <3> QED BY <1>0, <2>3, References
  <2>7. ~t.cleaned BY <1>2 DEF Swept
  <2> HIDE DEF id
  <2> QED BY <1>2, <2>4, <2>5, <2>6, <2>7, TakeAndAbandonGoes
<1>3. CASE ~A /\ ~B
  <2>1. BindTombstone(v, s) = v BY <1>3 DEF BindTombstone
  <2> QED BY <2>1, WellNowhere
<1> QED BY <1>1, <1>2, <1>3

(* The passes over slots.  E says what is still to come of the slots that  *)
(* are not done yet.                                                       *)
LEMMA PassGoes ==
    ASSUME NEW base, Fit(base), NEW T, NEW S \in SUBSET Slot
    PROVE  /\ S \subseteq Dials(base) =>
                 \A f : IsFold([pass |-> "dials"], base, S, f) => Well(base, f[S], {}, {})
           /\ Swept(base) /\ S \subseteq Tombs(base) =>
                 \A f : IsFold([pass |-> "tombs"], base, S, f) => Well(base, f[S], {}, {})
           /\ S \subseteq T =>
                 \A f : IsFold([pass |-> "late"], base, S, f) => Well(base, f[S], T, {})
<1>0. base \in Model BY FitModel
<1>1. ASSUME S \subseteq Dials(base), NEW f, IsFold([pass |-> "dials"], base, S, f)
      PROVE  Well(base, f[S], {}, {})
  <2> DEFINE c == [pass |-> "dials"]
             Q == {q \in Model \X SUBSET S : /\ Well(base, q[1], {}, {})
                                             /\ \A o \in Slot \ q[2] : q[1].txns[o] = base.txns[o]}
  <2>1. c.pass = "dials" /\ IsFold(c, base, S, f) /\ IsFiniteSet(S) /\ Picks(c, S)
    BY <1>1, SlotsFinite, PickInOrder, PickAny
  <2>2. <<base, {}>> \in Q BY <1>0, WellNowhere
  <2> HIDE DEF c
  <2>3. ASSUME NEW s \in SUBSET S, NEW x \in s, NEW v, <<v, s \ {x}>> \in Q
        PROVE  <<Do(c, x, v), s>> \in Q
    <3>1. /\ Well(base, v, {}, {}) /\ Fit(v) /\ x \in Dials(base) /\ x \in Slot
          /\ \A o \in Slot \ (s \ {x}) : v.txns[o] = base.txns[o]
      BY <1>1, <2>3 DEF Well
    <3>2. x \in Dials(v) BY <3>1 DEF Dials
    <3>3. Do(c, x, v) = BindDial(v, x) BY <2>1 DEF Do
    <3>4. /\ Well(v, BindDial(v, x), {}, {})
          /\ \A o \in Slot \ {x} : BindDial(v, x).txns[o] = v.txns[o]
      BY <3>1, <3>2, BindDialGoes
    <3>5. Well(base, BindDial(v, x), {}, {}) BY <3>1, <3>4, WellOn
    <3>6. BindDial(v, x) \in Model BY <3>4, FitModel DEF Well
    <3>7. \A o \in Slot \ s : BindDial(v, x).txns[o] = base.txns[o] BY <3>1, <3>4
    <3> QED BY <3>3, <3>5, <3>6, <3>7
  <2>4. <<f[S], S>> \in Q
    <3> HIDE DEF Q
    <3> QED BY <2>1, <2>2, <2>3, FoldInduction
  <2> QED BY <2>4
<1>2. ASSUME Swept(base), S \subseteq Tombs(base), NEW f, IsFold([pass |-> "tombs"], base, S, f)
      PROVE  Well(base, f[S], {}, {})
  <2> DEFINE c == [pass |-> "tombs"]
             Q == {q \in Model \X SUBSET S : /\ Well(base, q[1], {}, {})
                                             /\ \A o \in Slot : q[1].txns[o].tomb = base.txns[o].tomb}
  <2>1. c.pass = "tombs" /\ IsFold(c, base, S, f) /\ IsFiniteSet(S) /\ Picks(c, S)
    BY <1>2, SlotsFinite, PickInOrder, PickAny
  <2>2. <<base, {}>> \in Q BY <1>0, WellNowhere
  <2> HIDE DEF c
  <2>3. ASSUME NEW s \in SUBSET S, NEW x \in s, NEW v, <<v, s \ {x}>> \in Q
        PROVE  <<Do(c, x, v), s>> \in Q
    <3>1. /\ Well(base, v, {}, {}) /\ Fit(v) /\ x \in Slot /\ base.txns[x].tomb
          /\ \A o \in Slot : v.txns[o].tomb = base.txns[o].tomb
      BY <1>2, <2>3 DEF Well, Tombs
    <3>2. Swept(v) /\ v.txns[x].tomb BY <1>2, <3>1, SweptStays
    <3>3. Do(c, x, v) = BindTombstone(v, x) BY <2>1 DEF Do
    <3>4. /\ Well(v, BindTombstone(v, x), {}, {})
          /\ \A o \in Slot : BindTombstone(v, x).txns[o].tomb = v.txns[o].tomb
      BY <3>1, <3>2, BindTombstoneGoes
    <3>5. Well(base, BindTombstone(v, x), {}, {}) BY <3>1, <3>4, WellOn
    <3>6. BindTombstone(v, x) \in Model BY <3>4, FitModel DEF Well
    <3> QED BY <3>1, <3>3, <3>4, <3>5, <3>6
  <2>4. <<f[S], S>> \in Q
    <3> HIDE DEF Q
    <3> QED BY <2>1, <2>2, <2>3, FoldInduction
  <2> QED BY <2>4
<1>3. ASSUME S \subseteq T, NEW f, IsFold([pass |-> "late"], base, S, f)
      PROVE  Well(base, f[S], T, {})
  <2> DEFINE c == [pass |-> "late"]
             Q == {q \in Model \X SUBSET S : Well(base, q[1], T, {})}
  <2>1. c.pass = "late" /\ IsFold(c, base, S, f) /\ IsFiniteSet(S) /\ Picks(c, S)
    BY <1>3, SlotsFinite, PickInOrder, PickAny
  <2>2. <<base, {}>> \in Q BY <1>0, WellNowhere
  <2> HIDE DEF c
  <2>3. ASSUME NEW s \in SUBSET S, NEW x \in s, NEW v, <<v, s \ {x}>> \in Q
        PROVE  <<Do(c, x, v), s>> \in Q
    <3>1. Well(base, v, T, {}) /\ Fit(v) /\ x \in Slot /\ x \in T BY <1>3, <2>3 DEF Well
    <3>3. Do(c, x, v) = GiveUp(v, x) BY <2>1 DEF Do
    <3>4. Well(v, GiveUp(v, x), T, {}) BY <3>1, GiveUpGoes
    <3>5. Well(base, GiveUp(v, x), T, {}) BY <3>1, <3>4, WellOn
    <3>6. GiveUp(v, x) \in Model BY <3>4, FitModel DEF Well
    <3> QED BY <3>3, <3>5, <3>6
  <2>4. <<f[S], S>> \in Q
    <3> HIDE DEF Q
    <3> QED BY <2>1, <2>2, <2>3, FoldInduction
  <2> QED BY <2>4
<1> QED BY <1>1, <1>2, <1>3

LEMMA CancelPassGoes ==
    ASSUME NEW base, Fit(base), NEW S \in SUBSET Slot, \A s \in S : base.txns[s].state = "PENDING",
           NEW f, IsFold([pass |-> "cancel"], base, S, f)
    PROVE  /\ Well(base, f[S], {}, {})
           /\ \A o \in Slot : f[S].txns[o] = IF o \in S THEN NoTxn ELSE base.txns[o]
<1>0. base \in Model BY FitModel
<1> DEFINE c == [pass |-> "cancel"]
           Q == {q \in Model \X SUBSET S :
                    /\ Well(base, q[1], {}, {})
                    /\ \A o \in Slot : q[1].txns[o] = IF o \in q[2] THEN NoTxn ELSE base.txns[o]}
<1>1. c.pass = "cancel" /\ IsFold(c, base, S, f) /\ IsFiniteSet(S) /\ Picks(c, S)
  BY SlotsFinite, PickInOrder, PickAny
<1>2. <<base, {}>> \in Q BY <1>0, WellNowhere
<1> HIDE DEF c
<1>3. ASSUME NEW s \in SUBSET S, NEW x \in s, NEW v, <<v, s \ {x}>> \in Q
      PROVE  <<Do(c, x, v), s>> \in Q
  <2>1. /\ Well(base, v, {}, {}) /\ Fit(v) /\ x \in Slot
        /\ \A o \in Slot : v.txns[o] = IF o \in s \ {x} THEN NoTxn ELSE base.txns[o]
    BY <1>3 DEF Well
  <2>2. v.txns[x].state = "PENDING" /\ ~IsTerminal(v.txns[x]) BY <2>1 DEF IsTerminal
  <2>3. Do(c, x, v) = CancelTxn(v, x) BY <1>1 DEF Do
  <2>4. /\ Well(v, CancelTxn(v, x), {}, {})
        /\ \A o \in Slot \ {x} : CancelTxn(v, x).txns[o] = v.txns[o]
    BY <2>1, <2>2, CancelTxnGoes
  <2>5. Well(base, CancelTxn(v, x), {}, {}) BY <2>1, <2>4, WellOn
  <2>6. CancelTxn(v, x) \in Model BY <2>4, FitModel DEF Well
  <2>7. CancelTxn(v, x).txns[x] = NoTxn
    <3>1. CancelTxn(v, x) = [Touch(v) EXCEPT !.txns[x] = NoTxn] BY <2>2 DEF CancelTxn
    <3>2. Touch(v) \in Model BY <2>1, FitModel, TouchKeeps
    <3> QED BY <3>1, <3>2, <2>1 DEF Model
  <2>8. \A o \in Slot : CancelTxn(v, x).txns[o] = IF o \in s THEN NoTxn ELSE base.txns[o]
    BY <2>1, <2>4, <2>7
  <2> QED BY <2>3, <2>5, <2>6, <2>8
<1>4. <<f[S], S>> \in Q
  <2> HIDE DEF Q
  <2> QED BY <1>1, <1>2, <1>3, FoldInduction
<1> QED BY <1>4

LEMMA FindRoleIs ==
    ASSUME NEW v \in Model, NEW st, st # "FREE"
    PROVE  LET r == FindRole(v, st) IN
           r = NoRef \/ (Has(v, r) /\ v.legs[r.id].state = st)
<1> DEFINE some == {id \in Id : v.legs[id].state = st}
           least(id) == \A o \in some : v.legs[id].slot <= v.legs[o].slot
           best == CHOOSE id \in some : least(id)
<1>1. CASE some = {} BY <1>1 DEF FindRole
<1>2. CASE some # {}
  <2> DEFINE S == {v.legs[id].slot : id \in some}
  <2>1. \A id \in Id : v.legs[id].slot \in Nat
    BY CallModelAssumption, FS_CardinalityType DEF Model, Leg
  <2>2. S \in SUBSET Nat /\ S # {} BY <2>1, <1>2
  <2>3. PICK n \in S : \A k \in S : n <= k
    <3> HIDE DEF S
    <3> QED BY <2>2, LeastNat
  <2>4. \E id \in some : least(id) BY <2>3
  <2>5. best \in some BY <2>4
  <2>6. FindRole(v, st) = Ref(v, best) BY <1>2 DEF FindRole
  <2>7. best \in Id /\ v.legs[best].state = st /\ best # 0 BY <2>5, CallModelAssumption
  <2> HIDE DEF best
  <2> QED BY <2>6, <2>7 DEF Has, Ref, InUse
<1> QED BY <1>1, <1>2

LEMMA BindTargetsGo ==
    ASSUME NEW v, Fit(v)
    PROVE  Well(v, ForEach(v, BindTarget), {}, {})
<1> DEFINE ts == [s \in Slot |-> BindTarget(v, v.txns[s])]
<1>0. v \in Model BY FitModel
<1>1. ts \in [Slot -> Txn] BY <1>0, BindTargetType, SlotTxn
<1>2. ASSUME NEW st \in {"INCOMING", "WAITING"}  PROVE Harmless(v, FindRole(v, st))
  <2> DEFINE r == FindRole(v, st)
  <2>0. st # "FREE" OBVIOUS
  <2>1. r = NoRef \/ (Has(v, r) /\ v.legs[r.id].state = st) BY <1>0, <2>0, FindRoleIs
  <2> HIDE DEF r
  <2>2. CASE r = NoRef
    <3>1. Harmless(v, NoRef) BY NoRefHarmless
    <3> QED BY <3>1, <2>2 DEF r
  <2>3. CASE Has(v, r) /\ v.legs[r.id].state = st
    <3>0. r.id \in Id /\ v.legs[r.id].state # "FREE" BY <2>3 DEF Has, InUse
    <3>1. LegFits(v.legs[r.id]) BY <3>0 DEF Fit
    <3>2. v.legs[r.id].dir = "MT" BY <3>1, <2>3 DEF LegFits
    <3>3. Harmless(v, r) BY <3>2, <2>3 DEF Harmless, Known, Taken
    <3> QED BY <3>3 DEF r
  <2> QED BY <2>1, <2>2, <2>3
<1>3. ASSUME NEW s \in Slot  PROVE TxnFits(v, s, v.txns[s], ts[s], {}, {})
  <2> DEFINE t == v.txns[s]
             r == FindRole(v, IF t.kind = "ANSWER" THEN "INCOMING" ELSE "WAITING")
  <2>1. CASE ts[s] = t BY <2>1, TxnStays
  <2>2. CASE ts[s] # t
    <3>1. t.kind \in {"ANSWER", "WAIT_ANSWER", "WAIT_REJECT"} /\ ts[s] = [t EXCEPT !.leg = r]
      BY <2>2 DEF BindTarget
    <3>2. Harmless(v, r) BY <1>2
    <3>3. t \in Txn BY <1>0, SlotTxn
    <3> HIDE DEF r, ts, t
    <3>4. ts[s].kind = t.kind /\ ts[s].token = t.token /\ ts[s].leg = r BY <3>1, <3>3 DEF Txn
    <3> QED BY <3>1, <3>2, <3>4 DEF TxnFits, GoesTxn, t
  <2> QED BY <2>1, <2>2
<1> HIDE DEF ts
<1> QED BY <1>1, <1>3, TxnsGo DEF ForEach, ts

(* A change of the state of transactions, or of what they know.            *)
LEMMA StateFits ==
    ASSUME NEW v, Fit(v), NEW s \in Slot, NEW b, NEW U, LET a == v.txns[s] IN
           /\ b.kind = a.kind  /\ b.token = a.token  /\ b.leg = a.leg  /\ b.second = a.second
           /\ b.baseline = a.baseline  /\ b.tomb = a.tomb
           /\ b.state = a.state \/ (IsTerminal(b) /\ a.state # "PENDING" /\ a.leg # NoRef)
              \/ (IsTerminal(b) /\ s \in U)
           /\ b.cleaned = a.cleaned \/ (s \in U /\ a.tomb /\ a.leg = NoRef)
           /\ a.tomb => IsTerminal(b)
    PROVE  TxnFits(v, s, v.txns[s], b, {}, U)
<1>1. b.kind = "DIAL" => FitDial(v.txns[s]) BY DEF Fit
<1>2. b.kind = "DIAL" => FitDial(b) BY <1>1 DEF FitDial, IsTerminal
<1> QED BY <1>2 DEF TxnFits, GoesTxn, GoesDial, IsTerminal

LEMMA ResolvesGo ==
    ASSUME NEW v, Fit(v)
    PROVE  Well(v, ForEach(v, Resolve), {}, {})
<1> DEFINE ts == [s \in Slot |-> Resolve(v, v.txns[s])]
<1>0. v \in Model BY FitModel
<1>1. ts \in [Slot -> Txn] BY <1>0, ResolveType, SlotTxn
<1>3. ASSUME NEW s \in Slot  PROVE TxnFits(v, s, v.txns[s], ts[s], {}, {})
  <2> DEFINE t == v.txns[s]
  <2>a. t \in Txn BY <1>0, SlotTxn
  <2>1. CASE t.kind = "NONE" \/ t.state # "SENT" BY <2>1, TxnStays DEF Resolve
  <2>2. CASE ~(t.kind = "NONE" \/ t.state # "SENT")
    <3>1. ts[s] = [t EXCEPT !.state = IF Succeeds(v, t) THEN "SUCCEEDED"
                                      ELSE IF Fails(v, t) THEN "FAILED" ELSE @]
      BY <2>2 DEF Resolve
    <3>2. t.kind = "DIAL" /\ (Succeeds(v, t) \/ Fails(v, t)) => t.leg # NoRef
      BY DEF Succeeds, Fails
    <3> DEFINE b == ts[s]
    <3>3. /\ b.kind = t.kind  /\ b.token = t.token  /\ b.leg = t.leg  /\ b.second = t.second
          /\ b.baseline = t.baseline  /\ b.tomb = t.tomb  /\ b.cleaned = t.cleaned
          /\ b.state = t.state \/ (b.state \in {"SUCCEEDED", "FAILED"}
                                   /\ (Succeeds(v, t) \/ Fails(v, t)))
      BY <2>a, <3>1 DEF Txn
    <3> HIDE DEF b, ts
    <3>4. CASE t.kind = "DIAL"
      <4>1. t.tomb => IsTerminal(t) BY <3>4 DEF Fit, FitDial
      <4>2. ~t.tomb BY <4>1, <2>2 DEF IsTerminal
      <4> QED BY <4>2, <2>2, <3>2, <3>3, <3>4, StateFits DEF IsTerminal, b
    <3>5. CASE t.kind # "DIAL"
      BY <3>3, <3>5, <2>2 DEF TxnFits, GoesTxn, b
    <3> QED BY <3>4, <3>5
  <2> QED BY <2>1, <2>2
<1> HIDE DEF ts
<1> QED BY <1>1, <1>3, TxnsGo DEF ForEach, ts

(* Reconciling, after and before the waiting dials were bound.             *)
LEMMA BindDialsGo ==
    ASSUME NEW v, Fit(v)
    PROVE  Well(v, BindDials(v), {}, {})
<1>1. Dials(v) \in SUBSET Slot BY DEF Dials
<1> QED BY <1>1, DialsFold, PassGoes

LEMMA BoundReconciles ==
    ASSUME NEW v, LET a == BindDials(v) IN Fit(a) /\ Swept(a), NEW late \in SUBSET Slot
    PROVE  Well(BindDials(v), Reconcile(v, late), late, {})
<1> DEFINE a == BindDials(v)
           b == ForEach(a, BindTarget)
           c == ForEach(b, Resolve)
           d == Overdue(c, late)
           e == BindTombstones(d)
<1>1. Reconcile(v, late) = e BY DEF Reconcile, Overdue
<1> HIDE DEF a
<1>0. Fit(a) /\ Swept(a) BY DEF a
<1>2. Well(a, b, {}, {}) BY <1>0, BindTargetsGo
<1> HIDE DEF b
<1>3. Well(b, c, {}, {}) BY <1>2, ResolvesGo DEF Well
<1> HIDE DEF c
<1>4. Well(c, d, late, {})
  <2>1. IsFiniteSet(late) BY SlotsFinite
  <2>2. PICK f : IsFold([pass |-> "late"], c, late, f) /\ d = f[late] BY <2>1, GiveUpFold
  <2>3. Fit(c) BY <1>3 DEF Well
  <2> HIDE DEF d
  <2> QED BY <2>2, <2>3, PassGoes
<1> HIDE DEF d
<1>5. Well(a, d, late, {}) BY <1>0, <1>2, <1>3, <1>4, WellOn, WellMore
<1>6. Fit(d) /\ Swept(d) BY <1>0, <1>5, SweptStays DEF Well
<1>7. Well(d, e, {}, {})
  <2>1. PICK f : IsFold([pass |-> "tombs"], d, Tombs(d), f) /\ e = f[Tombs(d)] BY TombsFold
  <2>2. Tombs(d) \in SUBSET Slot BY DEF Tombs
  <2> HIDE DEF e
  <2> QED BY <1>6, <2>1, <2>2, PassGoes
<1> HIDE DEF e
<1>8. Well(a, e, late, {}) BY <1>0, <1>5, <1>7, WellOn, WellMore
<1> QED BY <1>1, <1>8 DEF a

LEMMA ReconcileGoes ==
    ASSUME NEW v, Fit(v), Swept(v), NEW late \in SUBSET Slot
    PROVE  Well(v, Reconcile(v, late), late, {})
<1> DEFINE a == BindDials(v)
<1>1. Well(v, a, {}, {}) BY BindDialsGo
<1>2. Fit(a) /\ Swept(a) BY <1>1, SweptStays DEF Well
<1>3. Well(a, Reconcile(v, late), late, {}) BY <1>2, BoundReconciles
<1> HIDE DEF a
<1> QED BY <1>1, <1>3, WellMore, WellOn

----------------------------------------------------------------------------
(* What a listing and the tick do on top.                                  *)

(* A transaction that is not a dial may change in all but kind and leg.    *)
LEMMA OtherFits ==
    ASSUME NEW v, NEW s \in Slot, NEW b, NEW T, NEW U,
           b.kind = v.txns[s].kind, b.token = v.txns[s].token, b.leg = v.txns[s].leg,
           b.kind # "DIAL"
    PROVE  TxnFits(v, s, v.txns[s], b, T, U)
BY DEF TxnFits, GoesTxn

LEMMA ResolveNoLegGoes ==
    ASSUME NEW v, Fit(v)
    PROVE  Well(v, ForEach(v, ResolveNoLeg), {}, Slot)
<1> DEFINE ts == [s \in Slot |-> ResolveNoLeg(v, v.txns[s])]
<1>0. v \in Model BY FitModel
<1>a. \A t \in Txn : ResolveNoLeg(v, t) \in Txn BY DEF ResolveNoLeg, Txn
<1>1. ts \in [Slot -> Txn] BY <1>0, <1>a, SlotTxn
<1>3. ASSUME NEW s \in Slot  PROVE TxnFits(v, s, v.txns[s], ts[s], {}, Slot)
  <2> DEFINE t == v.txns[s]
  <2>1. CASE ts[s] = t BY <2>1, TxnStays
  <2>2. CASE ts[s] # t
    <3>1. t.state = "SENT" /\ ts[s] = [t EXCEPT !.state = "FAILED"] BY <2>2 DEF ResolveNoLeg
    <3>2. t \in Txn BY <1>0, SlotTxn
    <3> DEFINE b == ts[s]
    <3>3. /\ b.kind = t.kind  /\ b.token = t.token  /\ b.leg = t.leg  /\ b.second = t.second
          /\ b.baseline = t.baseline  /\ b.tomb = t.tomb  /\ b.cleaned = t.cleaned
          /\ b.state = "FAILED"
      BY <3>1, <3>2 DEF Txn
    <3>4. IsTerminal(b) BY <3>3 DEF IsTerminal
    <3> HIDE DEF b, ts
    <3> QED BY <3>3, <3>4, StateFits DEF b
  <2> QED BY <2>1, <2>2
<1> HIDE DEF ts
<1> QED BY <1>1, <1>3, TxnsGo DEF ForEach, ts

(* A tombstone of a dial without a leg has nothing more to wait for.       *)
LEMMA CleanedFits ==
    ASSUME NEW v, Fit(v), NEW s \in Slot, NEW U, s \in U,
           v.txns[s].tomb, v.txns[s].leg = NoRef
    PROVE  LET b == [v.txns[s] EXCEPT !.cleaned = TRUE] IN
           b \in Txn /\ TxnFits(v, s, v.txns[s], b, {}, U)
<1> DEFINE t == v.txns[s]
           b == [t EXCEPT !.cleaned = TRUE]
<1>1. t \in Txn BY FitModel, SlotTxn
<1>2. /\ b.kind = t.kind  /\ b.token = t.token  /\ b.leg = t.leg  /\ b.second = t.second
      /\ b.baseline = t.baseline  /\ b.tomb = t.tomb  /\ b.cleaned  /\ b.state = t.state
  BY <1>1 DEF Txn
<1>3. b \in Txn BY <1>1 DEF Txn
<1> HIDE DEF b
<1>4. CASE t.kind = "DIAL"
  <2>1. IsTerminal(t) BY <1>4 DEF Fit, FitDial
  <2>2. IsTerminal(b) BY <2>1, <1>2 DEF IsTerminal
  <2> QED BY <1>2, <1>3, <2>2, StateFits DEF b
<1>5. CASE t.kind # "DIAL" BY <1>2, <1>3, <1>5, OtherFits DEF b
<1> QED BY <1>4, <1>5

LEMMA ResolveTombstoneGoes ==
    ASSUME NEW v, Fit(v)
    PROVE  Well(v, ForEach(v, ResolveTombstone), {}, Slot)
<1> DEFINE ts == [s \in Slot |-> ResolveTombstone(v, v.txns[s])]
<1>3. ASSUME NEW s \in Slot
      PROVE  ts[s] \in Txn /\ TxnFits(v, s, v.txns[s], ts[s], {}, Slot)
  <2> DEFINE t == v.txns[s]
  <2>1. CASE ts[s] = t BY <2>1, TxnStays, FitModel, SlotTxn
  <2>2. CASE ts[s] # t
    <3>1. t.tomb /\ t.leg = NoRef /\ ts[s] = [t EXCEPT !.cleaned = TRUE]
      BY <2>2 DEF ResolveTombstone
    <3> HIDE DEF ts
    <3> QED BY <3>1, CleanedFits
  <2> QED BY <2>1, <2>2
<1>1. ts \in [Slot -> Txn] BY <1>3
<1> HIDE DEF ts
<1> QED BY <1>1, <1>3, TxnsGo DEF ForEach, ts

LEMMA TombstoneDueGoes ==
    ASSUME NEW v, Fit(v), NEW e, e.kind = "tombstone" => /\ e.at \in Slot /\ v.txns[e.at].tomb
                                                         /\ v.txns[e.at].leg = NoRef
    PROVE  Well(v, TombstoneDue(v, e), {}, Slot)
<1>1. CASE e.kind # "tombstone" BY <1>1, WellNowhere DEF TombstoneDue
<1>2. CASE e.kind = "tombstone"
  <2> DEFINE n == [v.txns[e.at] EXCEPT !.cleaned = TRUE]
             w == [v EXCEPT !.txns[e.at].cleaned = TRUE]
  <2>1. TombstoneDue(v, e) = w BY <1>2 DEF TombstoneDue
  <2>2. n \in Txn /\ TxnFits(v, e.at, v.txns[e.at], n, {}, Slot) BY <1>2, CleanedFits
  <2>3. w = [v EXCEPT !.txns[e.at] = n] BY <1>2, FitModel DEF Model
  <2> HIDE DEF n, w
  <2> QED BY <1>2, <2>1, <2>2, <2>3, TxnGoes
<1> QED BY <1>1, <1>2

LEMMA TidyStays ==
    ASSUME NEW v, NEW w, NEW T, Tidy(v), Well(v, w, T, {})
    PROVE  Tidy(w)
<1>1. Swept(w) BY SweptStays DEF Tidy
<1>2. Neat(w)
  <2> SUFFICES ASSUME NEW s \in Slot, w.txns[s].kind = "DIAL", IsTerminal(w.txns[s]),
                      w.txns[s].leg = NoRef, ~w.txns[s].tomb
               PROVE  FALSE
    BY DEF Neat
  <2> DEFINE a == v.txns[s]
             b == w.txns[s]
  <2>1. a.kind = "DIAL" /\ GoesDial(v, s, a, b, T, {}) BY DEF Well, Goes, GoesTxn
  <2>2. a.leg = NoRef /\ IsTerminal(a) /\ ~a.tomb BY <2>1 DEF GoesDial
  <2> QED BY <2>1, <2>2 DEF Tidy, Neat
<1> QED BY <1>1, <1>2 DEF Tidy

LEMMA RetireGoes ==
    ASSUME NEW v, Fit(v), NEW S
    PROVE  /\ Well(v, Retire(v, S), {}, {})
           /\ Slot \subseteq S => Tidy(Retire(v, S))
           /\ \A s \in Slot : Retire(v, S).txns[s] \in {v.txns[s], NoTxn}
<1> DEFINE ts == [s \in Slot |-> IF s \in S /\ Retirable(v, s) THEN NoTxn ELSE v.txns[s]]
           w == Retire(v, S)
<1>0. v \in Model BY FitModel
<1>1. ts \in [Slot -> Txn] BY <1>0, Constants, SlotTxn
<1>2. w = [v EXCEPT !.txns = ts] BY DEF Retire
<1>3. w.txns = ts /\ \A s \in Slot : ts[s] \in {v.txns[s], NoTxn} BY <1>0, <1>2 DEF Model
<1>4. NoTxn.kind = "NONE" BY DEF NoTxn
<1>5. ASSUME NEW s \in Slot  PROVE TxnFits(v, s, v.txns[s], ts[s], {}, {})
  <2>1. CASE ~(s \in S /\ Retirable(v, s)) BY <2>1, TxnStays
  <2>2. CASE s \in S /\ Retirable(v, s)
    <3> DEFINE t == v.txns[s]
    <3>1. ts[s] = NoTxn BY <2>2
    <3>2. ~(t.kind = "DIAL" /\ t.leg # NoRef /\ Has(v, t.leg))
      <4> SUFFICES ASSUME t.kind = "DIAL", t.leg # NoRef, Has(v, t.leg)  PROVE FALSE  OBVIOUS
      <4>1. ~t.cleaned BY DEF Fit, FitDial
      <4>2. ~CleanupResolved(v, t) BY <4>1 DEF CleanupResolved
      <4> QED BY <4>2, <2>2 DEF Retirable
    <3> HIDE DEF ts
    <3> QED BY <3>1, <3>2, <1>4 DEF TxnFits, GoesTxn
  <2> QED BY <2>1, <2>2
<1>6. Well(v, w, {}, {})
  <2> HIDE DEF ts, w
  <2> QED BY <1>1, <1>2, <1>5, TxnsGo
<1>7. ASSUME Slot \subseteq S  PROVE Tidy(w)
  <2> SUFFICES ASSUME NEW s \in Slot, w.txns[s].kind = "DIAL"
               PROVE  /\ ~w.txns[s].cleaned
                      /\ IsTerminal(w.txns[s]) /\ w.txns[s].leg = NoRef => w.txns[s].tomb
    BY DEF Tidy, Swept, Neat
  <2> DEFINE t == v.txns[s]
  <2>1. w.txns[s] = t /\ ~Retirable(v, s) BY <1>3, <1>4, <1>7
  <2>2. t.kind = "DIAL" BY <2>1
  <2>3. t.cleaned => IsTerminal(t) BY <2>2 DEF Fit, FitDial
  <2>4. t.cleaned => CleanupResolved(v, t) BY DEF CleanupResolved
  <2>5. t.leg = NoRef /\ ~t.tomb => CleanupResolved(v, t) BY <2>2 DEF CleanupResolved
  <2> HIDE DEF w, ts
  <2> QED BY <2>1, <2>3, <2>4, <2>5 DEF Retirable
<1> HIDE DEF w, ts
<1> QED BY <1>3, <1>6, <1>7 DEF w

LEMMA EvictGoes ==
    ASSUME NEW v, Fit(v), NEW id \in Id
    PROVE  Well(v, Evict(v, id), {}, {})
<1> DEFINE w == Evict(v, id)
<1>0. v \in Model BY FitModel
<1>1. w \in Model /\ w.legs = [v.legs EXCEPT ![id] = NoLeg] BY <1>0, EvictType
<1>2. /\ w.gen = [v.gen EXCEPT ![id] = @ + 1]  /\ w.mt = Unbind(v, id)  /\ w.txns = v.txns
      /\ w.token = v.token  /\ w.releases = v.releases
  BY <1>0 DEF Evict, Model
<1> HIDE DEF w
<1>3. \A o \in Id : IF o = id THEN w.legs[o].state = "FREE" /\ w.gen[o] = v.gen[o] + 1
                    ELSE w.legs[o] = v.legs[o] /\ w.gen[o] = v.gen[o]
  BY <1>0, <1>1, <1>2 DEF Model, NoLeg
<1>4. \A o \in Id : v.gen[o] \in Nat BY <1>0 DEF Model
<1>5. \A o \in Id : w.gen[o] # 0 /\ (w.legs[o].state # "FREE" => LegFits(w.legs[o]))
  <2> TAKE o \in Id
  <2>1. CASE o = id BY <2>1, <1>3, <1>4
  <2>2. CASE o # id BY <2>2, <1>3 DEF Fit
  <2> QED BY <2>1, <2>2
<1>6. MtFits(w)
  <2>1. w.mt = NoMt \/ (w.mt = v.mt /\ v.mt.leg # Ref(v, id)) BY <1>2 DEF Unbind
  <2>2. CASE w.mt = NoMt BY <2>2, NoMtFits DEF MtFits
  <2>3. CASE w.mt = v.mt /\ v.mt.leg # Ref(v, id)
    <3> SUFFICES ASSUME v.mt.leg # NoRef
                 PROVE  Has(w, v.mt.leg) /\ w.legs[v.mt.leg.id].dir = "MT"
      BY <2>3 DEF MtFits
    <3> DEFINE r == v.mt.leg
    <3>1. Has(v, r) /\ v.legs[r.id].dir = "MT" BY DEF Fit, MtFits
    <3>2. r \in Refs BY <1>0, MtOf DEF MtType
    <3>3. r.id \in Id /\ v.gen[r.id] = r.gen BY <3>1 DEF Has, InUse
    <3>4. r = [id |-> r.id, gen |-> r.gen] BY <3>2 DEF Refs
    <3>5. r.id # id BY <2>3, <3>3, <3>4 DEF Ref
    <3> HIDE DEF r
    <3> QED BY <1>3, <3>1, <3>3, <3>5 DEF Has, InUse, r
  <2> QED BY <2>1, <2>2, <2>3
<1>7. Fit(w) BY <1>1, <1>2, <1>5, <1>6 DEF Fit
<1>8. \A o \in Id : GoesLeg(v, w, o) BY <1>3, <1>4 DEF GoesLeg
<1>9. Claims(w) = Claims(v) BY <1>2 DEF Claims
<1>10. Goes(v, w, {}, {}) BY <1>2, <1>8, <1>9 DEF Goes, GoesTxn, GoesDial, GoesClaims
<1> QED BY <1>7, <1>10 DEF Well, w

(* The tick: e is the deadline that passes, or none.                       *)
Due(v, e) == e = Calm \/ e \in Expiries(v)
LateOf(e) == IF e.kind = "abandon" THEN {e.at} ELSE {}

LEMMA DueIs ==
    ASSUME NEW v, NEW e, Due(v, e)
    PROVE  /\ e.kind = "abandon" => e.at \in Slot
           /\ e.kind = "tombstone" => /\ e.at \in Slot  /\ v.txns[e.at].tomb
                                      /\ v.txns[e.at].leg = NoRef
           /\ e.kind = "limbo" => e.at \in Id
BY DEF Due, Calm, Expiries, Expiry, InUse

LEMMA TickGoes ==
    ASSUME NEW v, Fit(v), NEW e, Due(v, e)
    PROVE  Well(v, Tick(v, e), LateOf(e), Slot) /\ Tidy(Tick(v, e))
<1> DEFINE late == LateOf(e)
           a == TombstoneDue(v, e)
           b == Retire(a, Slot)
           c == Reconcile(b, late)
           d == Limbo(c, e)
           f == RingOver(d, e)
<1>0. late \in SUBSET Slot BY DueIs DEF LateOf
<1>1. Tick(v, e) = f BY DEF Tick, LateOf
<1> HIDE DEF late
<1>2. Well(v, a, {}, Slot) BY DueIs, TombstoneDueGoes
<1> HIDE DEF a
<1>3. Well(a, b, {}, {}) /\ Tidy(b) BY <1>2, RetireGoes DEF Well
<1> HIDE DEF b
<1>4. Well(b, c, late, {}) BY <1>0, <1>3, ReconcileGoes DEF Well, Tidy
<1>5. Fit(c) BY <1>4 DEF Well
<1> HIDE DEF c
<1>6. Well(c, d, {}, {})
  <2>1. CASE d = c BY <2>1, <1>5, WellNowhere
  <2>2. CASE d # c
    <3>1. e.kind = "limbo" /\ d = Evict(c, e.at) BY <2>2 DEF Limbo
    <3> HIDE DEF d
    <3> QED BY <3>1, <1>5, DueIs, EvictGoes
  <2> QED BY <2>1, <2>2
<1> HIDE DEF d
<1>7. Well(d, f, {}, {}) BY <1>6, RingOverGoes DEF Well
<1> HIDE DEF f
<1>8. Well(b, f, late, {})
  <2>1. Well(c, f, {}, {}) BY <1>5, <1>6, <1>7, WellOn
  <2> QED BY <1>3, <1>4, <2>1, WellOn, WellMore DEF Well
<1>9. Tidy(f) BY <1>3, <1>8, TidyStays
<1>10. Well(v, f, late, Slot)
  <2>1. Well(v, a, late, Slot) BY <1>2, GoesMore DEF Well
  <2>2. Well(a, b, late, Slot) BY <1>3, WellMore
  <2>3. Well(b, f, late, Slot) BY <1>8, GoesMore DEF Well
  <2> QED BY <2>1, <2>2, <2>3, WellOn DEF Well
<1> QED BY <1>1, <1>9, <1>10 DEF late

(* A release of a leg that the table before had a claim to.                *)
LEMMA ClaimReleased ==
    ASSUME NEW u, NEW v, Fit(u), Well(u, v, {}, {}),
           NEW r \in Refs, r \in Claims(u), NEW recover \in BOOLEAN
    PROVE  Well(u, QueueRelease(v, r, recover), {}, {}) /\ QueueRelease(v, r, recover).txns = v.txns
<1> DEFINE w == QueueRelease(v, r, recover)
<1>0. v \in Model /\ Fit(v) BY FitModel DEF Well
<1>1. w \in Model BY <1>0, QueueReleaseKeeps
<1>2. /\ w.gen = v.gen  /\ w.token = v.token  /\ w.txns = v.txns  /\ w.legs = v.legs  /\ w.mt = v.mt
  BY <1>0 DEF QueueRelease, Model
<1>3. \A n \in DOMAIN w.releases : w.releases[n].leg = r
                                   \/ \E k \in DOMAIN v.releases : w.releases[n].leg = v.releases[k].leg
  <2>0. v.releases \in Seq(Queued) BY <1>0 DEF Model, Queued
  <2>1. CASE \E n \in DOMAIN v.releases : v.releases[n].leg = r
    <3> DEFINE new(q, n) == IF q[n].leg = r /\ recover THEN [q[n] EXCEPT !.recover = TRUE] ELSE q[n]
    <3>1. w.releases = [n \in DOMAIN v.releases |-> new(v.releases, n)]
      BY <1>0, <2>1 DEF QueueRelease, Model
    <3>2. \A n \in DOMAIN v.releases : v.releases[n] \in Queued BY <2>0
    <3>3. \A n \in DOMAIN v.releases : new(v.releases, n).leg = v.releases[n].leg
      BY <3>2 DEF Queued
    <3> HIDE DEF w, new
    <3> QED BY <3>1, <3>3
  <2>2. CASE ~\E n \in DOMAIN v.releases : v.releases[n].leg = r
    <3> DEFINE e == [leg |-> r, recover |-> recover]
    <3>1. w.releases = Append(v.releases, e) BY <1>0, <2>2 DEF QueueRelease, Model
    <3>2. e.leg = r OBVIOUS
    <3>3. e \in Queued BY DEF Queued
    <3> HIDE DEF e, w
    <3> QED BY <2>0, <3>1, <3>2, <3>3
  <2> QED BY <2>1, <2>2
<1> HIDE DEF w
<1>4. \A x : Has(w, x) <=> Has(v, x) BY <1>2 DEF Has, InUse
<1>5. Fit(w) BY <1>0, <1>1, <1>2, <1>4 DEF Fit, MtFits
<1>6. \A x : Harmless(v, x) => Harmless(w, x) BY <1>2, <1>4 DEF Harmless, Known, Taken
<1>7. Claims(w) \subseteq Claims(v) \cup {r} BY <1>2, <1>3 DEF Claims
<1>8. GoesClaims(u, w) BY <1>6, <1>7 DEF Well, Goes, GoesClaims
<1>9. Goes(u, w, {}, {}) BY <1>2, <1>4, <1>8 DEF Well, Goes, GoesLeg, GoesTxn, GoesDial
<1> QED BY <1>2, <1>5, <1>9 DEF Well, w

(* A leg that rings was called in already, so its direction stays.         *)
LEMMA BindExistingGoes ==
    ASSUME NEW v, Fit(v)
    PROVE  Well(v, BindExisting(v), {}, {})
<1> DEFINE some == {id \in InUse(v) : Steady(v, id) /\ Ringing(v, id) /\ v.legs[id].dir # "MO"}
           one == CHOOSE id \in some : TRUE
           A == v.mt.active /\ v.mt.leg = NoRef /\ Cardinality(some) = 1
           w == BindExisting(v)
<1>0. v \in Model BY FitModel
<1>1. CASE ~A
  <2>1. w = v BY <1>1 DEF BindExisting
  <2> QED BY <2>1, WellNowhere
<1>2. CASE A
  <2>1. some # {}
    <3> HIDE DEF some
    <3> QED BY <1>2, OneIsSome
  <2>2. one \in some BY <2>1
  <2>3. one \in Id /\ one # 0 /\ v.legs[one].state \in {"INCOMING", "WAITING"}
    BY <2>2, CallModelAssumption DEF InUse, Ringing
  <2>4. v.legs[one].state # "FREE" /\ v.legs[one].dir = "MT"
    <3> HIDE DEF one
    <3> QED BY <2>3 DEF Fit, LegFits
  <2>5. w = [v EXCEPT !.mt.leg = Ref(v, one), !.legs[one].dir = "MT"]
    BY <1>2 DEF BindExisting
  <2>6. w \in Model BY <1>0, BindExistingKeeps
  <2> HIDE DEF one, w
  <2>7. /\ w.gen = v.gen  /\ w.token = v.token  /\ w.txns = v.txns  /\ w.releases = v.releases
        /\ w.legs = [v.legs EXCEPT ![one].dir = "MT"]  /\ w.mt = [v.mt EXCEPT !.leg = Ref(v, one)]
    BY <1>0, <2>5 DEF Model
  <2>8. v.legs \in [Id -> Leg] /\ v.mt \in MtType BY <1>0, MtOf DEF Model
  <2>9. \A id \in Id : /\ w.legs[id].state = v.legs[id].state  /\ w.legs[id].dir = v.legs[id].dir
                       /\ w.legs[id].call = v.legs[id].call
    BY <2>3, <2>4, <2>7, <2>8 DEF Leg
  <2>10. w.mt.leg = Ref(v, one) BY <2>7, <2>8 DEF MtType
  <2>11. MtFits(w) BY <2>3, <2>4, <2>7, <2>9, <2>10 DEF MtFits, Has, Ref, InUse
  <2> QED BY <2>6, <2>7, <2>9, <2>11, SameTable DEF w
<1> QED BY <1>1, <1>2

LEMMA OnClipGoes ==
    ASSUME NEW v, Fit(v)
    PROVE  Well(v, OnClip(v), {}, {})
<1> DEFINE u == OnRing(v)
<1>1. Well(v, u, {}, {}) BY OnRingGoes
<1> HIDE DEF u
<1>2. Well(u, BindExisting(u), {}, {}) BY <1>1, BindExistingGoes DEF Well
<1> QED BY <1>1, <1>2, WellOn DEF OnClip, u

LEMMA OnBareFinalGoes ==
    ASSUME NEW v, Fit(v)
    PROVE  Well(v, OnBareFinal(v), {}, {})
<1> DEFINE some == {s \in Slot : /\ v.txns[s].state = "SENT"
                                 /\ v.txns[s].kind \in {"DIAL", "ANSWER", "HANGUP",
                                                        "RELEASE_ACTIVE", "RELEASE_LEG"}}
           s == CHOOSE s \in some : TRUE
           u == Touch(v)
           n == [u.txns[s] EXCEPT !.cause = TRUE]
<1>1. Well(v, u, {}, {}) /\ Fit(u) /\ u \in Model BY TouchGoes, FitModel DEF Well
<1>2. CASE Cardinality(some) # 1
  <2>1. OnBareFinal(v) = u BY <1>2 DEF OnBareFinal
  <2> QED BY <2>1, <1>1
<1>3. CASE Cardinality(some) = 1
  <2>1. some # {} BY <1>3, FS_EmptySet
  <2>2. s \in Slot BY <2>1
  <2>3. OnBareFinal(v) = [u EXCEPT !.txns[s].cause = TRUE] BY <1>3 DEF OnBareFinal
  <2> HIDE DEF s, u
  <2>4. OnBareFinal(v) = [u EXCEPT !.txns[s] = n] BY <2>3, <1>1 DEF Model
  <2>5. u.txns[s] \in Txn BY <2>2, <1>1, SlotTxn
  <2>6. n \in Txn BY <2>5 DEF Txn
  <2>7. /\ n.kind = u.txns[s].kind  /\ n.token = u.txns[s].token  /\ n.leg = u.txns[s].leg
        /\ n.second = u.txns[s].second  /\ n.baseline = u.txns[s].baseline
        /\ n.tomb = u.txns[s].tomb  /\ n.cleaned = u.txns[s].cleaned  /\ n.state = u.txns[s].state
    BY <2>5 DEF Txn
  <2> HIDE DEF n
  <2>8. TxnFits(u, s, u.txns[s], n, {}, {})
    <3>1. CASE u.txns[s].kind = "DIAL"
      <4>1. u.txns[s].tomb => IsTerminal(n) BY <1>1, <2>2, <2>7, <3>1 DEF Fit, FitDial, IsTerminal
      <4> QED BY <1>1, <2>2, <2>7, <4>1, StateFits
    <3>2. CASE u.txns[s].kind # "DIAL" BY <2>2, <2>7, <3>2, OtherFits
    <3> QED BY <3>1, <3>2
  <2> QED BY <1>1, <2>2, <2>4, <2>6, <2>8, TxnGoes, WellOn
<1> QED BY <1>2, <1>3

LEMMA CommandResultGoes ==
    ASSUME NEW v, Fit(v), Swept(v), NEW tok, NEW status
    PROVE  Well(v, CommandResult(v, tok, status), {}, Slot)
<1> DEFINE live == {s \in SlotOf(v, tok) : ~IsTerminal(v.txns[s])}
           u == Touch(v)
           new(s) == IF s \in live /\ status = "ERROR"
                     THEN [u.txns[s] EXCEPT !.state = "FAILED"] ELSE u.txns[s]
           ts == [s \in Slot |-> new(s)]
           heard == [u EXCEPT !.txns = ts]
<1>0. v \in Model BY FitModel
<1>1. Well(v, u, {}, {}) /\ Fit(u) /\ u \in Model BY TouchGoes, FitModel DEF Well
<1>2. u.txns = v.txns BY <1>0 DEF Touch, Model
<1>3. CASE tok = 0 \/ live = {} \/ status = "OK" BY <1>3, WellNowhere DEF CommandResult
<1>4. CASE ~(tok = 0 \/ live = {} \/ status = "OK")
  <2>1. CommandResult(v, tok, status) = Reconcile(heard, {}) BY <1>4 DEF CommandResult
  <2> HIDE DEF live, u
  <2>2. ASSUME NEW s \in Slot
        PROVE  /\ new(s) \in Txn  /\ TxnFits(u, s, u.txns[s], new(s), {}, Slot)
               /\ new(s).kind = v.txns[s].kind  /\ new(s).cleaned = v.txns[s].cleaned
    <3> DEFINE t == u.txns[s]
               n == [t EXCEPT !.state = "FAILED"]
    <3>1. t \in Txn BY <1>1, SlotTxn
    <3>2. CASE new(s) = t BY <3>1, <3>2, <1>1, <1>2, TxnStays
    <3>3. CASE new(s) = n
      <4>1. n \in Txn BY <3>1 DEF Txn
      <4>2. /\ n.kind = t.kind  /\ n.token = t.token  /\ n.leg = t.leg  /\ n.second = t.second
            /\ n.baseline = t.baseline  /\ n.tomb = t.tomb  /\ n.cleaned = t.cleaned
            /\ n.state = "FAILED"
        BY <3>1 DEF Txn
      <4> HIDE DEF n
      <4>3. IsTerminal(n) BY <4>2 DEF IsTerminal
      <4>4. TxnFits(u, s, t, n, {}, Slot) BY <1>1, <4>2, <4>3, StateFits
      <4> HIDE DEF new
      <4> QED BY <1>2, <3>3, <4>1, <4>2, <4>4
    <3> QED BY <3>2, <3>3
  <2> HIDE DEF new
  <2>3. ts \in [Slot -> Txn] BY <2>2
  <2>4. Well(u, heard, {}, Slot)
    <3>1. \A s \in Slot : TxnFits(u, s, u.txns[s], ts[s], {}, Slot) BY <2>2
    <3> HIDE DEF ts
    <3> QED BY <1>1, <2>3, <3>1, TxnsGo
  <2>5. Swept(heard)
    <3>1. heard.txns = ts BY <1>1 DEF Model
    <3> HIDE DEF heard
    <3> QED BY <2>2, <3>1 DEF Swept
  <2> HIDE DEF heard
  <2>6. Well(heard, Reconcile(heard, {}), {}, {}) BY <2>4, <2>5, ReconcileGoes DEF Well
  <2>7. Well(v, heard, {}, Slot) BY <1>1, <2>4, WellOn, WellMore
  <2> QED BY <2>1, <2>6, <2>7, WellOn, WellMore
<1> QED BY <1>3, <1>4

LEMMA ListingGoes ==
    ASSUME NEW v, Fit(v)
    PROVE  Well(v, ClccBegin(v), {}, {}) /\ Well(v, ClccError(v), {}, {})
BY ShadowGoes DEF ClccBegin, ClccError

(* No dial that was sent is cancelled through its token.                   *)
LEMMA CancelGoes ==
    ASSUME NEW v, Fit(v), NEW tok,
           \A s \in SlotOf(v, tok) : v.txns[s].kind = "DIAL" => v.txns[s].state # "SENT"
    PROVE  /\ Well(v, Cancel(v, tok), {}, {})
           /\ \A s \in Slot : s \notin SlotOf(v, tok) \/ IsTerminal(v.txns[s])
                                => Cancel(v, tok).txns[s] = v.txns[s]
<1> DEFINE live == {s \in SlotOf(v, tok) : ~IsTerminal(v.txns[s])}
<1>1. CASE tok = 0 \/ live = {}
  <2>1. Cancel(v, tok) = v BY <1>1 DEF Cancel
  <2> QED BY <2>1, WellNowhere
<1>2. CASE ~(tok = 0 \/ live = {})
  <2>1. PICK s \in live : Cancel(v, tok) = CancelTxn(v, s) BY <1>2 DEF Cancel
  <2>2. s \in Slot /\ s \in SlotOf(v, tok) /\ ~IsTerminal(v.txns[s]) BY DEF SlotOf
  <2> HIDE DEF live
  <2> QED BY <2>1, <2>2, CancelTxnGoes
<1> QED BY <1>1, <1>2

LEMMA CancelTokenGoes ==
    ASSUME NEW v, Fit(v), NEW tok,
           \A s \in SlotOf(v, tok) : v.txns[s].kind = "DIAL" => v.txns[s].state # "SENT"
    PROVE  /\ Well(v, CancelToken(v, tok), {}, {})
           /\ \A s \in Slot : s \notin SlotOf(v, tok) \/ IsTerminal(v.txns[s])
                                => CancelToken(v, tok).txns[s] = v.txns[s]
<1> DEFINE mine == {s \in SlotOf(v, tok) :
                       LET t == v.txns[s] IN
                       /\ t.kind \in {"RELEASE_ACTIVE", "RELEASE_LEG"} /\ t.state = "PENDING"
                       /\ Has(v, t.leg) /\ v.legs[t.leg.id].leaving}
           s == CHOOSE x \in mine : TRUE
           t == v.txns[s]
           u == Cancel(v, tok)
<1>0. v \in Model BY FitModel
<1>1. /\ Well(v, u, {}, {}) /\ Fit(u)
      /\ \A x \in Slot : x \notin SlotOf(v, tok) \/ IsTerminal(v.txns[x]) => u.txns[x] = v.txns[x]
  BY CancelGoes DEF Well
<1>2. CASE mine = {}
  <2>1. CancelToken(v, tok) = u BY <1>2 DEF CancelToken
  <2> QED BY <2>1, <1>1
<1>3. CASE mine # {}
  <2>1. s \in mine BY <1>3
  <2>2. s \in Slot /\ t.kind \in {"RELEASE_ACTIVE", "RELEASE_LEG"} BY <2>1 DEF SlotOf
  <2>3. CancelToken(v, tok) = QueueRelease(u, t.leg, t.kind = "RELEASE_ACTIVE")
    BY <1>3 DEF CancelToken
  <2> DEFINE b == t.kind = "RELEASE_ACTIVE"
             r == t.leg
             w == QueueRelease(u, r, b)
  <2> HIDE DEF s
  <2>4. r \in Refs /\ b \in BOOLEAN BY <1>0, <2>2, SlotTxn DEF Txn
  <2>5. r \in Claims(v)
    <3>1. v.txns[s].kind \notin {"NONE", "DIAL"} BY <2>2
    <3> QED BY <2>2, <3>1 DEF Claims
  <2> HIDE DEF r, b, u
  <2>6. Well(v, w, {}, {}) /\ w.txns = u.txns BY <1>1, <2>4, <2>5, ClaimReleased
  <2> QED BY <1>1, <2>3, <2>6 DEF r, b
<1> QED BY <1>2, <1>3

LEMMA NewCallAbandonedGoes ==
    ASSUME NEW v, Fit(v)
    PROVE  Well(v, NewCallAbandoned(v), {s \in Slot : v.txns[s].second}, {})
<1> DEFINE some == {s \in Slot : IsOpen(v.txns[s]) /\ v.txns[s].kind = "DIAL" /\ v.txns[s].second}
           T == {s \in Slot : v.txns[s].second}
<1>1. CASE some = {} BY <1>1, WellNowhere DEF NewCallAbandoned
<1>2. CASE some # {}
  <2>1. Min(some) \in some
    <3>1. some \in SUBSET Slot OBVIOUS
    <3> HIDE DEF some
    <3> QED BY <3>1, <1>2, LeastSlot
  <2>2. NewCallAbandoned(v) = CancelTxn(v, Min(some)) BY <1>2 DEF NewCallAbandoned
  <2> DEFINE s == Min(some)
  <2>3. s \in Slot /\ s \in T /\ ~IsTerminal(v.txns[s]) BY <2>1 DEF IsOpen, IsTerminal
  <2> HIDE DEF s, some, T
  <2> QED BY <2>2, <2>3, CancelTxnGoes DEF s, T
<1> QED BY <1>1, <1>2

(* What every pass of the service does after what it heard.                *)
LEMMA ServeGoes ==
    ASSUME NEW v, Fit(v), Serve(v)
    PROVE  Well(v, m', {}, Slot) /\ Tidy(m')
<1> DEFINE t == Tick(v, Calm)
<1>1. m' = Project(t) BY DEF Serve
<1>2. LateOf(Calm) = {} /\ Due(v, Calm) BY DEF LateOf, Calm, Due
<1>3. Well(v, t, {}, Slot) /\ Tidy(t) BY <1>2, TickGoes
<1> HIDE DEF t
<1>4. Well(t, Project(t), {}, {}) BY <1>3, ProjectGoes DEF Well
<1> QED BY <1>1, <1>3, <1>4, WellOn, WellMore, TidyStays

----------------------------------------------------------------------------
(* The table and what is around it, in the terms of Sane.                  *)

LEMMA DialsGo ==
    ASSUME NEW v, NEW w, NEW T, NEW U, Goes(v, w, T, U), Fit(w)
    PROVE  /\ w.token = v.token
           /\ \A s \in Dials(w) : s \in Dials(v) /\ w.txns[s].baseline = v.txns[s].baseline
                                  /\ w.txns[s].token = v.txns[s].token
           /\ OpenDials(w) \subseteq OpenDials(v)
           /\ \A s \in Slot : w.txns[s].kind # "NONE" =>
                 v.txns[s].kind = w.txns[s].kind /\ v.txns[s].token = w.txns[s].token
           /\ \A tok : SlotOf(w, tok) \subseteq SlotOf(v, tok)
           /\ \A s \in Slot : Orphan(w.txns[s]) =>
                 /\ v.txns[s].kind = "DIAL"  /\ v.txns[s].leg = NoRef
                 /\ w.txns[s].second = v.txns[s].second  /\ w.txns[s].token = v.txns[s].token
                 /\ Orphan(v.txns[s]) \/ (s \in T /\ s \in Dials(v))
<1>1. \A s \in Slot : w.txns[s].kind # "NONE" =>
                 v.txns[s].kind = w.txns[s].kind /\ v.txns[s].token = w.txns[s].token
  BY DEF Goes, GoesTxn
<1>2. \A s \in Slot : w.txns[s].kind = "DIAL" => GoesDial(v, s, v.txns[s], w.txns[s], T, U)
  BY DEF Goes, GoesTxn
<1>3. \A s \in Slot : w.txns[s].kind = "DIAL" /\ w.txns[s].leg = NoRef => v.txns[s].leg = NoRef
  <2> SUFFICES ASSUME NEW s \in Slot, w.txns[s].kind = "DIAL", w.txns[s].leg = NoRef,
                      v.txns[s].leg # NoRef
               PROVE FALSE
    OBVIOUS
  <2> QED BY <1>2 DEF GoesDial
<1>4. \A s \in Dials(w) : s \in Dials(v) /\ w.txns[s].baseline = v.txns[s].baseline
                          /\ w.txns[s].token = v.txns[s].token
  BY <1>1, <1>2, <1>3 DEF Dials, GoesDial
<1>5. OpenDials(w) \subseteq OpenDials(v)
  BY <1>1, <1>2 DEF OpenDials, IsOpen, GoesDial
<1>6. \A tok : SlotOf(w, tok) \subseteq SlotOf(v, tok)
  BY <1>1 DEF SlotOf
<1>7. \A s \in Slot : Orphan(w.txns[s]) =>
                 /\ v.txns[s].kind = "DIAL"  /\ v.txns[s].leg = NoRef
                 /\ w.txns[s].second = v.txns[s].second  /\ w.txns[s].token = v.txns[s].token
                 /\ Orphan(v.txns[s]) \/ (s \in T /\ s \in Dials(v))
  BY <1>1, <1>2, <1>3 DEF Orphan, Dials, GoesDial
<1> QED BY <1>1, <1>4, <1>5, <1>6, <1>7 DEF Goes

LEMMA ClaimableGoes ==
    ASSUME NEW v, Fit(v), NEW w, NEW T, NEW U, Well(v, w, T, U),
           NEW r \in Refs, Claimable(v, r)
    PROVE  Claimable(w, r)
<1>0. v \in Model /\ w \in Model /\ Fit(w) BY FitModel DEF Well
<1>1. \A id \in Id : GoesLeg(v, w, id) BY DEF Well, Goes
<1>2. Known(w, r) BY <1>0, <1>1, KnownStays DEF Claimable
<1>3. ASSUME NEW s \in Dials(w), Has(w, r)  PROVE r \in w.txns[s].baseline \/ Taken(w, r)
  <2>1. s \in Dials(v) /\ w.txns[s].baseline = v.txns[s].baseline BY <1>0, DialsGo DEF Well
  <2>2. Has(v, r) /\ (Taken(v, r) => Taken(w, r)) BY <1>0, <1>1, <1>3, HadLeg
  <2> QED BY <2>1, <2>2 DEF Claimable
<1> QED BY <1>2, <1>3 DEF Claimable

(* Whatever does not list, ask or send anything keeps what is known.       *)
LEMMA KnowsGoes ==
    ASSUME NEW v, Fit(v), NEW w, NEW T, NEW U, Well(v, w, T, U),
           NEW k, NEW sent, NEW q, NEW ls, Knows(v, k, sent, q, ls)
    PROVE  Knows(w, k, sent, q, ls)
<1>0. v \in Model /\ w \in Model /\ Fit(w) /\ Goes(v, w, T, U) BY FitModel DEF Well
<1>a. \A id \in Id : GoesLeg(v, w, id) BY <1>0 DEF Goes
<1>b. \A id \in InUse(w) : /\ id \in InUse(v)  /\ Ref(w, id) = Ref(v, id)
                           /\ w.legs[id].call = v.legs[id].call
  BY <1>a DEF InUse, GoesLeg, Ref
<1>c. /\ w.token = v.token
      /\ \A s \in Dials(w) : s \in Dials(v) /\ w.txns[s].baseline = v.txns[s].baseline
                             /\ w.txns[s].token = v.txns[s].token
      /\ OpenDials(w) \subseteq OpenDials(v)
      /\ \A s \in Slot : w.txns[s].kind # "NONE" =>
            v.txns[s].kind = w.txns[s].kind /\ v.txns[s].token = w.txns[s].token
      /\ \A tok : SlotOf(w, tok) \subseteq SlotOf(v, tok)
  BY <1>0, DialsGo
<1>d. \A s \in Dials(w), o \in Slot : Orphan(w.txns[o]) =>
         /\ Orphan(v.txns[o])  /\ w.txns[o].second = v.txns[o].second
         /\ w.txns[o].token = v.txns[o].token
  <2> SUFFICES ASSUME NEW s \in Dials(w), NEW o \in Slot, Orphan(w.txns[o])
               PROVE  /\ Orphan(v.txns[o])  /\ w.txns[o].second = v.txns[o].second
                      /\ w.txns[o].token = v.txns[o].token
    OBVIOUS
  <2>1. /\ w.txns[o].second = v.txns[o].second  /\ w.txns[o].token = v.txns[o].token
        /\ Orphan(v.txns[o]) \/ o \in Dials(v)
    BY <1>0, DialsGo
  <2>2. ASSUME o \in Dials(v)  PROVE FALSE
    <3>1. s \in OpenDials(v) /\ o \in OpenDials(v) BY <1>c, <2>2 DEF Dials, OpenDials, IsOpen
    <3>2. s = o BY <3>1 DEF Knows, Tokens
    <3>3. IsTerminal(w.txns[o]) BY <1>0 DEF Fit, FitDial, Orphan
    <3> QED BY <3>2, <3>3 DEF Dials, IsTerminal
  <2> QED BY <2>1, <2>2
<1>e. \A tok : \A s \in SlotOf(w, tok) :
         /\ s \in SlotOf(v, tok)  /\ s \in Slot  /\ w.txns[s].kind = v.txns[s].kind
         /\ w.txns[s].kind = "DIAL" /\ w.txns[s].state \in {"PENDING", "SENT"} =>
               w.txns[s].state = v.txns[s].state
  <2>1. \A s \in Slot : w.txns[s].kind = "DIAL" => GoesDial(v, s, v.txns[s], w.txns[s], T, U)
    BY <1>0 DEF Goes, GoesTxn
  <2> SUFFICES ASSUME NEW tok, NEW s \in SlotOf(w, tok)
               PROVE  /\ s \in SlotOf(v, tok)  /\ s \in Slot  /\ w.txns[s].kind = v.txns[s].kind
                      /\ w.txns[s].kind = "DIAL" /\ w.txns[s].state \in {"PENDING", "SENT"} =>
                            w.txns[s].state = v.txns[s].state
    OBVIOUS
  <2>2. s \in Slot /\ w.txns[s].kind # "NONE" BY DEF SlotOf
  <2>3. s \in SlotOf(v, tok) /\ w.txns[s].kind = v.txns[s].kind BY <1>c, <2>2
  <2>4. w.txns[s].kind = "DIAL" => GoesDial(v, s, v.txns[s], w.txns[s], T, U) BY <2>1, <2>2
  <2>5. ASSUME w.txns[s].kind = "DIAL", w.txns[s].state \in {"PENDING", "SENT"}
        PROVE  w.txns[s].state = v.txns[s].state
    BY <2>4, <2>5 DEF GoesDial
  <2>6. w.txns[s].kind = "DIAL" /\ w.txns[s].state \in {"PENDING", "SENT"} =>
            w.txns[s].state = v.txns[s].state
    BY <2>5
  <2> QED BY <2>2, <2>3, <2>6
<1>1. Tokens(w) BY <1>c DEF Knows, Tokens
<1>2. SentOnes(w, sent) BY <1>c, <1>e DEF Knows, SentOnes
<1>3. Claimed(w)
  <2> SUFFICES ASSUME NEW r \in Claims(w)  PROVE Claimable(w, r)  BY DEF Claimed
  <2>1. r \in Refs BY <1>0, ClaimsType
  <2>2. CASE r \in Claims(v) BY <2>1, <2>2, ClaimableGoes DEF Knows, Claimed
  <2>3. CASE Harmless(w, r) BY <2>3 DEF Harmless, Claimable
  <2> QED BY <1>0, <2>2, <2>3 DEF Goes, GoesClaims
<1>4. Bases(w, k)
  <2> SUFFICES ASSUME NEW s \in Dials(w)
               PROVE  /\ \A r \in w.txns[s].baseline : Known(w, r)
                      /\ \A id \in InUse(w) : Ref(w, id) \in w.txns[s].baseline =>
                            k[w.legs[id].call] # w.txns[s].token
    BY DEF Bases
  <2>1. s \in Slot BY DEF Dials
  <2>2. w.txns[s].baseline \subseteq Refs BY <1>0, <2>1, SlotTxn DEF Txn
  <2>3. \A r \in w.txns[s].baseline : Known(v, r) BY <1>c DEF Knows, Bases
  <2>4. \A r \in w.txns[s].baseline : Known(w, r) BY <1>0, <1>a, <2>2, <2>3, KnownStays
  <2>5. \A id \in InUse(w) : Ref(w, id) \in w.txns[s].baseline =>
            k[w.legs[id].call] # w.txns[s].token
    BY <1>b, <1>c DEF Knows, Bases
  <2> QED BY <2>4, <2>5
<1>5. Second(w) BY <1>c, <1>d DEF Knows, Second
<1>6. Strays(w, k, ls) BY <1>b, <1>c, <1>d DEF Knows, Strays
<1>7. QueueFits(w, q, sent) BY <1>c, <1>e DEF Knows, QueueFits, EntryFits
<1> QED BY <1>1, <1>2, <1>3, <1>4, <1>5, <1>6, <1>7 DEF Knows

LEMMA NoneFreeGoes ==
    ASSUME NEW v, Fit(v), NEW w, NEW T, NEW U, Well(v, w, T, U), NEW S, NoneFree(v, S),
           NEW R \in SUBSET S, \A s \in R : w.txns[s].baseline = v.txns[s].baseline
    PROVE  NoneFree(w, R)
<1>0. v \in Model /\ w \in Model /\ Goes(v, w, T, U) BY FitModel DEF Well
<1> SUFFICES ASSUME NEW s \in R, NEW id \in InUse(w), Places(w, id)
             PROVE  Ref(w, id) \in w.txns[s].baseline \/ Owned(w, Ref(w, id))
  BY DEF NoneFree
<1>a. id \in Id /\ \A i \in Id : GoesLeg(v, w, i) BY <1>0 DEF Goes, InUse
<1>1. Has(w, Ref(w, id)) BY <1>a, CallModelAssumption DEF Has, Ref, InUse
<1>2. Has(v, Ref(w, id)) /\ Places(v, Ref(w, id).id) BY <1>0, <1>a, <1>1, HadLeg DEF Ref
<1>3. id \in InUse(v) /\ Ref(v, id) = Ref(w, id) /\ Places(v, id) BY <1>2 DEF Has, Ref
<1>4. Ref(v, id) \in v.txns[s].baseline \/ Owned(v, Ref(v, id)) BY <1>3 DEF NoneFree
<1>5. CASE Owned(v, Ref(v, id))
  <2>1. PICK o \in Slot : v.txns[o].kind = "DIAL" /\ v.txns[o].leg = Ref(w, id)
    BY <1>3, <1>5 DEF Owned
  <2>2. v.txns[o].leg # NoRef BY <2>1, <1>1 DEF Has, NoRef
  <2>3. w.txns[o].kind = "DIAL" /\ w.txns[o].leg = Ref(w, id)
    BY <1>0, <1>1, <2>1, <2>2 DEF Goes, GoesTxn, GoesDial
  <2> QED BY <2>3 DEF Owned
<1> QED BY <1>3, <1>4, <1>5

LEMMA SaneGoes ==
    ASSUME NEW v, Fit(v), NEW w, NEW T, NEW U, Well(v, w, T, U),
           NEW k, NEW sent, NEW q, NEW ls, Sane(v, k, sent, q, ls)
    PROVE  Sane(w, k, sent, q, ls)
<1>1. \A s \in Dials(w) : s \in Dials(v) /\ w.txns[s].baseline = v.txns[s].baseline
  BY DialsGo DEF Well
<1>2. Dials(w) \in SUBSET Dials(v) BY <1>1
<1>3. NoneFree(w, Dials(w)) BY <1>1, <1>2, NoneFreeGoes DEF Sane
<1> QED BY <1>3, KnowsGoes DEF Sane

(* What leaves every dial that has a leg, or waits for one, as it was.     *)
BindsNone(v, w) ==
    /\ \A s \in Slot : w.txns[s].kind = "DIAL" =>
          \/ w.txns[s].leg = NoRef /\ ~w.txns[s].tomb
          \/ /\ v.txns[s].kind = "DIAL"                 /\ w.txns[s].leg = v.txns[s].leg
             /\ w.txns[s].token = v.txns[s].token       /\ w.txns[s].tomb = v.txns[s].tomb
             /\ w.txns[s].second = v.txns[s].second
    /\ \A id \in Id : GoesLeg(v, w, id)

LEMMA BindsNoneOn ==
    ASSUME NEW u \in Model, NEW v \in Model, NEW w \in Model, BindsNone(u, v), BindsNone(v, w)
    PROVE  BindsNone(u, w)
<1>1. ASSUME NEW id \in Id  PROVE GoesLeg(u, w, id)
  <2>1. GoesLeg(u, v, id) /\ GoesLeg(v, w, id) BY DEF BindsNone
  <2>2. u.gen[id] \in Nat /\ v.gen[id] \in Nat /\ w.gen[id] \in Nat BY DEF Model
  <2> QED BY <2>1, <2>2 DEF GoesLeg
<1>2. ASSUME NEW s \in Slot, w.txns[s].kind = "DIAL", ~(w.txns[s].leg = NoRef /\ ~w.txns[s].tomb)
      PROVE  /\ u.txns[s].kind = "DIAL"                 /\ w.txns[s].leg = u.txns[s].leg
             /\ w.txns[s].token = u.txns[s].token       /\ w.txns[s].tomb = u.txns[s].tomb
             /\ w.txns[s].second = u.txns[s].second
  <2>1. /\ v.txns[s].kind = "DIAL"                 /\ w.txns[s].leg = v.txns[s].leg
        /\ w.txns[s].token = v.txns[s].token       /\ w.txns[s].tomb = v.txns[s].tomb
        /\ w.txns[s].second = v.txns[s].second
    BY <1>2 DEF BindsNone
  <2>2. ~(v.txns[s].leg = NoRef /\ ~v.txns[s].tomb) BY <1>2, <2>1
  <2> QED BY <2>1, <2>2 DEF BindsNone
<1> QED BY <1>1, <1>2 DEF BindsNone

LEMMA BindsNoneIf ==
    ASSUME NEW v, NEW w, NEW T, NEW U, Well(v, w, T, U),
           \A s \in Slot : w.txns[s] = v.txns[s] \/ w.txns[s].kind # "DIAL"
    PROVE  BindsNone(v, w)
BY DEF Well, Goes, BindsNone

(* The leg a request goes by is one there is or was.                       *)
LEMMA NewLegKnown ==
    ASSUME NEW v, Fit(v), NEW kind \in Requests, NEW target \in Id \cup {0}, NEW second
    PROVE  /\ Known(v, NewTxn(v, kind, target, second).leg)
           /\ kind = "DIAL" => NewTxn(v, kind, target, second).leg = NoRef
           /\ kind = "HANGUP" => LET r == NewTxn(v, kind, target, second).leg IN
                                 Has(v, r) => Taken(v, r)
<1> DEFINE r == NewTxn(v, kind, target, second).leg
           g == IF target \in InUse(v) THEN v.gen[target] ELSE 0
<1>0. v \in Model BY FitModel
<1>1. r = IF kind \in {"DIAL", "HANGUP"} \/ target = 0 THEN WantedRole(v, kind)
          ELSE [id |-> target, gen |-> g]
  BY DEF NewTxn, NoTxn
<1>2. CASE kind \in {"DIAL", "HANGUP"} \/ target = 0
  <2>1. r = WantedRole(v, kind) BY <1>1, <1>2
  <2>2. CASE kind = "HANGUP"
    <3>1. r = v.mt.leg BY <2>1, <2>2 DEF WantedRole
    <3>2. r = NoRef \/ (Has(v, r) /\ v.legs[r.id].dir = "MT") BY <3>1 DEF Fit, MtFits
    <3> QED BY <2>2, <3>2, NoRefHarmless DEF Harmless, Known, Taken
  <2>3. CASE kind = "DIAL" \/ kind \notin {"HANGUP", "DIAL"}
    <3>1. \A st \in {"ACTIVE", "HELD", "INCOMING", "WAITING"} : Known(v, FindRole(v, st))
      <4> TAKE st \in {"ACTIVE", "HELD", "INCOMING", "WAITING"}
      <4>1. st # "FREE" OBVIOUS
      <4>2. FindRole(v, st) = NoRef \/ Has(v, FindRole(v, st)) BY <1>0, <4>1, FindRoleIs
      <4> QED BY <4>2, NoRefHarmless DEF Known, Harmless
    <3>2. kind = "DIAL" => r = NoRef BY <2>1 DEF WantedRole
    <3>3. Known(v, r)
      <4>1. \/ r = NoRef
            \/ \E st \in {"ACTIVE", "HELD", "INCOMING", "WAITING"} : r = FindRole(v, st)
        BY <2>1, <2>3 DEF WantedRole, Requests, Ops
      <4> QED BY <4>1, <3>1, NoRefHarmless DEF Harmless
    <3> QED BY <2>3, <3>2, <3>3
  <2> QED BY <2>2, <2>3
<1>3. CASE ~(kind \in {"DIAL", "HANGUP"} \/ target = 0)
  <2>1. r.id = target /\ r.gen = g /\ target \in Id BY <1>1, <1>3
  <2>2. CASE target \in InUse(v) BY <2>1, <2>2, <1>3 DEF Known, Has
  <2>3. CASE target \notin InUse(v)
    <3>1. v.gen[target] \in Nat /\ v.gen[target] # 0 BY <2>1, <1>0 DEF Model, Fit
    <3> QED BY <2>1, <2>3, <3>1, <1>3 DEF Known
  <2> QED BY <1>3, <2>2, <2>3
<1> QED BY <1>2, <1>3

(* The record of a new request, and the table with it in slot s.           *)
Newest(v, t) ==
    /\ t \in Txn  /\ t.kind \in Requests  /\ t.token = v.token  /\ t.state = "PENDING"
    /\ ~t.tomb  /\ ~t.cleaned
    /\ t.kind = "DIAL" => t.leg = NoRef

Made(v, s, t) == [v EXCEPT !.txns[s] = t, !.token = @ + 1]

LEMMA MadeTxn ==
    ASSUME NEW v \in Model, NEW s \in Slot, NEW t, Newest(v, t)
    PROVE  LET w == Made(v, s, t) IN
           /\ w \in Model
           /\ w.token = v.token + 1  /\ w.legs = v.legs  /\ w.gen = v.gen
           /\ w.mt = v.mt  /\ w.releases = v.releases
           /\ \A o \in Slot \ {s} : w.txns[o] = v.txns[o]
           /\ w.txns[s] = t
<1> DEFINE w == Made(v, s, t)
           u == [v EXCEPT !.txns[s] = t]
<1>1. w = [u EXCEPT !.token = v.token + 1] BY DEF Made, Model
<1>2. u \in Model BY TxnReplaced DEF Newest
<1>3. /\ u.txns = [v.txns EXCEPT ![s] = t]
      /\ u.legs = v.legs  /\ u.gen = v.gen  /\ u.mt = v.mt  /\ u.releases = v.releases
  BY DEF Model
<1> HIDE DEF w, u
<1>4. v.token + 1 \in Nat \ {0} BY DEF Model
<1>5. w \in Model BY <1>1, <1>2, <1>4 DEF Model
<1>6. w.txns = [v.txns EXCEPT ![s] = t] BY <1>1, <1>2, <1>3 DEF Model
<1>7. w.txns[s] = t /\ \A o \in Slot \ {s} : w.txns[o] = v.txns[o] BY <1>6 DEF Model
<1>8. w.token = v.token + 1 /\ w.legs = v.legs /\ w.gen = v.gen /\ w.mt = v.mt
      /\ w.releases = v.releases
  BY <1>1, <1>2, <1>3 DEF Model
<1> QED BY <1>5, <1>7, <1>8 DEF w

(* A request put into a free slot: only the newest token, in no leg's way. *)
LEMMA MadeFits ==
    ASSUME NEW v, Fit(v), NEW s \in Slot, v.txns[s].kind = "NONE", NEW t, Newest(v, t)
    PROVE  LET w == Made(v, s, t) IN
           /\ Fit(w)  /\ (Tidy(v) => Tidy(w))
           /\ BindsNone(v, w)
<1> DEFINE w == Made(v, s, t)
<1>0. v \in Model BY FitModel
<1>1. /\ w \in Model
      /\ w.token = v.token + 1  /\ w.legs = v.legs  /\ w.gen = v.gen
      /\ w.mt = v.mt
      /\ \A o \in Slot \ {s} : w.txns[o] = v.txns[o]
      /\ w.txns[s] = t
  BY <1>0, MadeTxn
<1>a. t.token = v.token /\ t.state = "PENDING" /\ ~t.tomb /\ ~t.cleaned BY DEF Newest
<1>2. t.kind = "DIAL" => t.leg = NoRef BY DEF Newest
<1> HIDE DEF w
<1>3. MtFits(w) BY <1>1 DEF Fit, MtFits, Has, InUse
<1>4. \A o \in Slot : w.txns[o].kind = "DIAL" => FitDial(w.txns[o])
  <2>1. w.txns[s].kind = "DIAL" => FitDial(w.txns[s]) BY <1>1, <1>a, <1>2 DEF FitDial
  <2>2. \A o \in Slot \ {s} : w.txns[o].kind = "DIAL" => FitDial(w.txns[o]) BY <1>1 DEF Fit
  <2> QED BY <2>1, <2>2
<1>5. Fit(w) BY <1>1, <1>3, <1>4 DEF Fit
<1>6. ASSUME Tidy(v)  PROVE Tidy(w)
  <2>1. Swept(w) BY <1>1, <1>a, <1>6 DEF Tidy, Swept
  <2>2. Neat(w) BY <1>1, <1>a, <1>6 DEF Tidy, Neat, IsTerminal
  <2> QED BY <2>1, <2>2 DEF Tidy
<1>7. BindsNone(v, w)
  <2>1. \A id \in Id : GoesLeg(v, w, id) BY <1>1 DEF GoesLeg
  <2>2. w.txns[s].kind = "DIAL" => w.txns[s].leg = NoRef /\ ~w.txns[s].tomb BY <1>1, <1>a, <1>2
  <2> QED BY <1>1, <2>1, <2>2 DEF BindsNone
<1> QED BY <1>5, <1>6, <1>7 DEF w

(* The token of a request just put into the table is new to everyone.      *)
Fresh(v, w, kind, sent, q) ==
    /\ v.token < w.token  /\ v.token # 0  /\ v.token \notin sent
    /\ \A n \in DOMAIN q : q[n].token # v.token
    /\ \A o \in SlotOf(w, v.token) : /\ w.txns[o].kind = kind
                                     /\ w.txns[o].kind = "DIAL" => w.txns[o].state # "SENT"

LEMMA MadeSane ==
    ASSUME NEW v, Fit(v), NEW s \in Slot, v.txns[s].kind = "NONE", NEW t, Newest(v, t),
           t.kind = "DIAL" => OpenDials(v) = {},
           Claimable(v, t.leg),
           NEW k, NEW sent, NEW q \in Seq(Command), NEW ls, Sane(v, k, sent, q, ls)
    PROVE  LET w == Made(v, s, t) IN
           Sane(w, k, sent, q, ls) /\ Fresh(v, w, t.kind, sent, q)
<1> DEFINE w == Made(v, s, t)
<1>0. v \in Model /\ Knows(v, k, sent, q, ls) /\ NoneFree(v, Dials(v)) BY FitModel DEF Sane
<1>1. /\ w \in Model
      /\ w.token = v.token + 1  /\ w.legs = v.legs  /\ w.gen = v.gen
      /\ w.releases = v.releases
      /\ \A o \in Slot \ {s} : w.txns[o] = v.txns[o]
      /\ w.txns[s] = t
  BY <1>0, MadeTxn
<1>a. t.token = v.token /\ t.state = "PENDING" /\ ~t.tomb /\ ~t.cleaned BY DEF Newest
<1>2. Claimable(v, t.leg) OBVIOUS
<1> HIDE DEF w
<1>3. v.token \in Nat \ {0} /\ \A o \in Slot : v.txns[o].token \in Nat BY <1>0, SlotTxn DEF Model, Txn
<1>4. t.kind # "NONE" BY DEF Newest, Requests
<1>5. \A o \in Slot : v.txns[o].kind # "NONE" =>
          o # s /\ v.txns[o].token < v.token /\ v.txns[o].token # 0
  BY <1>0 DEF Knows, Tokens
<1>6. Dials(w) = Dials(v) /\ \A o \in Dials(v) : w.txns[o] = v.txns[o]
  BY <1>1, <1>a DEF Dials
<1>7. InUse(w) = InUse(v) /\ (\A id : Ref(w, id) = Ref(v, id))
      /\ (\A r : Has(w, r) <=> Has(v, r)) /\ (\A id : Places(w, id) <=> Places(v, id))
  BY <1>1, <1>a DEF InUse, Ref, Has, Places
<1>8. \A r : Known(w, r) <=> Known(v, r) BY <1>1, <1>a, <1>7 DEF Known
<1>9. \A r : Claimable(w, r) <=> Claimable(v, r)
  BY <1>1, <1>a, <1>6, <1>7, <1>8 DEF Claimable, Taken
<1>10. \A tok : tok # v.token => SlotOf(w, tok) = SlotOf(v, tok)
                                 /\ \A o \in SlotOf(v, tok) : w.txns[o] = v.txns[o]
  <2> TAKE tok
  <2> HAVE tok # v.token
  <2>1. \A o \in Slot : o \in SlotOf(w, tok) <=> o \in SlotOf(v, tok) BY <1>1, <1>a DEF SlotOf
  <2>2. SlotOf(w, tok) = SlotOf(v, tok) BY <2>1 DEF SlotOf
  <2>3. s \notin SlotOf(v, tok) BY DEF SlotOf
  <2>4. SlotOf(v, tok) \subseteq Slot BY DEF SlotOf
  <2> QED BY <1>1, <1>a, <2>2, <2>3, <2>4
<1>11. SlotOf(w, v.token) = {s}
  <2>1. \A o \in Slot \ {s} : v.txns[o].kind # "NONE" => v.txns[o].token # v.token
    <3> TAKE o \in Slot \ {s}
    <3>1. v.txns[o].token \in Nat BY <1>3
    <3> QED BY <1>3, <1>5, <3>1
  <2> QED BY <1>1, <1>a, <1>4, <2>1 DEF SlotOf
<1>12. Tokens(w)
  <2>1. \A o \in Slot : w.txns[o].kind # "NONE" => w.txns[o].token < w.token /\ w.txns[o].token # 0
    <3> SUFFICES ASSUME NEW o \in Slot, w.txns[o].kind # "NONE"
                 PROVE  w.txns[o].token < w.token /\ w.txns[o].token # 0
      OBVIOUS
    <3>1. CASE o = s BY <1>1, <1>a, <1>3, <3>1
    <3>2. CASE o # s
      <4>1. w.txns[o] = v.txns[o] BY <1>1, <1>a, <3>2
      <4>2. v.txns[o].token \in Nat /\ v.txns[o].token < v.token /\ v.txns[o].token # 0
        BY <4>1, <1>3, <1>5
      <4> QED BY <4>1, <4>2, <1>1, <1>3
    <3> QED BY <3>1, <3>2
  <2>2. \A x, o \in Slot : w.txns[x].kind # "NONE" /\ w.txns[o].kind # "NONE"
                           /\ w.txns[x].token = w.txns[o].token => x = o
    <3> SUFFICES ASSUME NEW x \in Slot, NEW o \in Slot, w.txns[x].kind # "NONE",
                        w.txns[o].kind # "NONE", w.txns[x].token = w.txns[o].token
                 PROVE  x = o
      OBVIOUS
    <3>1. CASE w.txns[x].token = v.token
      <4>1. x \in SlotOf(w, v.token) /\ o \in SlotOf(w, v.token) BY <3>1 DEF SlotOf
      <4> QED BY <4>1, <1>11
    <3>2. CASE w.txns[x].token # v.token
      <4>1. x # s /\ o # s BY <3>2, <1>1, <1>a
      <4> QED BY <4>1, <1>0, <1>1 DEF Knows, Tokens
    <3> QED BY <3>1, <3>2
  <2>3. \A x, o \in OpenDials(w) : x = o
    <3>1. CASE t.kind = "DIAL"
      <4>1. OpenDials(w) \subseteq {s} BY <1>1, <1>a, <3>1 DEF OpenDials
      <4> QED BY <4>1
    <3>2. CASE t.kind # "DIAL"
      <4>1. OpenDials(w) \subseteq OpenDials(v) BY <1>1, <1>a, <3>2 DEF OpenDials
      <4> QED BY <4>1, <1>0 DEF Knows, Tokens
    <3> QED BY <3>1, <3>2
  <2> QED BY <2>1, <2>2, <2>3 DEF Tokens
<1>13. SentOnes(w, sent)
  <2> SUFFICES ASSUME NEW tok \in sent
               PROVE  /\ tok \in Nat  /\ tok < w.token
                      /\ \A o \in SlotOf(w, tok) : w.txns[o].kind = "DIAL" /\ w.txns[o].state # "PENDING"
    BY DEF SentOnes
  <2>1. tok \in Nat /\ tok < v.token BY <1>0 DEF Knows, SentOnes
  <2>2. tok # v.token BY <2>1, <1>3
  <2>3. tok < w.token BY <2>1, <1>1, <1>3
  <2> QED BY <2>1, <2>2, <2>3, <1>0, <1>10 DEF Knows, SentOnes
<1>14. Claimed(w)
  <2>1. Claims(w) \subseteq Claims(v) \cup {t.leg} BY <1>1, <1>a DEF Claims
  <2> QED BY <2>1, <1>0, <1>2, <1>9 DEF Claimed, Knows
<1>15. Bases(w, k) BY <1>0, <1>1, <1>a, <1>6, <1>7, <1>8 DEF Knows, Bases
<1>16. \A o \in Slot : Orphan(w.txns[o]) => w.txns[o] = v.txns[o] BY <1>1, <1>a DEF Orphan
<1>17. Second(w) BY <1>0, <1>6, <1>16 DEF Knows, Second
<1>18. Strays(w, k, ls) BY <1>0, <1>1, <1>a, <1>6, <1>7, <1>16 DEF Knows, Strays
<1>19. \A n \in DOMAIN q : q[n].token \in Nat /\ q[n].token < v.token /\ q[n].token # v.token
  <2> TAKE n \in DOMAIN q
  <2>1. q[n] \in Command OBVIOUS
  <2>2. q[n].token \in Nat BY <2>1 DEF Command
  <2>3. q[n].token < v.token BY <1>0 DEF Knows, QueueFits, EntryFits
  <2> QED BY <2>2, <2>3, <1>3
<1>20. QueueFits(w, q, sent)
  <2>1. \A n, i \in DOMAIN q : q[n].token = q[i].token => n = i BY <1>0 DEF Knows, QueueFits
  <2> SUFFICES ASSUME NEW n \in DOMAIN q
               PROVE  /\ q[n].token < w.token  /\ q[n].token # 0  /\ q[n].token \notin sent
                      /\ \A o \in SlotOf(w, q[n].token) :
                            /\ w.txns[o].kind = q[n].kind
                            /\ w.txns[o].kind = "DIAL" => w.txns[o].state # "SENT"
    BY <2>1 DEF QueueFits, EntryFits
  <2>2. q[n].token < w.token BY <1>1, <1>a, <1>3, <1>19
  <2> QED BY <2>2, <1>0, <1>10, <1>19 DEF Knows, QueueFits, EntryFits
<1>21. NoneFree(w, Dials(w))
  <2>1. \A r : Owned(v, r) => Owned(w, r)
    <3> SUFFICES ASSUME NEW r, Owned(v, r)  PROVE Owned(w, r)  OBVIOUS
    <3>1. PICK o \in Slot : v.txns[o].kind = "DIAL" /\ v.txns[o].leg = r BY DEF Owned
    <3>2. w.txns[o] = v.txns[o] BY <1>1, <1>a, <3>1
    <3> QED BY <3>1, <3>2 DEF Owned
  <2> QED BY <2>1, <1>0, <1>6, <1>7 DEF NoneFree
<1>22. Sane(w, k, sent, q, ls)
  BY <1>12, <1>13, <1>14, <1>15, <1>17, <1>18, <1>20, <1>21 DEF Sane, Knows
<1>23. v.token \notin sent
  <2>1. v.token \in sent => v.token < v.token BY <1>0 DEF Knows, SentOnes
  <2> QED BY <2>1, <1>3
<1>24. v.token < w.token /\ v.token # 0 BY <1>1, <1>a, <1>3
<1>25. \A o \in SlotOf(w, v.token) : w.txns[o].kind = t.kind /\ w.txns[o].state # "SENT"
  BY <1>1, <1>a, <1>11
<1>26. Fresh(v, w, t.kind, sent, q) BY <1>19, <1>23, <1>24, <1>25 DEF Fresh
<1> QED BY <1>22, <1>26 DEF w

(* A hang-up takes every leg there is and forgets the dials not sent yet.  *)
LEMMA CaptureGoes ==
    ASSUME NEW v, Fit(v), NEW s \in Slot, v.txns[s].kind = "HANGUP"
    PROVE  /\ Well(v, CaptureSetups(v, s), {}, {})
           /\ BindsNone(v, CaptureSetups(v, s))
<1> DEFINE sent == {o \in OpenDials(v) : v.txns[o].state = "SENT"}
           own  == {v.txns[o].token : o \in {x \in sent : ~Has(v, v.txns[x].leg)}}
           S    == OpenDials(v) \ sent
           free == Cancelled(v, S)
           n    == [free.txns[s] EXCEPT !.setups = own, !.baseline = Everyone(v)]
           w    == [free EXCEPT !.txns[s].setups = own, !.txns[s].baseline = Everyone(v)]
<1>0. v \in Model BY FitModel
<1>1. S \in SUBSET Slot /\ s \notin S /\ \A o \in S : v.txns[o].state = "PENDING"
  BY DEF OpenDials, IsOpen
<1>2. own \in SUBSET Nat BY <1>0, SlotTxn DEF OpenDials, Txn
<1>3. CaptureSetups(v, s) = w BY DEF CaptureSetups, Cancelled
<1> HIDE DEF own, S
<1>4. /\ Well(v, free, {}, {})
      /\ \A o \in Slot : free.txns[o] = IF o \in S THEN NoTxn ELSE v.txns[o]
  <2>1. IsFiniteSet(S) BY <1>1, SlotsFinite
  <2>2. PICK f : IsFold([pass |-> "cancel"], v, S, f) /\ free = f[S] BY <2>1, CancelFold
  <2> QED BY <2>2, <1>1, CancelPassGoes
<1> HIDE DEF free
<1>5. Fit(free) /\ free \in Model BY <1>4, FitModel DEF Well
<1>6. free.txns[s] = v.txns[s] BY <1>1, <1>4
<1>7. n \in Txn BY <1>0, <1>2, <1>5, SlotTxn, EveryoneType DEF Txn
<1>8. w = [free EXCEPT !.txns[s] = n] BY <1>5 DEF Model, Txn
<1>9. n.kind = free.txns[s].kind /\ n.token = free.txns[s].token /\ n.leg = free.txns[s].leg
      /\ n.kind # "DIAL"
  <2>1. free.txns[s] \in Txn BY <1>5, SlotTxn
  <2> QED BY <1>6, <2>1 DEF Txn
<1> HIDE DEF n, w
<1>10. TxnFits(free, s, free.txns[s], n, {}, {}) BY <1>9, OtherFits
<1>11. Well(free, w, {}, {}) BY <1>5, <1>7, <1>8, <1>10, TxnGoes
<1>12. Well(v, w, {}, {}) BY <1>4, <1>11, WellOn
<1>13. \A o \in Slot : w.txns[o] = v.txns[o] \/ w.txns[o].kind # "DIAL"
  <2>1. w.txns[s].kind # "DIAL" BY <1>5, <1>8, <1>9 DEF Model
  <2>2. \A o \in Slot \ {s} : w.txns[o] = free.txns[o] BY <1>5, <1>8 DEF Model
  <2>3. NoTxn.kind # "DIAL" BY DEF NoTxn
  <2> QED BY <1>4, <2>1, <2>2, <2>3
<1> QED BY <1>3, <1>12, <1>13, BindsNoneIf

(* The queue with the request c in it.                                     *)
LEMMA QueueGrows ==
    ASSUME NEW v, NEW sent, NEW q \in Seq(Command), QueueFits(v, q, sent), NEW c \in Command,
           EntryFits(v, c, sent), Unqueued(q, c.token)
    PROVE  /\ QueueFits(v, Append(q, c), sent)
           /\ QueueFits(v, <<c>> \o q, sent)
           /\ q # <<>> => QueueFits(v, <<c>> \o Front(q), sent)
<1>1. \A a : (\E o \in DOMAIN q : a = q[o]) \/ a = c => EntryFits(v, a, sent) BY DEF QueueFits
<1>2. \A n, i \in DOMAIN q : q[n].token = q[i].token => n = i BY DEF QueueFits
<1>3. \A n \in DOMAIN q : q[n].token # c.token BY DEF Unqueued
<1>4. QueueFits(v, Append(q, c), sent)
  <2> DEFINE p == Append(q, c)
  <2>1. DOMAIN p = 1..Len(q) + 1 /\ DOMAIN q = 1..Len(q) /\ Len(q) \in Nat OBVIOUS
  <2>2. \A n \in DOMAIN p : p[n] = IF n \in DOMAIN q THEN q[n] ELSE c OBVIOUS
  <2> HIDE DEF p
  <2>3. \A n, i \in DOMAIN p : p[n].token = p[i].token => n = i BY <1>2, <1>3, <2>1, <2>2
  <2>4. \A n \in DOMAIN p : (\E o \in DOMAIN q : p[n] = q[o]) \/ p[n] = c BY <2>2
  <2>5. QueueFits(v, p, sent) BY <1>1, <2>3, <2>4 DEF QueueFits
  <2> QED BY <2>5 DEF p
<1>5. QueueFits(v, <<c>> \o q, sent)
  <2> DEFINE p == <<c>> \o q
  <2>1. DOMAIN p = 1..Len(q) + 1 /\ DOMAIN q = 1..Len(q) /\ Len(q) \in Nat OBVIOUS
  <2>2. \A n \in DOMAIN p : IF n = 1 THEN p[n] = c ELSE n - 1 \in DOMAIN q /\ p[n] = q[n - 1]
    OBVIOUS
  <2> HIDE DEF p
  <2>3. \A n, i \in DOMAIN p : p[n].token = p[i].token => n = i BY <1>2, <1>3, <2>1, <2>2
  <2>4. \A n \in DOMAIN p : (\E o \in DOMAIN q : p[n] = q[o]) \/ p[n] = c BY <2>2
  <2>5. QueueFits(v, p, sent) BY <1>1, <2>3, <2>4 DEF QueueFits
  <2> QED BY <2>5 DEF p
<1>6. ASSUME q # <<>>  PROVE QueueFits(v, <<c>> \o Front(q), sent)
  <2> DEFINE f == SubSeq(q, 1, Len(q) - 1)
             p == <<c>> \o f
  <2>1. f \in Seq(Command) /\ Len(f) = Len(q) - 1 /\ \A n \in DOMAIN f : n \in DOMAIN q /\ f[n] = q[n]
    <3>1. Len(q) \in Nat /\ Len(q) # 0 /\ DOMAIN q = 1..Len(q) BY <1>6
    <3>2. f \in Seq(Command) /\ Len(f) = Len(q) - 1 /\ \A n \in 1..Len(f) : f[n] = q[n]
      BY <3>1
    <3> HIDE DEF f
    <3>3. DOMAIN f = 1..Len(f) BY <3>2
    <3> QED BY <3>1, <3>2, <3>3
  <2> HIDE DEF f
  <2>2. DOMAIN p = 1..Len(f) + 1 /\ DOMAIN f = 1..Len(f) /\ Len(f) \in Nat BY <2>1
  <2>3. \A n \in DOMAIN p : IF n = 1 THEN p[n] = c ELSE n - 1 \in DOMAIN f /\ p[n] = f[n - 1]
    BY <2>1
  <2> HIDE DEF p
  <2>4. \A n \in DOMAIN p : IF n = 1 THEN p[n] = c ELSE n - 1 \in DOMAIN q /\ p[n] = q[n - 1]
    BY <2>1, <2>3
  <2>5. \A n, i \in DOMAIN p : p[n].token = p[i].token => n = i BY <1>2, <1>3, <2>2, <2>4
  <2>6. \A n \in DOMAIN p : (\E o \in DOMAIN q : p[n] = q[o]) \/ p[n] = c BY <2>4
  <2>7. QueueFits(v, p, sent) BY <1>1, <2>5, <2>6 DEF QueueFits
  <2> QED BY <2>7 DEF p, f, Front
<1> QED BY <1>4, <1>5, <1>6

LEMMA FewerQueued ==
    ASSUME NEW v, NEW sent, NEW q \in Seq(Command), QueueFits(v, q, sent), q # <<>>
    PROVE  QueueFits(v, Tail(q), sent)
<1> DEFINE p == Tail(q)
<1>1. \A n \in DOMAIN p : n + 1 \in DOMAIN q /\ p[n] = q[n + 1] OBVIOUS
<1>2. \A n \in DOMAIN p : n \in Nat OBVIOUS
<1> HIDE DEF p
<1>3. \A n, i \in DOMAIN p : p[n].token = p[i].token => n = i
  <2> TAKE n \in DOMAIN p
  <2> TAKE i \in DOMAIN p
  <2> HAVE p[n].token = p[i].token
  <2>1. n + 1 = i + 1 BY <1>1 DEF QueueFits
  <2> QED BY <1>2, <2>1
<1>4. \A n \in DOMAIN p : \E o \in DOMAIN q : p[n] = q[o] BY <1>1
<1>5. QueueFits(v, p, sent) BY <1>3, <1>4 DEF QueueFits
<1> QED BY <1>5 DEF p

LEMMA SaneQueue ==
    ASSUME NEW v, NEW k, NEW sent, NEW q, NEW ls, Sane(v, k, sent, q, ls),
           NEW p, QueueFits(v, p, sent)
    PROVE  Sane(v, k, sent, p, ls)
BY DEF Sane, Knows

LEMMA CapturedGoes ==
    ASSUME NEW v, Fit(v), NEW s \in Slot, v.txns[s].kind = "NONE", NEW t, Newest(v, t),
           t.kind = "DIAL" => OpenDials(v) = {},
           Claimable(v, t.leg),
           NEW k, NEW sent, NEW q \in Seq(Command), NEW ls, Sane(v, k, sent, q, ls),
           NEW w, IF t.kind = "HANGUP" THEN w = CaptureSetups(Made(v, s, t), s) ELSE w = Made(v, s, t)
    PROVE  /\ Fit(w)  /\ (Tidy(v) => Tidy(w))  /\ BindsNone(v, w)
           /\ Sane(w, k, sent, q, ls)  /\ Fresh(v, w, t.kind, sent, q)
<1> DEFINE made == Made(v, s, t)
<1>0. v \in Model BY FitModel
<1>1. Fit(made) /\ (Tidy(v) => Tidy(made)) /\ BindsNone(v, made) BY MadeFits
<1>2. Sane(made, k, sent, q, ls) /\ Fresh(v, made, t.kind, sent, q) BY MadeSane
<1>3. made.txns[s].kind = t.kind BY <1>0, MadeTxn
<1>4. IF t.kind = "HANGUP" THEN w = CaptureSetups(made, s) ELSE w = made OBVIOUS
<1> HIDE DEF made
<1>5. CASE t.kind = "HANGUP"
  <2>1. w = CaptureSetups(made, s) BY <1>4, <1>5
  <2>2. Well(made, w, {}, {}) /\ BindsNone(made, w) BY <1>1, <1>3, <1>5, <2>1, CaptureGoes
  <2>3. Fit(w) BY <2>2 DEF Well
  <2>4. Tidy(v) => Tidy(w) BY <1>1, <2>2, TidyStays
  <2>5. made \in Model /\ w \in Model BY <1>1, <2>3, FitModel
  <2>6. BindsNone(v, w) BY <1>0, <1>1, <2>2, <2>5, BindsNoneOn
  <2>7. Sane(w, k, sent, q, ls) BY <1>1, <1>2, <2>2, SaneGoes
  <2>8. w.token = made.token BY <2>2 DEF Well, Goes
  <2>9. \A o \in SlotOf(w, v.token) : w.txns[o].kind = t.kind /\ w.txns[o].kind # "DIAL"
    <3>1. Goes(made, w, {}, {}) BY <2>2 DEF Well
    <3>2. \A o \in SlotOf(w, v.token) : o \in SlotOf(made, v.token) BY <3>1, <2>3, DialsGo
    <3>3. \A o \in SlotOf(w, v.token) : o \in Slot /\ w.txns[o].kind # "NONE" BY DEF SlotOf
    <3>4. \A o \in SlotOf(w, v.token) : w.txns[o].kind = made.txns[o].kind
      BY <3>1, <3>3 DEF Goes, GoesTxn
    <3>5. \A o \in SlotOf(made, v.token) : made.txns[o].kind = t.kind
      BY <1>2 DEF Fresh
    <3>6. t.kind # "DIAL" BY <1>5
    <3> QED BY <3>2, <3>4, <3>5, <3>6
  <2>10. Fresh(v, w, t.kind, sent, q) BY <1>2, <2>8, <2>9 DEF Fresh
  <2> QED BY <2>3, <2>4, <2>6, <2>7, <2>10
<1>6. CASE t.kind # "HANGUP"
  <2>1. w = made BY <1>4, <1>6
  <2> QED BY <1>1, <1>2, <2>1
<1> QED BY <1>5, <1>6

LEMMA NewestIs ==
    ASSUME NEW v, Fit(v), NEW kind \in Requests, NEW target \in Id \cup {0}, NEW second \in BOOLEAN
    PROVE  Newest(v, NewTxn(v, kind, target, second)) /\ NewTxn(v, kind, target, second).kind = kind
<1> DEFINE t == NewTxn(v, kind, target, second)
<1>0. v \in Model BY FitModel
<1>1. t \in Txn BY <1>0, NewTxnType
<1>2. t.kind = kind /\ t.token = v.token /\ t.state = "PENDING" /\ ~t.tomb /\ ~t.cleaned
  BY DEF NewTxn, NoTxn
<1>3. kind = "DIAL" => t.leg = NoRef BY NewLegKnown
<1> HIDE DEF t
<1> QED BY <1>1, <1>2, <1>3 DEF Newest, t

LEMMA PlacedGoes ==
    ASSUME NEW v, Fit(v), NEW s \in Slot, v.txns[s].kind = "NONE",
           NEW kind, NEW target, NEW second, NEW t, t = NewTxn(v, kind, target, second),
           Newest(v, t), t.kind = kind, kind = "DIAL" => OpenDials(v) = {}, Claimable(v, t.leg),
           NEW k, NEW sent, NEW q \in Seq(Command), NEW ls, Sane(v, k, sent, q, ls),
           NEW r, r = Placed(v, s, kind, target, second)
    PROVE  /\ r.token = v.token
           /\ Fit(r.m)  /\ (Tidy(v) => Tidy(r.m))  /\ BindsNone(v, r.m)
           /\ Sane(r.m, k, sent, q, ls)  /\ Fresh(v, r.m, kind, sent, q)
<1>1. r = [m |-> IF kind = "HANGUP" THEN CaptureSetups(Made(v, s, t), s) ELSE Made(v, s, t),
           token |-> v.token]
  BY DEF Placed, Made
<1>2. r.token = v.token BY <1>1
<1>3. IF t.kind = "HANGUP" THEN r.m = CaptureSetups(Made(v, s, t), s) ELSE r.m = Made(v, s, t)
  BY <1>1
<1>4. t.kind = "DIAL" => OpenDials(v) = {} OBVIOUS
<1>5. /\ Fit(r.m)  /\ (Tidy(v) => Tidy(r.m))  /\ BindsNone(v, r.m)
      /\ Sane(r.m, k, sent, q, ls)  /\ Fresh(v, r.m, t.kind, sent, q)
  <2> DEFINE w == r.m
  <2>1. IF t.kind = "HANGUP" THEN w = CaptureSetups(Made(v, s, t), s) ELSE w = Made(v, s, t)
    BY <1>3
  <2> HIDE DEF w
  <2>2. /\ Fit(w)  /\ (Tidy(v) => Tidy(w))  /\ BindsNone(v, w)
        /\ Sane(w, k, sent, q, ls)  /\ Fresh(v, w, t.kind, sent, q)
    BY <2>1, <1>4, CapturedGoes
  <2> QED BY <2>2 DEF w
<1> QED BY <1>2, <1>5

LEMMA RetireBindsNone ==
    ASSUME NEW v, Fit(v), NEW S
    PROVE  Well(v, Retire(v, S), {}, {}) /\ BindsNone(v, Retire(v, S))
<1>1. /\ Well(v, Retire(v, S), {}, {})
      /\ \A s \in Slot : Retire(v, S).txns[s] \in {v.txns[s], NoTxn}
  BY RetireGoes
<1>2. NoTxn.kind # "DIAL" BY DEF NoTxn
<1>3. \A s \in Slot : Retire(v, S).txns[s] = v.txns[s] \/ Retire(v, S).txns[s].kind # "DIAL"
  BY <1>1, <1>2
<1> QED BY <1>1, <1>3, BindsNoneIf

LEMMA RequestGoes ==
    ASSUME NEW v, Fit(v), NEW kind \in Requests, NEW target \in Id \cup {0}, NEW second \in BOOLEAN,
           kind = "DIAL" => OpenDials(v) = {}
    PROVE  LET r == Request(v, kind, target, second) IN
           \/ r.token = 0 /\ Well(v, r.m, {}, {}) /\ BindsNone(v, r.m)
           \/ \E u, s : /\ Well(v, u, {}, {}) /\ BindsNone(v, u)
                        /\ s \in Slot /\ u.txns[s].kind = "NONE"
                        /\ r = Placed(u, s, kind, target, second)
<1> DEFINE may == IF kind = "HANGUP" THEN {0} ELSE Slot \ {0}
           cleared == Cleared(v, kind, second)
           u == Retire(cleared, may)
           free == {s \in may : u.txns[s].kind = "NONE"}
<1>0. BindsNone(v, v) BY WellNowhere, BindsNoneIf
<1>1. cleared = v
  <2>1. CASE kind = "DIAL"
    <3>1. Superseded(v, second) = {} BY <2>1 DEF Superseded
    <3>2. cleared = Cancelled(v, {}) BY <2>1, <3>1 DEF Cleared, Cancelled
    <3>3. PICK f : IsFold([pass |-> "cancel"], v, {}, f) /\ Cancelled(v, {}) = f[{}]
      BY FS_EmptySet, CancelFold
    <3> QED BY <3>2, <3>3 DEF IsFold, Step
  <2>2. CASE kind # "DIAL" BY <2>2 DEF Cleared
  <2> QED BY <2>1, <2>2
<1>2. free \in SUBSET Slot BY CallModelAssumption DEF Slot
<1>3. CASE kind = "DIAL" /\ ~MayDial(v, second)
  <2>1. Request(v, kind, target, second) = [m |-> v, token |-> 0] BY <1>3 DEF Request
  <2> QED BY <2>1, <1>0, WellNowhere
<1>4. CASE ~(kind = "DIAL" /\ ~MayDial(v, second))
  <2>1. Request(v, kind, target, second) = PlaceIn(u, free, kind, target, second)
    BY <1>4 DEF Request
  <2> HIDE DEF cleared
  <2>2. Well(v, u, {}, {}) /\ BindsNone(v, u) BY <1>1, RetireBindsNone
  <2> HIDE DEF u, may
  <2>3. CASE free = {}
    <3>1. Request(v, kind, target, second) = [m |-> u, token |-> 0] BY <2>1, <2>3 DEF PlaceIn
    <3> QED BY <2>2, <3>1
  <2>4. CASE free # {}
    <3>1. Min(free) \in free /\ Min(free) \in Slot
      <4> HIDE DEF free
      <4> QED BY <2>4, <1>2, LeastSlot
    <3>2. Request(v, kind, target, second) = Placed(u, Min(free), kind, target, second)
      BY <2>1, <2>4 DEF PlaceIn
    <3>3. u.txns[Min(free)].kind = "NONE" BY <3>1
    <3> HIDE DEF free
    <3> QED BY <2>2, <3>1, <3>2, <3>3
  <2> QED BY <2>3, <2>4
<1> QED BY <1>3, <1>4

(* Cancelling a request that is still queued.                              *)
LEMMA CancelBindsNone ==
    ASSUME NEW v, Fit(v), NEW tok,
           \A s \in SlotOf(v, tok) : v.txns[s].kind = "DIAL" => v.txns[s].state # "SENT"
    PROVE  Well(v, CancelToken(v, tok), {}, {}) /\ BindsNone(v, CancelToken(v, tok))
<1> DEFINE w == CancelToken(v, tok)
<1>1. /\ Well(v, w, {}, {})
      /\ \A s \in Slot : s \notin SlotOf(v, tok) \/ IsTerminal(v.txns[s])
                                => w.txns[s] = v.txns[s]
  BY CancelTokenGoes
<1> HIDE DEF w
<1>2. \A id \in Id : GoesLeg(v, w, id) BY <1>1 DEF Well, Goes
<1>3. ASSUME NEW s \in Slot, w.txns[s].kind = "DIAL"
      PROVE  w.txns[s] = v.txns[s] \/ (w.txns[s].leg = NoRef /\ ~w.txns[s].tomb)
  <2>1. v.txns[s].kind = "DIAL" /\ GoesDial(v, s, v.txns[s], w.txns[s], {}, {})
    BY <1>1, <1>3 DEF Well, Goes, GoesTxn
  <2>2. v.txns[s].state \in {"PENDING", "SENT", "SUCCEEDED", "FAILED", "CANCELLED"}
    BY FitModel, SlotTxn DEF Txn
  <2>3. CASE s \notin SlotOf(v, tok) \/ IsTerminal(v.txns[s]) BY <1>1, <2>3
  <2>4. CASE ~(s \notin SlotOf(v, tok) \/ IsTerminal(v.txns[s]))
    <3>1. v.txns[s].state # "SENT" BY <2>1, <2>4
    <3>2. v.txns[s].state = "PENDING" /\ ~IsTerminal(v.txns[s]) BY <2>2, <2>4, <3>1 DEF IsTerminal
    <3>3. FitDial(v.txns[s]) BY <2>1 DEF Fit
    <3>4. v.txns[s].leg = NoRef /\ ~v.txns[s].tomb BY <3>2, <3>3 DEF FitDial
    <3> QED BY <2>1, <3>2, <3>4 DEF GoesDial
  <2> QED BY <2>3, <2>4
<1>4. BindsNone(v, w) BY <1>2, <1>3 DEF BindsNone
<1> QED BY <1>1, <1>4 DEF w

(* What the screens offer never takes the leg a dial waits for.            *)
MayAsk(v, kind) ==
    /\ kind = "DIAL" => OpenDials(v) = {}
    /\ OpenDials(v) # {} => kind = "HANGUP"

(* A request that may be put into the table, whatever goes before.         *)
Askable(v, kind, target, second) ==
    /\ kind = "DIAL" => OpenDials(v) = {}
    /\ \A u : Well(v, u, {}, {}) => Claimable(u, NewTxn(u, kind, target, second).leg)

LEMMA AskedClaimable ==
    ASSUME NEW v, Fit(v), NEW kind \in Requests, NEW target \in Id \cup {0}, NEW second,
           MayAsk(v, kind), NEW t, t = NewTxn(v, kind, target, second)
    PROVE  Claimable(v, t.leg)
<1>1. Known(v, t.leg) BY NewLegKnown
<1>2. CASE Dials(v) = {} BY <1>1, <1>2 DEF Claimable
<1>3. CASE Dials(v) # {}
  <2>1. kind = "HANGUP" BY <1>3 DEF MayAsk, Dials, OpenDials, IsOpen
  <2>2. Has(v, t.leg) => Taken(v, t.leg) BY <2>1, NewLegKnown
  <2> QED BY <1>1, <2>2 DEF Claimable
<1> QED BY <1>2, <1>3

LEMMA MayAskAskable ==
    ASSUME NEW v, Fit(v), NEW kind \in Requests, NEW target \in Id \cup {0}, NEW second,
           MayAsk(v, kind)
    PROVE  Askable(v, kind, target, second)
<1> SUFFICES ASSUME NEW u, Well(v, u, {}, {})
             PROVE  Claimable(u, NewTxn(u, kind, target, second).leg)
  BY DEF Askable, MayAsk
<1>1. Fit(u) /\ OpenDials(u) \subseteq OpenDials(v) BY DialsGo DEF Well
<1>2. MayAsk(u, kind) BY <1>1 DEF MayAsk
<1> QED BY <1>1, <1>2, AskedClaimable

(* A request: refused, or put into the table.                              *)
LEMMA AskedGoes ==
    ASSUME NEW v, Fit(v), Tidy(v), NEW kind \in Requests, NEW target \in Id \cup {0},
           NEW second \in BOOLEAN, Askable(v, kind, target, second),
           NEW k, NEW sent, NEW q \in Seq(Command), NEW ls, Sane(v, k, sent, q, ls),
           NEW r, r = Request(v, kind, target, second)
    PROVE  /\ Fit(r.m)  /\ Tidy(r.m)  /\ BindsNone(v, r.m)  /\ Sane(r.m, k, sent, q, ls)
           /\ r.token = 0 => Well(v, r.m, {}, {})
           /\ r.token # 0 => /\ EntryFits(r.m, Cmd(kind, r.token, target), sent)
                             /\ Unqueued(q, r.token)
<1>0. kind = "DIAL" => OpenDials(v) = {} BY DEF Askable
<1>1. \/ r.token = 0 /\ Well(v, r.m, {}, {}) /\ BindsNone(v, r.m)
      \/ \E u, s : /\ Well(v, u, {}, {}) /\ BindsNone(v, u)
                   /\ s \in Slot /\ u.txns[s].kind = "NONE"
                   /\ r = Placed(u, s, kind, target, second)
  BY <1>0, RequestGoes
<1>2. CASE r.token = 0 /\ Well(v, r.m, {}, {}) /\ BindsNone(v, r.m)
  <2> DEFINE w == r.m
  <2>1. Well(v, w, {}, {}) /\ BindsNone(v, w) BY <1>2
  <2> HIDE DEF w
  <2>2. Fit(w) /\ Tidy(w) BY <2>1, TidyStays DEF Well
  <2>3. Sane(w, k, sent, q, ls) BY <2>1, SaneGoes
  <2> QED BY <1>2, <2>1, <2>2, <2>3 DEF w
<1>3. CASE \E u, s : /\ Well(v, u, {}, {}) /\ BindsNone(v, u)
                     /\ s \in Slot /\ u.txns[s].kind = "NONE"
                     /\ r = Placed(u, s, kind, target, second)
  <2>1. PICK u, s : /\ Well(v, u, {}, {}) /\ BindsNone(v, u)
                    /\ s \in Slot /\ u.txns[s].kind = "NONE"
                    /\ r = Placed(u, s, kind, target, second)
    BY <1>3
  <2>2. Fit(u) /\ Tidy(u) /\ Sane(u, k, sent, q, ls) BY <2>1, TidyStays, SaneGoes DEF Well
  <2>3. OpenDials(u) \subseteq OpenDials(v) BY <2>1, DialsGo DEF Well
  <2>4. kind = "DIAL" => OpenDials(u) = {} BY <1>0, <2>3
  <2> DEFINE t == NewTxn(u, kind, target, second)
             w == r.m
  <2>5. Newest(u, t) /\ t.kind = kind BY <2>2, NewestIs
  <2>6. Claimable(u, t.leg) BY <2>1 DEF Askable
  <2>7. t = NewTxn(u, kind, target, second) OBVIOUS
  <2> HIDE DEF t
  <2>8. /\ r.token = u.token  /\ Fit(w)  /\ (Tidy(u) => Tidy(w))  /\ BindsNone(u, w)
        /\ Sane(w, k, sent, q, ls)  /\ Fresh(u, w, kind, sent, q)
    BY <2>1, <2>2, <2>4, <2>5, <2>6, <2>7, PlacedGoes
  <2> HIDE DEF w
  <2>9. v \in Model /\ u \in Model /\ w \in Model BY <2>2, <2>8, FitModel
  <2>10. BindsNone(v, w) BY <2>1, <2>8, <2>9, BindsNoneOn
  <2> DEFINE c == Cmd(kind, u.token, target)
  <2>11. c.token = u.token /\ c.kind = kind BY DEF Cmd
  <2> HIDE DEF c
  <2>12. EntryFits(w, c, sent) BY <2>8, <2>11 DEF EntryFits, Fresh
  <2>13. Unqueued(q, u.token) BY <2>8 DEF Fresh, Unqueued
  <2>14. r.token # 0
    <3>1. u.token = v.token /\ v.token # 0 BY <2>1, <2>9 DEF Well, Goes, Model
    <3> QED BY <2>8, <3>1
  <2> QED BY <2>2, <2>8, <2>10, <2>12, <2>13, <2>14 DEF w, c
<1> QED BY <1>1, <1>2, <1>3

(* Where the request goes in the queue.                                    *)
LEMMA QueueCallGoes ==
    ASSUME TypeOK, Fit(m), Tidy(m), NEW kind \in Requests, NEW at \in Id \cup {0}, MayAsk(m, kind),
           NEW k, NEW sent, NEW ls, Sane(m, k, sent, queue, ls), QueueCall(kind, at)
    PROVE  /\ Fit(m')  /\ Tidy(m')  /\ BindsNone(m, m')  /\ Sane(m', k, sent, queue', ls)
<1> DEFINE second == kind = "DIAL" /\ m.shown.id # 0
           full == Len(queue) = QueueLen
<1>0. queue \in Seq(Command) /\ QueueLen \in Nat \ {0} BY CallServiceAssumption DEF TypeOK
<1>1. CASE \/ kind = "DIAL" /\ full
           \/ CleanupBlocks(kind) /\ CleanupPending(m)
           \/ kind = "HOLD" /\ ~HoldAvailable(m)
  <2>1. m' = m /\ queue' = queue BY <1>1 DEF QueueCall
  <2>2. BindsNone(m, m) BY WellNowhere, BindsNoneIf
  <2> QED BY <2>1, <2>2
<1>2. CASE ~(\/ kind = "DIAL" /\ full
             \/ CleanupBlocks(kind) /\ CleanupPending(m)
             \/ kind = "HOLD" /\ ~HoldAvailable(m))
  <2>1. PICK r \in {Request(m, kind, at, second)} :
           LET c == Cmd(kind, r.token, at) IN
           IF r.token = 0 THEN m' = r.m /\ UNCHANGED queue
           ELSE IF kind = "DIAL" THEN m' = r.m /\ queue' = Append(queue, c)
           ELSE IF full THEN /\ m' = CancelToken(r.m, Last(queue).token)
                             /\ queue' = <<c>> \o Front(queue)
           ELSE m' = r.m /\ queue' = <<c>> \o queue
    BY <1>2 DEF QueueCall
  <2> DEFINE c == Cmd(kind, r.token, at)
             w == r.m
  <2>2. /\ Fit(w)  /\ Tidy(w)  /\ BindsNone(m, w)  /\ Sane(w, k, sent, queue, ls)
        /\ r.token # 0 => /\ EntryFits(w, c, sent)
                          /\ Unqueued(queue, r.token)
    <3>1. r = Request(m, kind, at, second) /\ second \in BOOLEAN OBVIOUS
    <3> HIDE DEF second
    <3>2. Askable(m, kind, at, second) BY MayAskAskable
    <3> QED BY <1>0, <3>1, <3>2, AskedGoes
  <2>3. QueueFits(w, queue, sent) BY <2>2 DEF Sane, Knows
  <2>4. c.token = r.token /\ c = [kind |-> kind, token |-> r.token, at |-> at] BY DEF Cmd
  <2>5. CASE r.token = 0 BY <2>1, <2>2, <2>5
  <2>6. CASE r.token # 0
    <3>1. EntryFits(w, c, sent) /\ Unqueued(queue, c.token)
      BY <2>2, <2>4, <2>6
    <3>2. c \in Command
      <4>1. r = Request(m, kind, at, second) /\ second \in BOOLEAN /\ m \in Model BY FitModel
      <4> HIDE DEF second
      <4>2. r.token \in Nat BY <4>1, RequestKeeps
      <4> QED BY <4>2, <2>4 DEF Command, Requests
    <3>3. IF kind = "DIAL" THEN m' = w /\ queue' = Append(queue, c)
          ELSE IF full THEN m' = CancelToken(w, Last(queue).token) /\ queue' = <<c>> \o Front(queue)
          ELSE m' = w /\ queue' = <<c>> \o queue
      BY <2>1, <2>6
    <3> HIDE DEF c, w, full
    <3>4. /\ QueueFits(w, Append(queue, c), sent)
          /\ QueueFits(w, <<c>> \o queue, sent)
          /\ queue # <<>> => QueueFits(w, <<c>> \o Front(queue), sent)
      BY <1>0, <2>3, <3>1, <3>2, QueueGrows
    <3>5. CASE m' = w /\ QueueFits(w, queue', sent) BY <2>2, <3>5, SaneQueue
    <3>6. CASE m' = CancelToken(w, Last(queue).token) /\ queue' = <<c>> \o Front(queue) /\ full
      <4>1. queue # <<>> BY <1>0, <3>6 DEF full
      <4>2. Len(queue) \in DOMAIN queue /\ Last(queue) = queue[Len(queue)]
        BY <1>0, <4>1 DEF Last
      <4> DEFINE tok == Last(queue).token
      <4>3. \A s \in SlotOf(w, tok) : w.txns[s].kind = "DIAL" => w.txns[s].state # "SENT"
        BY <2>3, <4>2 DEF QueueFits, EntryFits
      <4>4. m' = CancelToken(w, tok) BY <3>6
      <4> HIDE DEF tok
      <4>5. Well(w, m', {}, {}) /\ BindsNone(w, m') BY <2>2, <4>3, <4>4, CancelBindsNone
      <4>6. Fit(m') /\ Tidy(m') BY <2>2, <4>5, TidyStays DEF Well
      <4>7. m \in Model /\ w \in Model /\ m' \in Model BY <2>2, <4>6, FitModel
      <4>8. BindsNone(m, m') BY <2>2, <4>5, <4>7, BindsNoneOn
      <4>9. Sane(w, k, sent, queue', ls) BY <2>2, <3>4, <3>6, <4>1, SaneQueue
      <4>10. Sane(m', k, sent, queue', ls) BY <2>2, <4>5, <4>9, SaneGoes
      <4> QED BY <4>6, <4>8, <4>10
    <3> QED BY <3>3, <3>4, <3>5, <3>6
  <2> QED BY <2>5, <2>6
<1> QED BY <1>1, <1>2

----------------------------------------------------------------------------
(* Writing a command.                                                      *)

LEMMA DispatchOther ==
    ASSUME NEW v, Fit(v), NEW s \in Slot, v.txns[s].kind # "DIAL", NEW guard
    PROVE  Well(v, Dispatch(v, s, guard), {}, {}) /\ BindsNone(v, Dispatch(v, s, guard))
<1> DEFINE t == v.txns[s]
<1>0. v \in Model /\ t \in Txn BY FitModel, SlotTxn
<1>1. ASSUME NEW u, Fit(u), Well(v, u, {}, {}), u.txns = v.txns, NEW n \in Txn,
             n.kind = t.kind, n.token = t.token, n.leg = t.leg,
             NEW w, w = [u EXCEPT !.txns[s] = n]
      PROVE  Well(v, w, {}, {}) /\ BindsNone(v, w)
  <2>1. u \in Model BY <1>1, FitModel
  <2>2. TxnFits(u, s, u.txns[s], n, {}, {}) BY <1>1, OtherFits
  <2>3. Well(u, w, {}, {}) BY <1>1, <2>2, TxnGoes
  <2>4. Well(v, w, {}, {}) BY <1>1, <2>3, WellOn
  <2>5. w.txns[s] = n /\ \A o \in Slot \ {s} : w.txns[o] = v.txns[o] BY <1>1, <2>1 DEF Model
  <2>6. \A o \in Slot : w.txns[o] = v.txns[o] \/ w.txns[o].kind # "DIAL" BY <1>1, <2>5
  <2> QED BY <2>4, <2>6, BindsNoneIf
<1>2. CASE guard = "SEND"
  <2> DEFINE bl == IF t.kind \in {"DIAL", "ANSWER", "WAIT_ANSWER"} THEN Everyone(v) ELSE t.baseline
             wh == t.kind \in {"HOLD", "SWAP"} /\ StateOf(v, t.leg) = "HELD"
             n == [t EXCEPT !.state = "SENT", !.baseline = bl, !.wasHeld = wh]
             w == [v EXCEPT !.txns[s].state = "SENT", !.txns[s].baseline = bl,
                            !.txns[s].wasHeld = wh]
  <2>1. bl \in SUBSET Refs /\ wh \in BOOLEAN BY <1>0, EveryoneType DEF Txn
  <2>2. Dispatch(v, s, guard) = w
    <3>1. v.txns \in [Slot -> Txn] BY <1>0 DEF Model
    <3> QED BY <1>0, <1>2, <3>1 DEF Dispatch, Txn, Model
  <2> HIDE DEF bl, wh
  <2>3. n \in Txn BY <2>1, <1>0 DEF Txn
  <2>4. w = [v EXCEPT !.txns[s] = n] BY <1>0 DEF Model, Txn
  <2>5. n.kind = t.kind /\ n.token = t.token /\ n.leg = t.leg BY <1>0 DEF Txn
  <2> HIDE DEF n, w, t
  <2> QED BY <1>1, <2>2, <2>3, <2>4, <2>5, WellNowhere
<1>3. CASE guard # "SEND"
  <2> DEFINE u == Touch(v)
             st == IF guard = "STALE" THEN "FAILED" ELSE "SUCCEEDED"
             n == [u.txns[s] EXCEPT !.cleaned = TRUE, !.state = st]
             w == [u EXCEPT !.txns[s].cleaned = TRUE, !.txns[s].state = st]
  <2>1. Well(v, u, {}, {}) /\ Fit(u) /\ u \in Model BY TouchGoes, FitModel DEF Well
  <2>2. u.txns = v.txns BY <1>0 DEF Touch, Model
  <2>3. Dispatch(v, s, guard) = w BY <1>3 DEF Dispatch
  <2>4. st \in {"FAILED", "SUCCEEDED"} OBVIOUS
  <2> HIDE DEF u, st
  <2>5. n \in Txn BY <2>1, <2>4, SlotTxn DEF Txn
  <2>6. w = [u EXCEPT !.txns[s] = n] BY <2>1, SlotTxn DEF Model, Txn
  <2>7. n.kind = t.kind /\ n.token = t.token /\ n.leg = t.leg BY <1>0, <2>2 DEF Txn
  <2> HIDE DEF n, w, t
  <2> QED BY <1>1, <2>1, <2>2, <2>3, <2>5, <2>6, <2>7
<1> QED BY <1>2, <1>3

(* Every call placed was placed by a dial that was written.                *)
Placers(v, k, sent) == \A id \in InUse(v) : k[v.legs[id].call] \in sent \cup {0}

LEMMA PlacersGo ==
    ASSUME NEW v, NEW w, \A id \in Id : GoesLeg(v, w, id),
           NEW k, NEW sent, Placers(v, k, sent)
    PROVE  Placers(w, k, sent)
<1> SUFFICES ASSUME NEW id \in InUse(w)  PROVE k[w.legs[id].call] \in sent \cup {0}
  BY DEF Placers
<1>1. id \in Id /\ GoesLeg(v, w, id) BY DEF InUse
<1>2. id \in InUse(v) /\ w.legs[id].call = v.legs[id].call BY <1>1 DEF InUse, GoesLeg
<1> QED BY <1>2 DEF Placers

(* A dial that is written knows the legs there are, and only its own call  *)
(* can come after it.                                                      *)
LEMMA DialSent ==
    ASSUME NEW v, Fit(v), Tidy(v), ~CleanupPending(v),
           NEW s \in Slot, v.txns[s].kind = "DIAL", v.txns[s].state = "PENDING",
           NEW k, NEW sent, NEW q, NEW ls, Sane(v, k, sent, q, ls),
           NEW tok, tok = v.txns[s].token, tok \notin sent, Unqueued(q, tok),
           Placers(v, k, sent),
           NEW w, w = Dispatch(v, s, "SEND")
    PROVE  /\ Fit(w)  /\ Tidy(w)  /\ BindsNone(v, w)  /\ Sane(w, k, sent \cup {tok}, q, ls)
<1> DEFINE t == v.txns[s]
           n == [t EXCEPT !.state = "SENT", !.baseline = Everyone(v), !.wasHeld = FALSE]
<1>0. v \in Model /\ t \in Txn /\ Knows(v, k, sent, q, ls) BY FitModel, SlotTxn DEF Sane
<1>1. w = [v EXCEPT !.txns[s] = n]
  <2> DEFINE x == [v EXCEPT !.txns[s].state = "SENT", !.txns[s].baseline = Everyone(v),
                            !.txns[s].wasHeld = FALSE]
  <2>1. v.txns \in [Slot -> Txn] BY <1>0 DEF Model
  <2>2. w = x BY <1>0, <2>1 DEF Dispatch, Txn, Model
  <2>3. x = [v EXCEPT !.txns[s] = n] BY <1>0 DEF Model, Txn
  <2> QED BY <2>2, <2>3
<1>2. n \in Txn BY <1>0, EveryoneType DEF Txn
<1>3. /\ n.kind = "DIAL"  /\ n.state = "SENT"  /\ n.baseline = Everyone(v)  /\ n.token = tok
      /\ n.leg = NoRef  /\ ~n.tomb  /\ ~n.cleaned  /\ n.second = t.second
      /\ t.leg = NoRef  /\ t.kind = "DIAL"  /\ t.state = "PENDING"  /\ t.token = tok
  <2>1. FitDial(t) /\ t.leg = NoRef BY DEF Fit, FitDial
  <2>2. ~t.tomb /\ ~t.cleaned BY <2>1 DEF FitDial, IsTerminal
  <2> QED BY <1>0, <2>1, <2>2 DEF Txn
<1> HIDE DEF n, t
<1>4. w \in Model BY <1>0, <1>1, <1>2, TxnReplaced
<1>5. /\ w.legs = v.legs  /\ w.gen = v.gen  /\ w.token = v.token  /\ w.releases = v.releases
      /\ w.mt = v.mt  /\ w.txns[s] = n  /\ v.txns[s] = t
      /\ \A o \in Slot \ {s} : w.txns[o] = v.txns[o]
  BY <1>0, <1>1 DEF Model, t
<1>6. OpenDials(v) = {s} /\ Dials(v) = {}
  <2>1. s \in OpenDials(v) BY <1>3, <1>5 DEF OpenDials, IsOpen
  <2>2. \A o \in OpenDials(v) : o = s BY <1>0, <2>1 DEF Knows, Tokens
  <2>3. Dials(v) \subseteq OpenDials(v) BY DEF Dials, OpenDials, IsOpen
  <2>4. s \notin Dials(v) BY DEF Dials
  <2> QED BY <2>1, <2>2, <2>3, <2>4
<1>7. Dials(w) = {s}
  <2>1. s \in Dials(w) BY <1>3, <1>5 DEF Dials
  <2>2. \A o \in Slot \ {s} : o \notin Dials(w) BY <1>5, <1>6 DEF Dials
  <2>3. Dials(w) \subseteq Slot BY DEF Dials
  <2> QED BY <2>1, <2>2, <2>3
<1>8. InUse(w) = InUse(v) /\ (\A id : Ref(w, id) = Ref(v, id))
      /\ (\A r : Has(w, r) <=> Has(v, r)) /\ (\A r : Known(w, r) <=> Known(v, r))
  BY <1>5 DEF InUse, Ref, Has, Known
<1>9. \A id \in InUse(w) : Ref(w, id) \in n.baseline BY <1>3, <1>8 DEF Everyone
<1>10. Fit(w)
  <2>1. FitDial(n) BY <1>3 DEF FitDial
  <2>2. \A o \in Slot : w.txns[o].kind = "DIAL" => FitDial(w.txns[o]) BY <1>5, <2>1 DEF Fit
  <2>3. MtFits(w) BY <1>5, <1>8 DEF Fit, MtFits
  <2> QED BY <1>4, <1>5, <2>2, <2>3 DEF Fit
<1>11. Tidy(w)
  <2>1. Swept(w) BY <1>3, <1>5 DEF Tidy, Swept
  <2>2. Neat(w) BY <1>3, <1>5 DEF Tidy, Neat, IsTerminal
  <2> QED BY <2>1, <2>2 DEF Tidy
<1>12. BindsNone(v, w)
  <2>1. \A id \in Id : GoesLeg(v, w, id) BY <1>5 DEF GoesLeg
  <2> QED BY <2>1, <1>3, <1>5 DEF BindsNone
<1>13. \A x : SlotOf(w, x) = SlotOf(v, x) BY <1>3, <1>5 DEF SlotOf
<1>14. \A o \in Slot : w.txns[o].kind = v.txns[o].kind /\ w.txns[o].token = v.txns[o].token
  BY <1>3, <1>5
<1>15. Tokens(w)
  <2>1. OpenDials(w) \subseteq OpenDials(v)
    <3>1. \A o \in Slot \ {s} : o \in OpenDials(w) => o \in OpenDials(v) BY <1>5 DEF OpenDials
    <3>2. OpenDials(w) \subseteq Slot BY DEF OpenDials
    <3> QED BY <3>1, <3>2, <1>6
  <2> QED BY <2>1, <1>0, <1>5, <1>14 DEF Knows, Tokens
<1>16. SentOnes(w, sent \cup {tok})
  <2>1. ASSUME NEW x \in sent
        PROVE  /\ x \in Nat  /\ x < w.token
               /\ \A o \in SlotOf(w, x) : w.txns[o].kind = "DIAL" /\ w.txns[o].state # "PENDING"
    <3>1. /\ x \in Nat  /\ x < v.token
          /\ \A o \in SlotOf(v, x) : v.txns[o].kind = "DIAL" /\ v.txns[o].state # "PENDING"
      BY <1>0 DEF Knows, SentOnes
    <3>2. \A o \in SlotOf(v, x) : o # s BY <3>1, <1>3, <1>5
    <3>3. SlotOf(v, x) \subseteq Slot BY DEF SlotOf
    <3> QED BY <3>1, <3>2, <3>3, <1>5, <1>13
  <2>2. /\ tok \in Nat  /\ tok < w.token
        /\ \A o \in SlotOf(w, tok) : w.txns[o].kind = "DIAL" /\ w.txns[o].state # "PENDING"
    <3>1. tok \in Nat /\ tok < v.token BY <1>0, <1>3, <1>5 DEF Txn, Knows, Tokens
    <3>2. \A o \in SlotOf(w, tok) : o = s BY <1>0, <1>3, <1>5, <1>13 DEF Knows, Tokens, SlotOf
    <3> QED BY <3>1, <3>2, <1>3, <1>5
  <2> QED BY <2>1, <2>2 DEF SentOnes
<1>17. Claimed(w)
  <2>1. Claims(w) \subseteq Claims(v) BY <1>3, <1>5 DEF Claims
  <2> SUFFICES ASSUME NEW r \in Claims(w)  PROVE Claimable(w, r)  BY DEF Claimed
  <2>2. Known(w, r) BY <2>1, <1>0, <1>8 DEF Knows, Claimed, Claimable
  <2>3. r \in Refs BY <1>4, ClaimsType
  <2>4. Has(w, r) => r \in n.baseline
    <3> HAVE Has(w, r)
    <3>1. r = Ref(w, r.id) /\ r.id \in InUse(w) BY <2>3 DEF Has, Ref, Refs
    <3> QED BY <3>1, <1>9
  <2> QED BY <2>2, <2>4, <1>5, <1>7 DEF Claimable
<1>18. Bases(w, k)
  <2>1. \A r \in n.baseline : Known(w, r)
    <3> TAKE r \in n.baseline
    <3>1. PICK id \in InUse(v) : r = Ref(v, id) BY <1>3 DEF Everyone
    <3>2. id \in Id /\ Has(v, r) BY <3>1, CallModelAssumption DEF InUse, Has, Ref
    <3> QED BY <3>2, <1>8 DEF Known
  <2>2. tok # 0 BY <1>0, <1>3, <1>5 DEF Knows, Tokens
  <2>3. \A id \in InUse(w) : k[w.legs[id].call] # n.token BY <2>2, <1>3, <1>5, <1>8 DEF Placers
  <2> QED BY <2>1, <2>3, <1>5, <1>7 DEF Bases
<1>19. Second(w)
  <2> SUFFICES ASSUME NEW o \in Slot, Orphan(w.txns[o]), w.txns[o].second  PROVE FALSE
    BY DEF Second
  <2>1. w.txns[o] = v.txns[o] BY <1>3, <1>5 DEF Orphan
  <2>2. v.txns[o].cleaned BY <2>1 DEF CleanupPending, Orphan
  <2> QED BY <2>1, <2>2 DEF Tidy, Swept, Orphan
<1>20. Strays(w, k, ls) BY <1>5, <1>7, <1>9 DEF Strays
<1>21. QueueFits(w, q, sent \cup {tok})
  <2>1. QueueFits(v, q, sent) BY <1>0 DEF Knows
  <2> SUFFICES ASSUME NEW i \in DOMAIN q  PROVE EntryFits(w, q[i], sent \cup {tok})
    BY <2>1 DEF QueueFits
  <2>2. EntryFits(v, q[i], sent) /\ q[i].token # tok BY <2>1 DEF QueueFits, Unqueued
  <2>3. \A o \in SlotOf(v, q[i].token) : o # s /\ o \in Slot BY <2>2, <1>3, <1>5 DEF SlotOf
  <2>4. \A o \in SlotOf(v, q[i].token) : w.txns[o] = v.txns[o] BY <2>3, <1>5
  <2> QED BY <2>2, <2>4, <1>5, <1>13 DEF EntryFits
<1>22. NoneFree(w, Dials(w)) BY <1>5, <1>7, <1>9 DEF NoneFree
<1>23. Sane(w, k, sent \cup {tok}, q, ls)
  BY <1>15, <1>16, <1>17, <1>18, <1>19, <1>20, <1>21, <1>22 DEF Sane, Knows
<1> QED BY <1>10, <1>11, <1>12, <1>23

(* The tokens of the dials written, with that of the command just written. *)
Told(sent, cmd) == IF cmd.kind = "DIAL" THEN sent \cup {cmd.token} ELSE sent

LEMMA SendGoes ==
    ASSUME NEW v, Fit(v), Tidy(v), NEW c \in Command, c.kind = "DIAL" => ~CleanupPending(v),
           NEW k, NEW sent, NEW q, NEW ls, Sane(v, k, sent, q, ls),
           EntryFits(v, c, sent), Unqueued(q, c.token),
           Placers(v, k, sent),
           NEW r, r = Send(v, c)
    PROVE  /\ Fit(r.m)  /\ Tidy(r.m)  /\ BindsNone(v, r.m)
           /\ Sane(r.m, k, Told(sent, r.cmd), q, ls)
           /\ r.cmd # Silence => /\ r.cmd = c
                                 /\ \E s \in SlotOf(v, c.token) : ~IsTerminal(v.txns[s])
<1> DEFINE live == {s \in SlotOf(v, c.token) : ~IsTerminal(v.txns[s])}
           s == CHOOSE s \in live : TRUE
           g == Guard(v, v.txns[s])
<1>0. v \in Model BY FitModel
<1>1. CASE live = {}
  <2>1. r.m = v /\ r.cmd = Silence BY <1>1 DEF Send
  <2>2. Told(sent, r.cmd) = sent BY <2>1 DEF Told, Silence
  <2>3. BindsNone(v, v) BY WellNowhere, BindsNoneIf
  <2> QED BY <2>1, <2>2, <2>3
<1>2. CASE live # {}
  <2>1. s \in SlotOf(v, c.token) /\ ~IsTerminal(v.txns[s]) BY <1>2
  <2>2. s \in Slot /\ v.txns[s].token = c.token BY <2>1 DEF SlotOf
  <2>3. r.m = Dispatch(v, s, g) /\ r.cmd = IF g = "SEND" THEN c ELSE Silence
    BY <1>2 DEF Send, SendAs
  <2>4. /\ v.txns[s].kind = c.kind
        /\ v.txns[s].kind = "DIAL" => v.txns[s].state # "SENT"
    BY <2>1 DEF EntryFits
  <2>5. r.cmd # Silence => r.cmd = c BY <2>3
  <2> DEFINE w == r.m
  <2>6. CASE c.kind = "DIAL"
    <3>1. g = "SEND" BY <2>4, <2>6 DEF Guard
    <3>2. w = Dispatch(v, s, "SEND") /\ r.cmd = c BY <2>3, <3>1
    <3>3. v.txns[s].state = "PENDING" BY <1>0, <2>1, <2>2, <2>4, <2>6, SlotTxn DEF Txn, IsTerminal
    <3>4. c.token \notin sent BY DEF EntryFits
    <3>5. Told(sent, r.cmd) = sent \cup {c.token} BY <2>6, <3>2 DEF Told
    <3> HIDE DEF w, s, g
    <3>6. /\ Fit(w)  /\ Tidy(w)  /\ BindsNone(v, w)  /\ Sane(w, k, sent \cup {c.token}, q, ls)
      <4> DEFINE tok == c.token
      <4>1. s \in Slot /\ v.txns[s].kind = "DIAL" /\ ~CleanupPending(v) BY <2>2, <2>4, <2>6
      <4>2. /\ tok = v.txns[s].token  /\ tok \notin sent  /\ Unqueued(q, tok)
        BY <2>2, <3>4
      <4> HIDE DEF tok
      <4>3. /\ Fit(w)  /\ Tidy(w)  /\ BindsNone(v, w)  /\ Sane(w, k, sent \cup {tok}, q, ls)
        BY <4>1, <4>2, <3>2, <3>3, DialSent
      <4> QED BY <4>3 DEF tok
    <3> QED BY <2>1, <3>2, <3>5, <3>6 DEF w
  <2>7. CASE c.kind # "DIAL"
    <3>1. v.txns[s].kind # "DIAL" BY <2>4, <2>7
    <3>2. w = Dispatch(v, s, g) BY <2>3
    <3>3. Told(sent, r.cmd) = sent BY <2>3, <2>7 DEF Told, Silence
    <3> HIDE DEF w, s, g
    <3>4. Well(v, w, {}, {}) /\ BindsNone(v, w) BY <2>2, <3>1, <3>2, DispatchOther
    <3>5. Fit(w) /\ Tidy(w) /\ Sane(w, k, sent, q, ls) BY <3>4, TidyStays, SaneGoes DEF Well
    <3> QED BY <2>1, <2>5, <3>3, <3>4, <3>5 DEF w
  <2> QED BY <2>6, <2>7
<1> QED BY <1>1, <1>2

(* The release of a leg given up goes by that leg.                         *)
LEMMA ReleaseAskable ==
    ASSUME NEW v, Fit(v), NEW kind \in {"RELEASE_ACTIVE", "RELEASE_LEG"},
           NEW second \in BOOLEAN, NEW l \in Refs, Has(v, l), Claimable(v, l)
    PROVE  Askable(v, kind, l.id, second)
<1>1. kind \in Requests /\ kind # "DIAL" /\ kind # "HANGUP" BY DEF Requests, Ops
<1> SUFFICES ASSUME NEW u, Well(v, u, {}, {})
             PROVE  Claimable(u, NewTxn(u, kind, l.id, second).leg)
  BY <1>1 DEF Askable
<1>2. l.id \in Id /\ l.id # 0 /\ l = Ref(v, l.id) BY DEF Has, InUse, Ref, Refs
<1> DEFINE x == NewTxn(u, kind, l.id, second).leg
           g == IF l.id \in InUse(u) THEN u.gen[l.id] ELSE 0
<1>3. x = [id |-> l.id, gen |-> g] BY <1>1, <1>2 DEF NewTxn, NoTxn
<1>4. Known(u, x)
  <2>1. Fit(u) BY DEF Well
  <2> QED BY <1>1, <1>2, <2>1, NewLegKnown
<1>5. CASE l.id \in InUse(u)
  <2>1. v \in Model /\ u \in Model /\ \A id \in Id : GoesLeg(v, u, id)
    BY FitModel DEF Well, Goes
  <2>2. u.gen[l.id] = v.gen[l.id] BY <1>2, <1>5, <2>1 DEF GoesLeg, InUse
  <2>3. x = l BY <1>2, <1>3, <1>5, <2>2 DEF Ref
  <2>4. Claimable(u, l) BY ClaimableGoes
  <2> QED BY <2>3, <2>4
<1>6. CASE l.id \notin InUse(u)
  <2> HIDE DEF x
  <2>1. x.id = l.id BY <1>3
  <2>2. ~Has(u, x) BY <2>1, <1>6 DEF Has
  <2>3. Claimable(u, x) BY <1>4, <2>2 DEF Claimable
  <2> QED BY <2>3 DEF x
<1> QED BY <1>5, <1>6

(* What the cleanup starts, or puts back.                                  *)
LEMMA ReleaseGoes ==
    ASSUME NEW v, Fit(v), Tidy(v), NEW rest, Well(v, rest, {}, {}), rest.txns = v.txns,
           rest.legs = v.legs, rest.gen = v.gen,
           NEW r \in Queued, r.leg \in Claims(v), Has(v, r.leg),
           NEW k, NEW sent, NEW q \in Seq(Command), NEW ls, Sane(v, k, sent, q, ls),
           Placers(v, k, sent),
           NEW x, x = Release(v, rest, r)
    PROVE  /\ Fit(x.m)  /\ Tidy(x.m)  /\ BindsNone(v, x.m)  /\ Sane(x.m, k, sent, q, ls)
           /\ x.cmd.kind # "DIAL"
<1> DEFINE kind == IF r.recover THEN "RELEASE_ACTIVE" ELSE "RELEASE_LEG"
           a == Request(rest, kind, r.leg.id, FALSE)
<1>0. /\ v \in Model  /\ rest \in Model  /\ Fit(rest)  /\ Tidy(rest)
      /\ r.leg \in Refs  /\ r.recover \in BOOLEAN
  BY FitModel, TidyStays DEF Well, Queued
<1>1. BindsNone(v, rest) BY BindsNoneIf
<1>2. Silence.kind # "DIAL" BY DEF Silence
<1>3. CASE r.recover /\ ~ReleaseReady(v, r.leg.id)
  <2> DEFINE w == QueueRelease(rest, r.leg, r.recover)
  <2>1. x.m = w /\ x.cmd = Silence BY <1>3 DEF Release
  <2>2. Well(v, w, {}, {}) /\ w.txns = v.txns BY <1>0, ClaimReleased
  <2> HIDE DEF w
  <2>3. Fit(w) /\ Tidy(w) /\ Sane(w, k, sent, q, ls) BY <2>2, TidyStays, SaneGoes DEF Well
  <2>4. BindsNone(v, w) BY <2>2, BindsNoneIf
  <2> QED BY <1>2, <2>1, <2>3, <2>4
<1>4. CASE ~(r.recover /\ ~ReleaseReady(v, r.leg.id))
  <2>1. x = Released(a, r, kind) BY <1>4 DEF Release
  <2>2. kind \in {"RELEASE_ACTIVE", "RELEASE_LEG"} OBVIOUS
  <2>3. kind \in Requests /\ kind # "DIAL" /\ kind \in Ops BY DEF Requests, Ops
  <2>4. Sane(rest, k, sent, q, ls) BY SaneGoes
  <2> DEFINE w == a.m
             c == Cmd(kind, a.token, r.leg.id)
  <2>5. /\ Fit(w)  /\ Tidy(w)  /\ BindsNone(rest, w)  /\ Sane(w, k, sent, q, ls)
        /\ a.token = 0 => Well(rest, w, {}, {})
        /\ a.token # 0 => EntryFits(w, c, sent) /\ Unqueued(q, a.token)
        /\ a.token \in Nat
    <3>1. Has(rest, r.leg) BY DEF Has, InUse
    <3>2. QED
      <4>1. Claimable(v, r.leg) BY DEF Sane, Knows, Claimed
      <4>2. Claimable(rest, r.leg) BY <1>0, <4>1, ClaimableGoes
      <4> DEFINE at == r.leg.id
                 second == FALSE
      <4> HIDE DEF kind
      <4>3. second \in BOOLEAN OBVIOUS
      <4>4. at \in Id \cup {0} /\ a = Request(rest, kind, at, second)
            /\ c = Cmd(kind, a.token, at)
        BY <1>0 DEF Refs
      <4> HIDE DEF c, second
      <4>7. Askable(rest, kind, at, second) BY <1>0, <2>2, <3>1, <4>2, <4>3, ReleaseAskable
      <4> HIDE DEF at
      <4>5. a.token \in Nat BY <1>0, <2>3, <4>3, <4>4, RequestKeeps
      <4> HIDE DEF a
      <4>6. /\ Fit(w)  /\ Tidy(w)  /\ BindsNone(rest, w)  /\ Sane(w, k, sent, q, ls)
            /\ a.token = 0 => Well(rest, w, {}, {})
            /\ a.token # 0 => EntryFits(w, c, sent) /\ Unqueued(q, a.token)
        BY <1>0, <2>3, <2>4, <4>3, <4>4, <4>7, AskedGoes
      <4> QED BY <4>5, <4>6
  <2> HIDE DEF w, a, kind
  <2>6. w \in Model /\ BindsNone(v, w) BY <1>0, <1>1, <2>5, FitModel, BindsNoneOn
  <2>7. CASE a.token = 0
    <3> DEFINE y == QueueRelease(w, r.leg, r.recover)
    <3>1. x.m = y /\ x.cmd = Silence BY <2>1, <2>7 DEF Released, w
    <3>2. Well(v, w, {}, {}) BY <2>5, <2>7, WellOn
    <3>3. Well(v, y, {}, {}) /\ y.txns = w.txns BY <1>0, <3>2, ClaimReleased
    <3> HIDE DEF y
    <3>4. Fit(y) /\ Tidy(y) /\ Sane(y, k, sent, q, ls) BY <3>3, TidyStays, SaneGoes DEF Well
    <3>5. BindsNone(v, y) BY <2>6, <3>3 DEF BindsNone, Well, Goes
    <3> QED BY <1>2, <3>1, <3>4, <3>5
  <2>8. CASE a.token # 0
    <3>1. x = Send(w, c) BY <2>1, <2>8 DEF Released, w
    <3>2. c \in Command /\ c.kind = kind /\ c.token = a.token
      BY <1>0, <2>3, <2>5 DEF Cmd, Command, Refs
    <3> HIDE DEF c
    <3>3. Placers(w, k, sent) BY <2>6, PlacersGo DEF BindsNone
    <3>4. /\ Fit(x.m)  /\ Tidy(x.m)  /\ BindsNone(w, x.m)
          /\ Sane(x.m, k, Told(sent, x.cmd), q, ls)
          /\ x.cmd # Silence => x.cmd = c
      BY <2>3, <2>5, <2>8, <3>1, <3>2, <3>3, SendGoes
    <3>5. x.cmd.kind # "DIAL" BY <1>2, <2>3, <3>2, <3>4
    <3>6. Told(sent, x.cmd) = sent BY <3>5 DEF Told
    <3>7. BindsNone(v, x.m) BY <1>0, <2>6, <3>4, FitModel, BindsNoneOn
    <3> QED BY <3>4, <3>5, <3>6, <3>7
  <2> QED BY <2>7, <2>8
<1> QED BY <1>3, <1>4

LEMMA StartReleaseGoes ==
    ASSUME NEW v, Fit(v), Tidy(v), NEW k, NEW sent, NEW q \in Seq(Command), NEW ls,
           Sane(v, k, sent, q, ls), Placers(v, k, sent), NEW x, x = StartRelease(v)
    PROVE  /\ Fit(x.m)  /\ Tidy(x.m)  /\ BindsNone(v, x.m)  /\ Sane(x.m, k, sent, q, ls)
           /\ x.cmd.kind # "DIAL"
<1> DEFINE todo == {n \in DOMAIN v.releases : /\ Has(v, v.releases[n].leg)
                                              /\ ~Scheduled(v, v.releases[n].leg)}
           i == Min(todo)
<1>0. v \in Model BY FitModel
<1>1. v.releases \in Seq(Queued) BY <1>0 DEF Model, Queued
<1>2. x = ReleaseFirst(v, todo) BY DEF StartRelease
<1>3. ASSUME NEW p \in Seq(Queued), \A n \in DOMAIN p : p[n].leg \in Claims(v)
      PROVE  LET w == [v EXCEPT !.releases = p] IN
             /\ Well(v, w, {}, {})  /\ w.txns = v.txns  /\ w.legs = v.legs  /\ w.gen = v.gen
  <2> DEFINE w == [v EXCEPT !.releases = p]
  <2>1. Well(v, w, {}, {}) BY <1>3, ReleasesGo
  <2>2. w.txns = v.txns /\ w.legs = v.legs /\ w.gen = v.gen BY <1>0 DEF Model
  <2> QED BY <2>1, <2>2
<1>4. CASE todo = {}
  <2> DEFINE w == [v EXCEPT !.releases = <<>>]
  <2>1. x.m = w /\ x.cmd = Silence BY <1>2, <1>4 DEF ReleaseFirst
  <2>2. Well(v, w, {}, {}) /\ w.txns = v.txns
    <3>1. <<>> \in Seq(Queued) /\ \A n \in DOMAIN <<>> : <<>>[n].leg \in Claims(v) OBVIOUS
    <3> QED BY <3>1, <1>3
  <2> HIDE DEF w
  <2>3. Fit(w) /\ Tidy(w) /\ Sane(w, k, sent, q, ls) BY <2>2, TidyStays, SaneGoes DEF Well
  <2>4. BindsNone(v, w) BY <2>2, BindsNoneIf
  <2>5. Silence.kind # "DIAL" BY DEF Silence
  <2> QED BY <2>1, <2>3, <2>4, <2>5
<1>5. CASE todo # {}
  <2> DEFINE p == SubSeq(v.releases, i + 1, Len(v.releases))
             rest == [v EXCEPT !.releases = p]
             r == v.releases[i]
  <2>1. DOMAIN v.releases = 1..Len(v.releases) /\ Len(v.releases) \in Nat BY <1>1
  <2>2. todo \in SUBSET Nat BY <2>1
  <2>3. i \in todo
    <3> HIDE DEF todo
    <3> QED BY <2>2, <1>5, LeastNat
  <2>4. i \in 1..Len(v.releases) /\ Has(v, r.leg) BY <2>1, <2>3
  <2>5. x = Release(v, [v EXCEPT !.releases = SubSeq(@, i + 1, Len(@))], r)
    BY <1>2, <1>5 DEF ReleaseFirst
  <2> HIDE DEF todo, i
  <2>6. r \in Queued /\ r.leg \in Claims(v) BY <1>1, <2>1, <2>4 DEF Claims
  <2>7. p \in Seq(Queued) /\ \A n \in DOMAIN p : \E o \in DOMAIN v.releases : p[n] = v.releases[o]
    <3>1. p \in Seq(Queued) /\ Len(p) = Len(v.releases) - i
      <4> HIDE DEF Queued
      <4> QED BY <1>1, <2>1, <2>4
    <3>2. \A n \in 1..(Len(v.releases) - i) : p[n] = v.releases[i + n]
      <4> HIDE DEF Queued
      <4> QED BY <1>1, <2>1, <2>4
    <3>3. \A n \in 1..(Len(v.releases) - i) : i + n \in 1..Len(v.releases) BY <2>1, <2>4
    <3>4. DOMAIN p = 1..Len(p) BY <3>1
    <3> HIDE DEF p, Queued
    <3> QED BY <2>1, <3>1, <3>2, <3>3, <3>4
  <2>8. \A n \in DOMAIN p : p[n].leg \in Claims(v) BY <2>7 DEF Claims
  <2>9. [v EXCEPT !.releases = SubSeq(@, i + 1, Len(@))] = rest BY <1>0 DEF Model
  <2> HIDE DEF p
  <2>10. /\ Well(v, rest, {}, {})  /\ rest.txns = v.txns
         /\ rest.legs = v.legs  /\ rest.gen = v.gen
    BY <1>3, <2>7, <2>8
  <2>11. x = Release(v, rest, r) BY <2>5, <2>9
  <2> HIDE DEF rest, r
  <2> QED BY <2>4, <2>6, <2>10, <2>11, ReleaseGoes
<1> QED BY <1>4, <1>5

----------------------------------------------------------------------------
(* What a step that lists nothing does to the table: dials take legs in u  *)
(* and in nothing after it.                                                *)
Shift(u, T, sent) ==
    /\ Well(m, u, T, Slot)  /\ BindsNone(u, m')
    /\ Fit(m')  /\ Tidy(m')  /\ Sane(m', calls, sent, queue', lost)

LEMMA BindsNoneItself == \A v : BindsNone(v, v)  BY DEF BindsNone, GoesLeg

LEMMA ShiftItself ==
    ASSUME Table, NEW T, Well(m, m', T, Slot), Tidy(m'), UNCHANGED queue
    PROVE  Shift(m', T, Sent)
<1>1. Sane(m', calls, Sent, queue, lost) BY SaneGoes DEF Table
<1> QED BY <1>1, BindsNoneItself DEF Shift, Well

LEMMA ServedShift ==
    ASSUME Table, NEW v, Well(m, v, {}, Slot), Serve(v), UNCHANGED queue
    PROVE  Shift(m', {}, Sent)
<1>1. Well(v, m', {}, Slot) /\ Tidy(m') BY ServeGoes DEF Well
<1>2. Well(m, m', {}, Slot) BY <1>1, WellOn DEF Table
<1> QED BY <1>1, <1>2, ShiftItself

(* Every call has the token of a dial that was written, or none.           *)
LEMMA AllPlaced ==
    ASSUME IInv, m.legs \in [Id -> Leg]
    PROVE  Placers(m, calls, Sent)
<1>1. \A id \in InUse(m) : m.legs[id].call \in DOMAIN calls
  <2>1. calls \in Seq(Nat) BY ServiceTypeOK DEF NetType
  <2>2. \A id \in InUse(m) : m.legs[id].call \in 1..Len(calls) BY DEF IInv, Calls, InUse
  <2> QED BY <2>1, <2>2
<1> QED BY <1>1 DEF Placers, Sent

LEMMA AskShift == DInv /\ Ask => Shift(m, {}, Sent)
<1> SUFFICES ASSUME DInv, Ask  PROVE Shift(m, {}, Sent)  OBVIOUS
<1>0. Fit(m) /\ Tidy(m) /\ Sane(m, calls, Sent, queue, lost) /\ TypeOK /\ m \in Model
  BY FitModel DEF DInv, Table, IInv, NeverResurrected
<1>1. PICK o \in Offered : QueueCall(o.kind, o.at) BY DEF Ask
<1>2. o.kind \in Requests /\ o.at \in Id \cup {0} BY <1>0, OfferedType DEF Asks
<1>3. MayAsk(m, o.kind) BY <1>1 DEF MayAsk, Offered
<1>4. /\ Fit(m')  /\ Tidy(m')  /\ BindsNone(m, m')  /\ Sane(m', calls, Sent, queue', lost)
  BY <1>0, <1>1, <1>2, <1>3, QueueCallGoes
<1>5. Well(m, m, {}, Slot) BY <1>0, WellNowhere
<1> QED BY <1>4, <1>5 DEF Shift

(* What a pass that starts something ends with.                            *)
LEMMA FramedGoes ==
    ASSUME NEW t, t \in Model, NEW v, Fit(v), Tidy(v), BindsNone(t, v),
           NEW k, NEW sent, NEW q, NEW ls, Sane(v, k, sent, q, ls),
           NEW w, w = Project(v)
    PROVE  Fit(w) /\ Tidy(w) /\ BindsNone(t, w) /\ Sane(w, k, sent, q, ls)
<1>1. Well(v, w, {}, {}) BY ProjectGoes
<1>2. w.txns = v.txns
  <2>1. v \in Model BY FitModel
  <2> QED BY <2>1 DEF Project, ProjectAs, Publish, Model
<1>3. BindsNone(v, w) BY <1>1, <1>2, BindsNoneIf
<1>4. v \in Model /\ w \in Model BY <1>1, FitModel DEF Well
<1> QED BY <1>1, <1>3, <1>4, TidyStays, SaneGoes, BindsNoneOn DEF Well

(* A command written for a dial belongs to an operation that is open.      *)
LiveDial(t, cmd) == cmd.kind = "DIAL" => \E s \in SlotOf(t, cmd.token) : ~IsTerminal(t.txns[s])

LEMMA TurnShift ==
    ASSUME DInv, Turn, NEW t, t = Tick(m, Calm)
    PROVE  \E cmd \in Command : /\ Shift(t, {}, Told(Sent, cmd))
                                /\ LiveDial(t, cmd)
                                /\ owed' = owed \/ owed' = Append(owed, cmd)
<1> DEFINE r == StartRelease(t)
<1>0. Fit(m) /\ Sane(m, calls, Sent, queue, lost) /\ IInv /\ m \in Model
  BY FitModel DEF DInv, Table
<1>1. StartRequest(t) \/ StartCleanup(t, r) \/ Poll(t, r) \/ Rest(t, r) BY DEF Turn
<1>2. Well(m, t, {}, Slot) /\ Tidy(t)
  <2>1. LateOf(Calm) = {} /\ Due(m, Calm) BY DEF LateOf, Calm, Due
  <2> QED BY <1>0, <2>1, TickGoes
<1>3. Fit(t) /\ t \in Model /\ Sane(t, calls, Sent, queue, lost)
  BY <1>0, <1>2, SaneGoes, FitModel DEF Well
<1>4. Placers(t, calls, Sent)
  <2>1. Placers(m, calls, Sent) BY <1>0, AllPlaced DEF Model
  <2> QED BY <2>1, <1>2, PlacersGo DEF Well, Goes
<1>5. queue \in Seq(Command) BY <1>0 DEF IInv, NeverResurrected, TypeOK
<1>6. /\ Fit(r.m)  /\ Tidy(r.m)  /\ BindsNone(t, r.m)  /\ Sane(r.m, calls, Sent, queue, lost)
      /\ r.cmd.kind # "DIAL" /\ r.cmd \in Command
  BY <1>2, <1>3, <1>4, <1>5, StartReleaseGoes, StartReleaseStarts DEF Starting
<1> HIDE DEF r
<1>7. Silence \in Command /\ Silence.kind # "DIAL" BY SilenceType
<1>8. \A cmd : cmd.kind # "DIAL" => Told(Sent, cmd) = Sent /\ LiveDial(t, cmd) BY DEF Told, LiveDial
<1>9. ASSUME NEW cmd \in Command, LiveDial(t, cmd), owed' = owed \/ owed' = Append(owed, cmd),
             NEW v, Fit(v), Tidy(v), BindsNone(t, v),
             Sane(v, calls, Told(Sent, cmd), queue', lost), m' = Project(v)
      PROVE  \E c \in Command : /\ Shift(t, {}, Told(Sent, c))  /\ LiveDial(t, c)
                                /\ owed' = owed \/ owed' = Append(owed, c)
  <2>1. /\ Fit(m')  /\ Tidy(m')  /\ BindsNone(t, m')
        /\ Sane(m', calls, Told(Sent, cmd), queue', lost)
    BY <1>3, <1>9, FramedGoes
  <2> QED BY <1>2, <1>9, <2>1 DEF Shift
<1>10. CASE StartRequest(t)
  <2> DEFINE c == Head(queue)
             x == Send(t, c)
  <2>1. queue # <<>> /\ ~Blocked(t) /\ queue' = Tail(queue) /\ Begins(x)
    BY <1>10 DEF StartRequest, Ready
  <2>2. c \in Command /\ c = queue[1] /\ 1 \in DOMAIN queue BY <1>5, <2>1
  <2>3. c.kind = "DIAL" => ~CleanupPending(t) BY <2>1 DEF Blocked, CleanupBlocks
  <2>4. QueueFits(t, queue, Sent) BY <1>3 DEF Sane, Knows
  <2>5. EntryFits(t, c, Sent) BY <2>2, <2>4 DEF QueueFits
  <2>6. Unqueued(Tail(queue), c.token)
    <3>1. \A n, i \in DOMAIN queue : queue[n].token = queue[i].token => n = i BY <2>4 DEF QueueFits
    <3>2. \A n \in DOMAIN Tail(queue) : /\ Tail(queue)[n] = queue[n + 1]
                                        /\ n + 1 \in DOMAIN queue  /\ n + 1 # 1
      BY <1>5, <2>1
    <3> HIDE DEF c
    <3> QED BY <2>2, <3>1, <3>2 DEF Unqueued
  <2>7. Sane(t, calls, Sent, Tail(queue), lost) BY <1>3, <1>5, <2>1, <2>4, FewerQueued, SaneQueue
  <2> HIDE DEF c
  <2>8. /\ Fit(x.m)  /\ Tidy(x.m)  /\ BindsNone(t, x.m)
        /\ Sane(x.m, calls, Told(Sent, x.cmd), Tail(queue), lost)
        /\ x.cmd # Silence => /\ x.cmd = c
                              /\ \E s \in SlotOf(t, c.token) : ~IsTerminal(t.txns[s])
    BY <1>2, <1>3, <1>4, <2>2, <2>3, <2>5, <2>6, <2>7, SendGoes
  <2> HIDE DEF x
  <2>9. /\ x.cmd \in Command  /\ LiveDial(t, x.cmd)
        /\ owed' = owed \/ owed' = Append(owed, x.cmd)
        /\ m' = Project(x.m)
    BY <1>7, <2>1, <2>2, <2>8 DEF LiveDial, Begins
  <2> QED BY <1>9, <2>1, <2>8, <2>9
<1>11. CASE StartCleanup(t, r)
  <2>1. UNCHANGED queue /\ Begins(r) BY <1>11 DEF StartCleanup
  <2>2. m' = Project(r.m) /\ (owed' = owed \/ owed' = Append(owed, r.cmd)) BY <2>1 DEF Begins
  <2> QED BY <1>6, <1>8, <1>9, <2>1, <2>2
<1>12. CASE Poll(t, r)
  <2> DEFINE c == Cmd("CLCC", 0, 0)
             v == ClccBegin(r.m)
  <2>1. UNCHANGED queue /\ Begins([m |-> v, cmd |-> c]) BY <1>12 DEF Poll
  <2>2. c \in Command /\ c.kind = "CLCC" BY CommandOf DEF Ops
  <2> HIDE DEF c
  <2>3. m' = Project(v) /\ (owed' = owed \/ owed' = Append(owed, c)) BY <2>1 DEF Begins
  <2>4. Well(r.m, v, {}, {}) BY <1>6, ListingGoes
  <2>5. v.txns = r.m.txns
    <3>1. r.m \in Model BY <1>6, FitModel
    <3> QED BY <3>1 DEF ClccBegin, Model
  <2>6. BindsNone(r.m, v) BY <2>4, <2>5, BindsNoneIf
  <2> HIDE DEF v
  <2>7. r.m \in Model /\ v \in Model /\ Fit(v) BY <1>6, <2>4, FitModel DEF Well
  <2>8. Tidy(v) /\ BindsNone(t, v) /\ Sane(v, calls, Sent, queue, lost)
    BY <1>3, <1>6, <2>4, <2>6, <2>7, TidyStays, SaneGoes, BindsNoneOn
  <2> QED BY <1>8, <1>9, <2>1, <2>2, <2>3, <2>7, <2>8
<1>13. CASE Rest(t, r)
  <2>1. /\ UNCHANGED <<queue, owed>>
        /\ m' = Project(t) \/ m' = Project(r.m)
    BY <1>13 DEF Rest, Rested
  <2> QED BY <1>2, <1>3, <1>6, <1>7, <1>8, <1>9, <2>1, BindsNoneItself
<1> QED BY <1>1, <1>10, <1>11, <1>12, <1>13

(* What a step does to the commands out and the calls placed: cmd is the   *)
(* command written with it, if any.                                        *)
Placing(cmd) ==
    /\ owed' = owed \/ owed' = Append(owed, cmd) \/ (owed # <<>> /\ owed' = Tail(owed))
    /\ \/ calls' = calls  \/ calls' = Append(calls, 0)
       \/ /\ owed # <<>>  /\ owed' = Tail(owed)  /\ Head(owed).kind = "DIAL"
          /\ calls' = Append(calls, Head(owed).token)

(* A dial that was sent is cancelled with its leg still to come: a second  *)
(* call, or when nothing is out and every call has its leg.                *)
Shifts ==
    \E u, T : \E cmd \in Command :
        /\ Shift(u, T, Told(Sent, cmd))  /\ LiveDial(u, cmd)  /\ Placing(cmd)
        /\ \A s \in T : m.txns[s].second \/ (CaughtUp /\ UNCHANGED <<owed, net, calls>>)

Lists ==
    \E rows \in Rowed :
        /\ m.shadow = "open"  /\ Serve(ClccOk(m, rows))  /\ UNCHANGED queue  /\ Placing(Silence)
        /\ \A id \in Rows(rows) : rows[id] = net[id]

LEMMA QuietShifts ==
    ASSUME NEW T, Shift(m', T, Sent), Placing(Silence),
           \A s \in T : m.txns[s].second \/ (CaughtUp /\ UNCHANGED <<owed, net, calls>>)
    PROVE  Shifts
<1>1. Silence \in Command /\ Silence.kind # "DIAL" BY SilenceType
<1>2. Told(Sent, Silence) = Sent /\ LiveDial(m', Silence) BY <1>1 DEF Told, LiveDial
<1> QED BY <1>1, <1>2 DEF Shifts

LEMMA ServedShifts ==
    ASSUME Table, NEW v, Well(m, v, {}, Slot), Serve(v), UNCHANGED queue, Placing(Silence)
    PROVE  Shifts
BY ServedShift, QuietShifts

LEMMA StillPlacing == UNCHANGED <<owed, calls>> => Placing(Silence)  BY DEF Placing

LEMMA AskShifts == DInv /\ Ask => Shifts
<1> SUFFICES ASSUME DInv, Ask  PROVE Shifts  OBVIOUS
<1>1. Shift(m, {}, Sent) BY AskShift
<1>2. Placing(Silence) BY StillPlacing DEF Ask, outside
<1>3. Silence \in Command /\ Silence.kind # "DIAL" BY SilenceType
<1>4. Told(Sent, Silence) = Sent /\ LiveDial(m, Silence) BY <1>3 DEF Told, LiveDial
<1> QED BY <1>1, <1>2, <1>3, <1>4 DEF Shifts

LEMMA AbandonShifts == DInv /\ AbandonNewCall => Shifts
<1> SUFFICES ASSUME DInv, AbandonNewCall  PROVE Shifts  OBVIOUS
<1> DEFINE T == {s \in Slot : m.txns[s].second}
<1>1. m' = NewCallAbandoned(m) /\ UNCHANGED queue BY DEF AbandonNewCall
<1>2. Placing(Silence) BY StillPlacing DEF AbandonNewCall, outside
<1>3. Fit(m) /\ Tidy(m) BY DEF DInv, Table
<1>4. Well(m, m', T, {}) BY <1>1, <1>3, NewCallAbandonedGoes
<1>5. Tidy(m') BY <1>3, <1>4, TidyStays
<1>6. Well(m, m', T, Slot) BY <1>4, GoesMore DEF Well
<1>7. \A s \in T : m.txns[s].second OBVIOUS
<1> HIDE DEF T
<1> QED BY <1>1, <1>2, <1>5, <1>6, <1>7, ShiftItself, QuietShifts DEF DInv

LEMMA TurnShifts == DInv /\ Turn => Shifts
<1> SUFFICES ASSUME DInv, Turn  PROVE Shifts  OBVIOUS
<1> DEFINE t == Tick(m, Calm)
<1>1. PICK cmd \in Command : /\ Shift(t, {}, Told(Sent, cmd))  /\ LiveDial(t, cmd)
                             /\ owed' = owed \/ owed' = Append(owed, cmd)
  BY TurnShift
<1>2. calls' = calls BY DEF Turn, StartRequest, StartCleanup, Poll, Rest, outside
<1> HIDE DEF t
<1> QED BY <1>1, <1>2 DEF Shifts, Placing

(* The table is left alone.                                                *)
LEMMA AloneShifts ==
    ASSUME DInv, UNCHANGED <<m, queue>>, Placing(Silence)
    PROVE  Shifts
<1>1. Well(m, m', {}, Slot) /\ Tidy(m') BY WellNowhere DEF DInv, Table
<1> QED BY <1>1, ShiftItself, QuietShifts DEF DInv

LEMMA ArrivesShifts == DInv /\ Arrives => Shifts
<1> SUFFICES ASSUME DInv, Arrives  PROVE Shifts  OBVIOUS
<1>1. Placing(Silence) /\ UNCHANGED <<m, queue>> BY DEF Placing, Arrives
<1> QED BY <1>1, AloneShifts

LEMMA RingsShifts == DInv /\ Rings => Shifts
<1> SUFFICES ASSUME DInv, Rings  PROVE Shifts  OBVIOUS
<1>1. Placing(Silence) /\ UNCHANGED queue BY StillPlacing DEF Rings, outside
<1>2. PICK v \in {OnRing(m), OnClip(m)} : Serve(v) BY DEF Rings
<1>3. Well(m, v, {}, Slot) BY <1>2, OnRingGoes, OnClipGoes, WellMore DEF DInv, Table
<1> QED BY <1>1, <1>2, <1>3, ServedShifts DEF DInv

LEMMA EventShifts ==
    ASSUME DInv, Serve(OnEvent(m)), UNCHANGED <<queue, owed, calls>>
    PROVE  Shifts
<1>1. Well(m, OnEvent(m), {}, Slot) BY TouchGoes, WellMore DEF OnEvent, DInv, Table
<1> QED BY <1>1, StillPlacing, ServedShifts DEF DInv

(* The end of a command, or its deadline, as the table hears of it.        *)
LEMMA ResultGoes ==
    ASSUME Table, NEW tok, NEW status
    PROVE  Well(m, CommandResult(m, tok, status), {}, Slot)
BY CommandResultGoes DEF Table, Tidy

LEMMA EndsShifts == DInv /\ (RemoteAnswers \/ EndsWithEvent \/ EndsWithFinal \/ EndsUnheard) => Shifts
<1> SUFFICES ASSUME DInv, RemoteAnswers \/ EndsWithEvent \/ EndsWithFinal \/ EndsUnheard
             PROVE  Shifts
  OBVIOUS
<1>1. CASE RemoteAnswers BY <1>1, EventShifts DEF RemoteAnswers
<1>2. CASE EndsWithEvent BY <1>2, EventShifts DEF EndsWithEvent, Ends
<1>3. CASE EndsUnheard BY <1>3, AloneShifts, StillPlacing DEF EndsUnheard, Ends
<1>4. CASE EndsWithFinal
  <2>1. UNCHANGED <<queue, owed, calls>> BY <1>4 DEF EndsWithFinal, Ends
  <2>2. PICK v \in {CommandResult(m, wire.token, "ERROR"), OnBareFinal(m)} : Serve(v)
    BY <1>4 DEF EndsWithFinal
  <2>3. Well(m, v, {}, Slot) BY <2>2, ResultGoes, OnBareFinalGoes, WellMore DEF DInv, Table
  <2> QED BY <2>1, <2>2, <2>3, StillPlacing, ServedShifts DEF DInv
<1> QED BY <1>1, <1>2, <1>3, <1>4

LEMMA TimesOutShifts == DInv /\ TimesOut => Shifts
<1> SUFFICES ASSUME DInv, TimesOut  PROVE Shifts  OBVIOUS
<1>1. Placing(Silence) /\ UNCHANGED queue BY StillPlacing DEF TimesOut, outside
<1>2. PICK v \in {ClccError(m), CommandResult(m, wire.token, "TIMEOUT")} : Serve(v) BY DEF TimesOut
<1>3. Well(m, v, {}, Slot) BY <1>2, ResultGoes, ListingGoes, WellMore DEF DInv, Table
<1> QED BY <1>1, <1>2, <1>3, ServedShifts DEF DInv

LEMMA PassesShift ==
    ASSUME DInv, NEW e \in Expiries(m), Passes(e), e.kind = "abandon" => CaughtUp
    PROVE  Shifts
<1> DEFINE t == Tick(m, e)
<1>1. m' = Project(t) /\ UNCHANGED <<queue, owed, net, calls>> BY DEF Passes, outside
<1>2. Fit(m) /\ Table BY DEF DInv, Table
<1>3. Well(m, t, LateOf(e), Slot) /\ Tidy(t) BY <1>2, TickGoes DEF Due
<1> HIDE DEF t
<1>4. Well(t, m', {}, {}) BY <1>1, <1>3, ProjectGoes DEF Well
<1>5. Well(m, m', LateOf(e), Slot) /\ Tidy(m') BY <1>2, <1>3, <1>4, WellOn, WellMore, TidyStays
<1>6. \A s \in LateOf(e) : CaughtUp BY DEF LateOf
<1> QED BY <1>1, <1>2, <1>5, <1>6, ShiftItself, QuietShifts, StillPlacing

LEMMA DeadlinesShift == DInv /\ (Deadline \/ Slow) => Shifts
<1> SUFFICES ASSUME DInv, Deadline \/ Slow  PROVE Shifts  OBVIOUS
<1>1. PICK e \in Expiries(m) : Passes(e) /\ (Timely(e) \/ e.kind = "limbo")
  BY DEF Deadline, Slow
<1>2. e.kind = "abandon" => CaughtUp BY <1>1 DEF Timely
<1> QED BY <1>1, <1>2, PassesShift

(* An answer: of a listing that is open, or of something else.             *)
LEMMA AnswerSteps ==
    ASSUME DInv, NEW eff, NEW rows \in Rowed, Answer(eff, rows),
           \A id \in Rows(rows) : rows[id] = net[id]
    PROVE  Shifts \/ Lists
<1>1. UNCHANGED queue /\ Placing(Silence) /\ Serve(Final(eff.ok, rows)) BY DEF Answer, Placing
<1>2. Fit(m) /\ Table BY DEF DInv, Table
<1> DEFINE v == Final(eff.ok, rows)
<1>3. \/ v = m \/ v = CommandResult(m, wire.token, IF eff.ok THEN "OK" ELSE "ERROR")
      \/ v = ClccError(m) \/ v = [m EXCEPT !.shadow = "closed"]
      \/ v = ClccOk(m, rows) /\ m.shadow = "open"
  BY DEF Final, ClccOk
<1>4. CASE v = ClccOk(m, rows) /\ m.shadow = "open" BY <1>1, <1>4 DEF Lists
<1>5. CASE ~(v = ClccOk(m, rows) /\ m.shadow = "open")
  <2> HIDE DEF v
  <2>1. Well(m, v, {}, Slot)
    BY <1>2, <1>3, <1>5, WellNowhere, ResultGoes, ListingGoes, ShadowGoes, WellMore
  <2> QED BY <1>1, <1>2, <2>1, ServedShifts DEF v
<1> QED BY <1>4, <1>5

LEMMA ModemSteps == DInv /\ (Answers \/ Refuses \/ Misses) => Shifts \/ Lists
<1> SUFFICES ASSUME DInv, Answers \/ Refuses \/ Misses  PROVE Shifts \/ Lists  OBVIOUS
<1>0. IInv BY DEF DInv
<1>1. Listed \in Rowed /\ \A id \in Rows(Listed) : Listed[id] = net[id] BY <1>0, ListedRows
<1>2. CASE Answers BY <1>1, <1>2, AnswerSteps DEF Answers
<1>3. CASE Refuses BY <1>1, <1>3, AnswerSteps DEF Refuses
<1>4. CASE Misses
  <2>1. PICK id \in Busy(net) : Answer(Done(net), [Listed EXCEPT ![id] = NoRow]) BY <1>4 DEF Misses
  <2> DEFINE rows == [Listed EXCEPT ![id] = NoRow]
  <2>2. NoRow \in Row /\ NoRow.state = "FREE" BY DEF NoRow, Row, OnAir, Dirs
  <2>3. rows \in Rowed BY <1>1, <2>2 DEF Rowed
  <2>4. \A x \in Rows(rows) : x \in Rows(Listed) /\ rows[x] = Listed[x]
    BY <1>1, <2>2 DEF Rowed, Rows
  <2> HIDE DEF rows
  <2>5. \A x \in Rows(rows) : rows[x] = net[x] BY <1>1, <2>4
  <2> QED BY <2>1, <2>3, <2>5, AnswerSteps DEF rows
<1> QED BY <1>2, <1>3, <1>4

LEMMA StepIs == DInv /\ Next => Shifts \/ Lists
BY AskShifts, AbandonShifts, TurnShifts, ArrivesShifts, RingsShifts, EndsShifts, TimesOutShifts,
   DeadlinesShift, ModemSteps
   DEF Next, User, Network, Modem, Service

(* Calls and commands out are only added, and a call placed is that of the *)
(* oldest command.                                                         *)
LEMMA PlacingGrows ==
    ASSUME IInv, NEW cmd \in Command, Placing(cmd)
    PROVE  /\ \A c \in DOMAIN calls : c \in DOMAIN calls' /\ calls'[c] = calls[c]
           /\ \A c \in DOMAIN calls' :
                 \/ c \in DOMAIN calls \/ calls'[c] = 0
                 \/ \E n \in DOMAIN owed : owed[n].kind = "DIAL" /\ calls'[c] = owed[n].token
           /\ \A n \in DOMAIN owed' : owed'[n] = cmd \/ \E o \in DOMAIN owed : owed'[n] = owed[o]
<1>0. calls \in Seq(Nat) /\ owed \in Seq(Command)
  BY ServiceTypeOK DEF NetType, ServiceType
<1>1. ASSUME NEW tok \in Nat, calls' = Append(calls, tok)
      PROVE  /\ \A c \in DOMAIN calls : c \in DOMAIN calls' /\ calls'[c] = calls[c]
             /\ \A c \in DOMAIN calls' : c \in DOMAIN calls \/ calls'[c] = tok
  BY <1>0, <1>1
<1>2. ASSUME owed # <<>>
      PROVE  Head(owed) = owed[1] /\ 1 \in DOMAIN owed /\ owed[1].token \in Nat
  <2>1. Head(owed) = owed[1] /\ 1 \in DOMAIN owed /\ owed[1] \in Command BY <1>0, <1>2
  <2> QED BY <2>1 DEF Command
<1>3. owed # <<>> => \A n \in DOMAIN Tail(owed) : n + 1 \in DOMAIN owed /\ Tail(owed)[n] = owed[n + 1]
  BY <1>0
<1>4. \A n \in DOMAIN Append(owed, cmd) :
         Append(owed, cmd)[n] = cmd \/ (n \in DOMAIN owed /\ Append(owed, cmd)[n] = owed[n])
  BY <1>0
<1>5. \A n \in DOMAIN owed' : owed'[n] = cmd \/ \E o \in DOMAIN owed : owed'[n] = owed[o]
  BY <1>3, <1>4 DEF Placing
<1>6. CASE calls' = calls BY <1>5, <1>6
<1>7. CASE calls' = Append(calls, 0) BY <1>1, <1>5, <1>7
<1>8. CASE /\ owed # <<>>  /\ Head(owed).kind = "DIAL"
           /\ calls' = Append(calls, Head(owed).token)
  BY <1>1, <1>2, <1>5, <1>8
<1> QED BY <1>6, <1>7, <1>8 DEF Placing

LEMMA SentStays ==
    ASSUME IInv, NEW cmd \in Command, Placing(cmd)
    PROVE  Sent' \subseteq Told(Sent, cmd)
<1> SUFFICES ASSUME NEW tok, tok \in Sent'  PROVE tok \in Told(Sent, cmd)  OBVIOUS
<1>1. tok # 0 BY DEF Sent
<1>2. CASE \E c \in DOMAIN calls' : calls'[c] = tok BY <1>1, <1>2, PlacingGrows DEF Sent, Told
<1>3. CASE \E n \in DOMAIN owed' : owed'[n].kind = "DIAL" /\ owed'[n].token = tok
  <2>1. PICK n \in DOMAIN owed' : owed'[n].kind = "DIAL" /\ owed'[n].token = tok BY <1>3
  <2>2. owed'[n] = cmd \/ \E o \in DOMAIN owed : owed'[n] = owed[o] BY PlacingGrows
  <2> QED BY <1>1, <2>1, <2>2 DEF Sent, Told
<1> QED BY <1>2, <1>3 DEF Sent

(* No call still to come is that of a cancelled dial.                      *)
LEMMA WaitedStays ==
    ASSUME IInv, Moved, NEW cmd \in Command, Placing(cmd), NEW tok, tok # 0,
           cmd.kind = "DIAL" => cmd.token # tok, Waited(tok)
    PROVE  Waited(tok)'
<1>1. \A n \in DOMAIN owed' : owed'[n].kind = "DIAL" => owed'[n].token # tok
  <2> SUFFICES ASSUME NEW n \in DOMAIN owed', owed'[n].kind = "DIAL"  PROVE owed'[n].token # tok
    OBVIOUS
  <2>1. owed'[n] = cmd \/ \E o \in DOMAIN owed : owed'[n] = owed[o] BY PlacingGrows
  <2> QED BY <2>1 DEF Waited
<1>2. ASSUME NEW c \in Going(net'), calls'[c] = tok
      PROVE  c \in Shows(m'.legs) \cup lost'
  <2>1. calls \in Seq(Nat) /\ Going(net) \subseteq 1..Len(calls)
    BY ServiceTypeOK, CallsBounded DEF NetType, IInv
  <2>2. PICK new \in SUBSET Spare : NetMoves(new) BY DEF Moved
  <2>3. PICK id \in Busy(net') : net'[id].call = c BY DEF Going
  <2>4. c \in Going(net) \/ (c = Len(calls) + 1 /\ Len(calls') = Len(calls) + 1)
    BY <2>2, <2>3 DEF NetMoves, Going
  <2>5. c \in Going(net)
    <3>1. SUFFICES ASSUME c = Len(calls) + 1, Len(calls') = Len(calls) + 1  PROVE FALSE BY <2>4
    <3>2. c \in DOMAIN calls' /\ c \notin DOMAIN calls BY <2>1, <2>2, <3>1 DEF NetMoves
    <3>3. PICK n \in DOMAIN owed : owed[n].kind = "DIAL" /\ calls'[c] = owed[n].token
      BY <1>2, <3>2, PlacingGrows
    <3> QED BY <1>2, <3>3 DEF Waited
  <2>6. calls[c] = tok
    <3>1. c \in DOMAIN calls BY <2>1, <2>5
    <3> QED BY <1>2, <3>1, PlacingGrows
  <2>7. c \in Shows(m.legs) \cup lost BY <2>5, <2>6 DEF Waited
  <2> QED BY <2>7 DEF Moved, Note
<1> QED BY <1>1, <1>2 DEF Waited

(* The legs in use after a step are of calls placed before it.             *)
LEMMA LegsOfCalls ==
    ASSUME IInv, Moved, NEW cmd \in Command, Placing(cmd)
    PROVE  \A id \in InUse(m') : LET c == m'.legs[id].call IN
              c \in DOMAIN calls /\ calls'[c] = calls[c]
<1> SUFFICES ASSUME NEW id \in InUse(m')
             PROVE  m'.legs[id].call \in DOMAIN calls
  BY PlacingGrows
<1>1. TypeOK /\ Calls /\ TableMoves BY DEF IInv, NeverResurrected, Moved
<1>2. \/ m'.legs[id].call = m.legs[id].call /\ id \in InUse(m)
      \/ id \in Busy(net) /\ m'.legs[id].call = net[id].call
  BY <1>1, LegOrigin
<1>3. m'.legs[id].call \in 1..Len(calls) BY <1>1, <1>2 DEF Calls, InUse
<1> QED BY <1>1, <1>3 DEF TypeOK

LEMMA SanePrimes ==
    ASSUME IInv, Moved, NEW cmd \in Command, Placing(cmd),
           Sane(m', calls, Told(Sent, cmd), queue', lost)
    PROVE  Sane(m', calls', Sent', queue', lost')
<1>1. Sent' \subseteq Told(Sent, cmd) BY SentStays
<1>2. \A id \in InUse(m') : calls'[m'.legs[id].call] = calls[m'.legs[id].call] BY LegsOfCalls
<1>3. \A id \in InUse(m') : m'.legs[id].call \in lost => m'.legs[id].call \in lost'
  BY DEF Moved, Note, Shows, InUse
<1>4. SentOnes(m', Sent') BY <1>1 DEF Sane, Knows, SentOnes
<1>5. QueueFits(m', queue', Sent') BY <1>1 DEF Sane, Knows, QueueFits, EntryFits
<1>6. Bases(m', calls') BY <1>2 DEF Sane, Knows, Bases
<1>7. Strays(m', calls', lost') BY <1>2, <1>3 DEF Sane, Knows, Strays
<1> QED BY <1>4, <1>5, <1>6, <1>7 DEF Sane, Knows

LEMMA SidedStays ==
    ASSUME IInv, Moved, NEW cmd \in Command, Placing(cmd),
           \A id \in InUse(m') : m'.legs[id].dir = Side(m'.legs[id].call)
    PROVE  Sided'
BY LegsOfCalls DEF Sided, Side

LEMMA OrphansStay ==
    ASSUME IInv, Moved, NEW cmd \in Command, Placing(cmd),
           \A o \in Slot : Orphan(m'.txns[o]) /\ ~m'.txns[o].second =>
               /\ Waited(m'.txns[o].token)  /\ m'.txns[o].token # 0
               /\ cmd.kind = "DIAL" => cmd.token # m'.txns[o].token
    PROVE  Orphans'
<1> SUFFICES ASSUME NEW o \in Slot, Orphan(m'.txns[o]), ~m'.txns[o].second
             PROVE  Waited(m.txns[o].token)'
  BY DEF Orphans, Orphan
<1>1. PICK tok : tok = m'.txns[o].token OBVIOUS
<1>2. Waited(tok) /\ tok # 0 /\ (cmd.kind = "DIAL" => cmd.token # tok) BY <1>1
<1>3. Waited(tok)' BY <1>2, WaitedStays
<1> QED BY <1>1, <1>3 DEF Waited

(* A leg that is there after the step was there, and the same.             *)
LEMMA ShiftedLegs ==
    ASSUME Fit(m), NEW u, NEW T, NEW sent, Shift(u, T, sent), NEW r, Has(m', r)
    PROVE  /\ Has(u, r)  /\ Has(m, r)  /\ r.id \in Id
           /\ m'.legs[r.id].dir = m.legs[r.id].dir  /\ m'.legs[r.id].call = m.legs[r.id].call
<1>1. m \in Model /\ u \in Model /\ m' \in Model BY FitModel DEF Shift, Well
<1>2. Has(u, r) /\ m'.legs[r.id].dir = u.legs[r.id].dir /\ m'.legs[r.id].call = u.legs[r.id].call
  BY <1>1, HadLeg DEF Shift, BindsNone
<1>3. /\ Has(m, r)  /\ r.id \in Id
      /\ u.legs[r.id].dir = m.legs[r.id].dir  /\ u.legs[r.id].call = m.legs[r.id].call
  BY <1>1, <1>2, HadLeg DEF Shift, Well, Goes
<1> QED BY <1>2, <1>3

LEMMA HasRef == \A v, id : id \in InUse(v) => Has(v, Ref(v, id)) /\ Ref(v, id).id = id
BY CallModelAssumption DEF Has, Ref, InUse

LEMMA ShiftsKeep ==
    ASSUME DInv, Moved, Shifts
    PROVE  Table'
<1>1. PICK u, T : \E cmd \in Command :
         /\ Shift(u, T, Told(Sent, cmd))  /\ LiveDial(u, cmd)  /\ Placing(cmd)
         /\ \A s \in T : m.txns[s].second \/ (CaughtUp /\ UNCHANGED <<owed, net, calls>>)
  BY DEF Shifts
<1>2. PICK cmd \in Command :
         /\ Shift(u, T, Told(Sent, cmd))  /\ LiveDial(u, cmd)  /\ Placing(cmd)
         /\ \A s \in T : m.txns[s].second \/ (CaughtUp /\ UNCHANGED <<owed, net, calls>>)
  BY <1>1
<1>3. IInv /\ Fit(m) /\ Tidy(m) /\ Sane(m, calls, Sent, queue, lost) /\ Orphans /\ Sided
  BY DEF DInv, Table
<1>4. Fit(m') /\ Tidy(m') /\ Sane(m', calls', Sent', queue', lost')
  BY <1>2, <1>3, SanePrimes DEF Shift
<1>5. Sided'
  <2>1. \A id \in InUse(m') : m'.legs[id].dir = Side(m'.legs[id].call)
    BY <1>2, <1>3, HasRef, ShiftedLegs DEF Sided, Has
  <2> QED BY <1>2, <1>3, <2>1, SidedStays
<1>6. Fit(u) /\ Goes(m, u, T, Slot) /\ BindsNone(u, m') BY <1>2 DEF Shift, Well
<1>7. ASSUME NEW o \in Slot, Orphan(m'.txns[o]), ~m'.txns[o].second
      PROVE  /\ Waited(m'.txns[o].token)  /\ m'.txns[o].token # 0
             /\ cmd.kind = "DIAL" => cmd.token # m'.txns[o].token
  <2> DEFINE tok == m'.txns[o].token
  <2>1. Orphan(u.txns[o]) /\ u.txns[o].token = tok /\ ~u.txns[o].second
    BY <1>6, <1>7 DEF BindsNone, Orphan
  <2>2. /\ m.txns[o].kind = "DIAL"  /\ m.txns[o].token = tok  /\ ~m.txns[o].second
        /\ Orphan(m.txns[o]) \/ o \in T
    BY <1>6, <2>1, DialsGo
  <2>3. Tokens(m) BY <1>3 DEF Sane, Knows
  <2>4. tok # 0 BY <2>2, <2>3 DEF Tokens
  <2>5. Waited(tok)
    <3>1. CASE Orphan(m.txns[o]) BY <1>3, <2>2, <3>1 DEF Orphans
    <3>2. CASE o \in T
      <4>1. CaughtUp BY <1>2, <2>2, <3>2
      <4>2. Going(net) \subseteq Shows(m.legs)
        <5>1. \A id \in Busy(net) : id \in InUse(m) /\ m.legs[id].call = net[id].call
          BY <1>3, <4>1 DEF CaughtUp, IInv, Calls
        <5> QED BY <5>1 DEF Going, Shows, InUse
      <4> QED BY <4>1, <4>2 DEF Waited, CaughtUp
    <3> QED BY <2>2, <3>1, <3>2
  <2>6. ASSUME cmd.kind = "DIAL", cmd.token = tok  PROVE FALSE
    <3>1. PICK s \in SlotOf(u, tok) : ~IsTerminal(u.txns[s]) BY <1>2, <2>6 DEF LiveDial
    <3>2. /\ s \in Slot  /\ u.txns[s].kind # "NONE"  /\ u.txns[s].token = tok BY DEF SlotOf
    <3>3. m.txns[s].kind # "NONE" /\ m.txns[s].token = tok BY <1>6, <3>2, DialsGo
    <3>4. s = o BY <2>2, <2>3, <3>2, <3>3 DEF Tokens
    <3>5. IsTerminal(u.txns[o]) BY <1>6, <2>1 DEF Fit, FitDial, Orphan
    <3> QED BY <3>1, <3>4, <3>5
  <2> QED BY <2>4, <2>5, <2>6
<1>8. Orphans' BY <1>2, <1>3, <1>7, OrphansStay
<1> QED BY <1>4, <1>5, <1>8 DEF Table

(* The leg that a dial takes is of its own call, or of one whose dials are *)
(* forgotten or have other legs.                                           *)
Binding(s) ==
    LET t == m'.txns[s]  c == m'.legs[t.leg.id].call IN
    t.kind = "DIAL" /\ t.leg \notin {NoRef, m.txns[s].leg} /\ c # 0 =>
        \/ calls'[c] = t.token
        \/ /\ calls'[c] # 0
           /\ \A o \in SlotOf(m, calls'[c]) :
                 IF m.txns[o].leg = NoRef THEN m.txns[o].tomb /\ (t.tomb \/ c \in lost)
                 ELSE m.txns[o].leg # t.leg

LEMMA LegWithCall ==
    ASSUME IInv, Moved, NEW id \in Id, m'.legs[id].call # 0
    PROVE  id \in InUse(m')
BY LegOrigin DEF IInv, NeverResurrected, Moved, InUse

(* The leg r of a cancelled dial s is that of a call whose dials are       *)
(* forgotten or have other legs: v is the table in which it may take it.   *)
LEMMA TombBinds ==
    ASSUME DInv, NEW s \in Slot, NEW r, NEW c, c \in DOMAIN calls, calls[c] # 0,
           m.txns[s].leg = NoRef,
           \A o \in Slot \ {s} : m.txns[o].kind = "DIAL" => m.txns[o].leg # r,
           \A o \in Dials(m) : calls[c] # m.txns[o].token
    PROVE  \A o \in SlotOf(m, calls[c]) :
              IF m.txns[o].leg = NoRef THEN m.txns[o].tomb ELSE m.txns[o].leg # r
<1> SUFFICES ASSUME NEW o \in SlotOf(m, calls[c])
             PROVE  IF m.txns[o].leg = NoRef THEN m.txns[o].tomb ELSE m.txns[o].leg # r
  OBVIOUS
<1>0. /\ o \in Slot  /\ m.txns[o].kind # "NONE"  /\ m.txns[o].token = calls[c] BY DEF SlotOf
<1>1. calls[c] \in Sent BY DEF Sent
<1>2. m.txns[o].kind = "DIAL" /\ m.txns[o].state # "PENDING"
  BY <1>1 DEF DInv, Table, Sane, Knows, SentOnes
<1>3. ASSUME m.txns[o].leg = NoRef  PROVE m.txns[o].tomb
  <2>1. o \notin Dials(m) BY <1>0
  <2>2. m.txns[o].state # "SENT" BY <1>0, <1>2, <1>3, <2>1 DEF Dials
  <2>3. m.txns[o] \in Txn BY <1>0, FitModel, SlotTxn DEF DInv, Table
  <2>4. IsTerminal(m.txns[o]) BY <1>2, <2>2, <2>3 DEF Txn, IsTerminal
  <2> QED BY <1>0, <1>2, <1>3, <2>4 DEF DInv, Table, Tidy, Neat
<1>4. ASSUME m.txns[o].leg # NoRef  PROVE m.txns[o].leg # r BY <1>0, <1>2, <1>4
<1> QED BY <1>3, <1>4

LEMMA ShiftsBind ==
    ASSUME DInv, Moved, Shifts, NEW s \in Slot
    PROVE  Binding(s)
<1> DEFINE t == m'.txns[s]
           r == t.leg
           c == m'.legs[r.id].call
           a == m.txns[s]
<1> SUFFICES ASSUME t.kind = "DIAL", r \notin {NoRef, a.leg}, c # 0
             PROVE  \/ calls'[c] = t.token
                    \/ /\ calls'[c] # 0
                       /\ \A o \in SlotOf(m, calls'[c]) :
                             IF m.txns[o].leg = NoRef THEN m.txns[o].tomb /\ (t.tomb \/ c \in lost)
                             ELSE m.txns[o].leg # r
  BY DEF Binding
<1>1. PICK u, T : \E cmd \in Command : Shift(u, T, Told(Sent, cmd)) /\ Placing(cmd)
  BY DEF Shifts
<1>2. PICK cmd \in Command : Shift(u, T, Told(Sent, cmd)) /\ Placing(cmd) BY <1>1
<1>3. IInv /\ Fit(m) /\ Sane(m, calls, Sent, queue, lost) /\ Sided BY DEF DInv, Table
<1>4. /\ u.txns[s].kind = "DIAL"  /\ u.txns[s].leg = r  /\ u.txns[s].token = t.token
      /\ u.txns[s].tomb = t.tomb
  BY <1>2 DEF Shift, BindsNone
<1>5. GoesDial(m, s, a, u.txns[s], T, Slot) /\ a.kind = "DIAL"
  BY <1>2, <1>4 DEF Shift, Well, Goes, GoesTxn
<1>6. a.leg = NoRef /\ Free(m, s, r) /\ (a.tomb \/ a.state = "SENT") /\ (a.tomb => t.tomb)
  BY <1>4, <1>5 DEF GoesDial
<1>7. Has(m, r) /\ Places(m, r.id) /\ r.id \in InUse(m) /\ r.id \in Id
  BY <1>6 DEF Free, Has, InUse
<1>8. r = Ref(m, r.id)
  <2>1. r \in Refs
    <3>1. m' \in Model BY <1>2, FitModel DEF Shift
    <3> QED BY <3>1, SlotTxn DEF Txn
  <2> QED BY <1>7, <2>1 DEF Has, Ref, Refs
<1>9. \A o \in Slot \ {s} : m.txns[o].kind = "DIAL" => m.txns[o].leg # r BY <1>6 DEF Free
<1>10. ~Owned(m, r) BY <1>6, <1>9 DEF Owned
<1>11. \A o \in Dials(m) : r \in m.txns[o].baseline
  BY <1>3, <1>7, <1>8, <1>10 DEF Sane, NoneFree
<1>12. s \notin Dials(m) BY <1>6, <1>11 DEF Free
<1>13. a.tomb /\ t.tomb BY <1>5, <1>6, <1>12 DEF Dials
<1>14. r.id \in InUse(m') BY <1>3, <1>7, LegWithCall
<1>15. c = m.legs[r.id].call
  <2>1. u \in Model /\ m \in Model /\ m' \in Model BY <1>2, <1>3, FitModel DEF Shift, Well
  <2>2. \A id \in Id : GoesLeg(m, u, id) /\ GoesLeg(u, m', id)
    BY <1>2 DEF Shift, Well, Goes, BindsNone
  <2> QED BY <1>7, <1>14, <2>1, <2>2 DEF GoesLeg, InUse
<1>16. c \in DOMAIN calls /\ calls'[c] = calls[c] BY <1>2, <1>3, <1>14, LegsOfCalls
<1>17. calls[c] # 0 BY <1>3, <1>7, <1>15 DEF Sided, Side, Places
<1>18. \A o \in Dials(m) : calls[c] # m.txns[o].token
  BY <1>3, <1>7, <1>8, <1>11, <1>15 DEF Sane, Knows, Bases
<1>19. \A o \in SlotOf(m, calls[c]) :
          IF m.txns[o].leg = NoRef THEN m.txns[o].tomb ELSE m.txns[o].leg # r
  <2> HIDE DEF c, r, t
  <2> QED BY <1>6, <1>9, <1>16, <1>17, <1>18, TombBinds
<1> QED BY <1>13, <1>16, <1>17, <1>19

----------------------------------------------------------------------------
(* The listing.                                                            *)

(* A row that a leg can be, and that agrees with the leg there is.         *)
RowFits(v, id, row) ==
    /\ row \in Row  /\ row.state # "FREE"  /\ LegFits(row)
    /\ v.legs[id].state # "FREE" => v.legs[id].dir = row.dir

Read(old, new, row) ==
    /\ new.state # "FREE"  /\ new.dir = row.dir
    /\ IF old.state = "FREE" THEN new.state = row.state /\ new.call = row.call
       ELSE /\ new.call = old.call
            /\ new.state = IF old.state = "RELEASING" THEN "RELEASING" ELSE row.state

(* A listing tells a dial nothing, and the others of incoming legs.        *)
MtLeg(v, r) == Has(v, r) /\ v.legs[r.id].dir = "MT"

TxnsRead(v, w) ==
    \A s \in Slot : LET a == v.txns[s]  b == w.txns[s] IN
        /\ b.kind = a.kind  /\ b.token = a.token  /\ (a.kind = "DIAL" => b = a)
        /\ b.leg = a.leg \/ MtLeg(w, b.leg)

Reads(v, w, rows, S) ==
    /\ w.gen = v.gen  /\ w.token = v.token  /\ w.releases = v.releases
    /\ \A id \in Id : IF id \in S THEN Read(v.legs[id], w.legs[id], rows[id])
                      ELSE w.legs[id] = v.legs[id]
    /\ TxnsRead(v, w)

LEMMA TakeLegReads ==
    ASSUME NEW v, Fit(v), NEW id \in Id, NEW row, RowFits(v, id, row),
           NEW w, w = TakeLeg(v, id, Updated(v, v.legs[id], row))
    PROVE  /\ w \in Model  /\ MtFits(w)  /\ w.gen = v.gen  /\ w.token = v.token
           /\ w.releases = v.releases  /\ w.txns = v.txns
           /\ \A o \in Id \ {id} : w.legs[o] = v.legs[o]
           /\ Read(v.legs[id], w.legs[id], row)
<1> DEFINE old == v.legs[id]
           leg == Updated(v, old, row)
<1>0. v \in Model BY FitModel
<1>1. leg \in Leg BY <1>0, UpdatedType DEF RowFits
<1>2. w \in Model /\ w.legs = [v.legs EXCEPT ![id] = leg] /\ w.gen = v.gen
  <2> HIDE DEF leg
  <2> QED BY <1>0, <1>1, TakeLegType DEF leg
<1>3. w.token = v.token /\ w.releases = v.releases /\ w.txns = v.txns /\ w.mt = v.mt
  <2> HIDE DEF leg
  <2>1. w = TakeLeg(v, id, leg) BY DEF leg
  <2> QED BY <1>0, <2>1 DEF TakeLeg, Model
<1>4. w.legs[id] = leg /\ \A o \in Id \ {id} : w.legs[o] = v.legs[o]
  <2> HIDE DEF leg
  <2> QED BY <1>0, <1>2 DEF Model
<1>5. Read(old, leg, row)
  <2>1. old \in Leg /\ NoLeg \in Leg BY <1>0, Constants DEF Model
  <2>2. CASE old.state = "FREE"
    <3>1. leg = [NoLeg EXCEPT !.slot = FreeLegSlot(v), !.state = row.state,
                              !.dir = row.dir, !.call = row.call]
      BY <2>2 DEF Updated
    <3> QED BY <2>2, <3>1 DEF Read, RowFits, NoLeg
  <2>3. CASE old.state = "RELEASING"
    <3>1. leg = [old EXCEPT !.dir = row.dir] BY <2>3 DEF Updated
    <3> QED BY <2>1, <2>3, <3>1 DEF Read, Leg
  <2>4. CASE old.state \notin {"FREE", "RELEASING"}
    <3>1. leg = [old EXCEPT !.state = row.state, !.dir = row.dir, !.leaving = FALSE]
      BY <2>4 DEF Updated
    <3> QED BY <2>1, <2>4, <3>1 DEF Read, Leg, RowFits
  <2> QED BY <2>2, <2>3, <2>4
<1>6. MtFits(w)
  <2> HIDE DEF leg
  <2> SUFFICES ASSUME v.mt.leg # NoRef
               PROVE  Has(w, v.mt.leg) /\ w.legs[v.mt.leg.id].dir = "MT"
    BY <1>3 DEF MtFits
  <2> DEFINE r == v.mt.leg
  <2>1. Has(v, r) /\ v.legs[r.id].dir = "MT" BY DEF Fit, MtFits
  <2> HIDE DEF r
  <2>2. r.id \in Id BY <2>1 DEF Has, InUse
  <2>3. CASE r.id = id BY <2>1, <2>2, <2>3, <1>2, <1>4, <1>5 DEF Has, InUse, Read, RowFits, r
  <2>4. CASE r.id # id BY <2>1, <2>2, <2>4, <1>2, <1>4 DEF Has, InUse, r
  <2> QED BY <2>3, <2>4
<1> HIDE DEF leg
<1> QED BY <1>2, <1>3, <1>4, <1>5, <1>6

LEMMA BindEpisodeReads ==
    ASSUME NEW v \in Model, MtFits(v), NEW id \in InUse(v), LegFits(v.legs[id]),
           NEW w, w = BindEpisode(v, id)
    PROVE  /\ w \in Model  /\ MtFits(w)  /\ w.gen = v.gen  /\ w.token = v.token
           /\ w.releases = v.releases  /\ w.legs = v.legs  /\ TxnsRead(v, w)
<1> DEFINE r == Ref(v, id)
           sets(S) == [s \in Slot |-> IF s \in S THEN [v.txns[s] EXCEPT !.leg = r] ELSE v.txns[s]]
           mts(S) == [v.mt EXCEPT !.leg = IF S # {} /\ v.legs[id].state = "ACTIVE" THEN r ELSE @]
           leg == v.legs[id]
           up(t) == leg.state = "ACTIVE" /\ leg.dir # "MO" /\ r \notin t.baseline
           matches(s) == LET t == v.txns[s] IN
               /\ t.kind # "NONE" /\ t.leg = NoRef
               /\ t.episode # 0 /\ t.episode = v.mt.gen
               /\ \/ t.tomb /\ t.kind \in {"ANSWER", "WAIT_ANSWER"} /\ up(t)
                  \/ /\ ~t.tomb /\ IsOpen(t)
                     /\ CASE t.kind = "ANSWER"      -> leg.state = "INCOMING" \/ up(t)
                          [] t.kind = "WAIT_ANSWER" -> leg.state = "WAITING" \/ up(t)
                          [] t.kind = "WAIT_REJECT" -> leg.state = "WAITING"
                          [] t.kind = "HANGUP"      -> \/ Ringing(v, id)
                                                       \/ leg.state = "ACTIVE" /\ leg.dir # "MO"
                          [] OTHER -> FALSE
           mine == {s \in Slot : matches(s)}
<1>0. w \in Model /\ w.legs = v.legs /\ w.gen = v.gen BY BindEpisodeKeeps DEF Keeps, InUse
<1>1. CASE ~v.mt.active
  <2>1. w = v BY <1>1 DEF BindEpisode
  <2> QED BY <2>1 DEF TxnsRead
<1>2. CASE v.mt.active
  <2>1. w = [v EXCEPT !.txns = sets(mine), !.mt = mts(mine)] BY <1>2 DEF BindEpisode
  <2>2. \A s \in mine : leg.dir = "MT" /\ v.txns[s].kind # "DIAL" BY DEF LegFits, Ringing
  <2>3. Has(v, r) /\ r.id = id BY HasRef
  <2> HIDE DEF mine, r
  <2> DEFINE ts == sets(mine)
             mt == mts(mine)
  <2>4. \A s \in Slot : LET a == v.txns[s] IN
           /\ ts[s].kind = a.kind  /\ ts[s].token = a.token
           /\ IF s \in mine THEN ts[s].leg = r ELSE ts[s] = a
    <3>1. \A s \in Slot : v.txns[s] \in Txn BY SlotTxn
    <3> QED BY <3>1 DEF Txn
  <2>5. mt.leg = v.mt.leg \/ (mt.leg = r /\ mine # {})
    <3>1. v.mt \in MtType BY MtOf
    <3> QED BY <3>1 DEF MtType
  <2> HIDE DEF ts, mt
  <2>6. w.txns = ts /\ w.mt = mt /\ w.token = v.token /\ w.releases = v.releases
    <3>1. w = [v EXCEPT !.txns = ts, !.mt = mt] BY <2>1 DEF ts, mt
    <3> QED BY <3>1 DEF Model
  <2>7. Has(w, r) /\ \A x : Has(v, x) => Has(w, x) BY <1>0, <2>3 DEF Has, InUse
  <2>8. MtFits(w) BY <1>0, <2>2, <2>3, <2>5, <2>6, <2>7 DEF MtFits
  <2>9. TxnsRead(v, w)
    <3> SUFFICES ASSUME NEW s \in Slot
                 PROVE  LET a == v.txns[s]  b == w.txns[s] IN
                        /\ b.kind = a.kind  /\ b.token = a.token  /\ (a.kind = "DIAL" => b = a)
                        /\ b.leg = a.leg \/ MtLeg(w, b.leg)
      BY DEF TxnsRead
    <3>1. CASE s \in mine BY <3>1, <1>0, <2>2, <2>3, <2>4, <2>6, <2>7 DEF MtLeg
    <3>2. CASE s \notin mine BY <3>2, <2>4, <2>6
    <3> QED BY <3>1, <3>2
  <2> QED BY <1>0, <2>6, <2>8, <2>9
<1> QED BY <1>1, <1>2

(* The direction of a leg that rings, or rang, is known already.           *)
LEMMA TrackMtReads ==
    ASSUME NEW v \in Model, MtFits(v), NEW id \in InUse(v), LegFits(v.legs[id]),
           NEW w, w = TrackMt(v, id)
    PROVE  /\ w \in Model  /\ MtFits(w)  /\ w.gen = v.gen  /\ w.token = v.token
           /\ w.releases = v.releases  /\ w.legs = v.legs  /\ w.txns = v.txns
<1>0. w \in Model BY TrackMtKeeps DEF InUse
<1>1. CASE w = v BY <1>1
<1>2. CASE v.mt.active /\ Ringing(v, id)
  <2>1. w = [v EXCEPT !.mt.leg = Ref(v, id), !.legs[id].dir = "MT"] BY <1>2 DEF TrackMt, Ringing
  <2>2. v.legs[id].dir = "MT" BY <1>2 DEF Ringing, LegFits
  <2>3. [v.legs EXCEPT ![id].dir = "MT"] = v.legs BY <2>2 DEF Model, Leg
  <2>4. /\ w.mt = [v.mt EXCEPT !.leg = Ref(v, id)]  /\ w.legs = v.legs  /\ w.gen = v.gen
        /\ w.token = v.token  /\ w.releases = v.releases  /\ w.txns = v.txns
    BY <2>1, <2>3 DEF Model
  <2>5. w.mt.leg = Ref(v, id) BY <2>4, MtOf DEF MtType
  <2>6. Has(w, Ref(v, id)) /\ Ref(v, id).id = id BY <2>4, HasRef DEF Has, InUse
  <2> QED BY <1>0, <2>2, <2>4, <2>5, <2>6 DEF MtFits
<1>3. CASE v.mt.active /\ v.legs[id].state = "ACTIVE" /\ v.mt.leg = Ref(v, id) /\ ~Ringing(v, id)
  <2>1. w = [v EXCEPT !.mt = NoMt, !.legs[id].dir = "MT"] BY <1>3 DEF TrackMt, Ringing
  <2>2. v.legs[id].dir = "MT" BY <1>3, HasRef, NoRefHarmless DEF MtFits
  <2>3. [v.legs EXCEPT ![id].dir = "MT"] = v.legs BY <2>2 DEF Model, Leg
  <2>4. /\ w.mt = NoMt  /\ w.legs = v.legs  /\ w.gen = v.gen
        /\ w.token = v.token  /\ w.releases = v.releases  /\ w.txns = v.txns
    BY <2>1, <2>3 DEF Model
  <2> QED BY <1>0, <2>4, NoMtFits DEF MtFits
<1> QED BY <1>1, <1>2, <1>3 DEF TrackMt

LEMMA MergeRowReads ==
    ASSUME NEW v, Fit(v), NEW id \in Id, NEW row, RowFits(v, id, row),
           NEW w, w = MergeRow(v, id, row)
    PROVE  /\ Fit(w)  /\ w.gen = v.gen  /\ w.token = v.token  /\ w.releases = v.releases
           /\ \A o \in Id \ {id} : w.legs[o] = v.legs[o]
           /\ Read(v.legs[id], w.legs[id], row)  /\ TxnsRead(v, w)
<1> DEFINE a == TakeLeg(v, id, Updated(v, v.legs[id], row))
           b == BindEpisode(a, id)
<1>1. w = TrackMt(b, id) BY DEF MergeRow
<1>2. /\ a \in Model  /\ MtFits(a)  /\ a.gen = v.gen  /\ a.token = v.token
      /\ a.releases = v.releases  /\ a.txns = v.txns
      /\ \A o \in Id \ {id} : a.legs[o] = v.legs[o]
      /\ Read(v.legs[id], a.legs[id], row)
  BY TakeLegReads
<1> HIDE DEF a
<1>3. id \in InUse(a) /\ LegFits(a.legs[id]) BY <1>2 DEF Read, RowFits, LegFits, InUse
<1>4. /\ b \in Model  /\ MtFits(b)  /\ b.gen = a.gen  /\ b.token = a.token
      /\ b.releases = a.releases  /\ b.legs = a.legs  /\ TxnsRead(a, b)
  BY <1>2, <1>3, BindEpisodeReads
<1> HIDE DEF b
<1>5. id \in InUse(b) BY <1>3, <1>4 DEF InUse
<1>6. /\ w \in Model  /\ MtFits(w)  /\ w.gen = b.gen  /\ w.token = b.token
      /\ w.releases = b.releases  /\ w.legs = b.legs  /\ w.txns = b.txns
  BY <1>1, <1>3, <1>4, <1>5, TrackMtReads
<1>7. TxnsRead(v, w)
  <2>1. \A r : MtLeg(b, r) => MtLeg(w, r) BY <1>6 DEF MtLeg, Has, InUse
  <2> QED BY <1>2, <1>4, <1>6, <2>1 DEF TxnsRead
<1>8. \A o \in Id : w.gen[o] # 0 /\ (w.legs[o].state # "FREE" => LegFits(w.legs[o]))
  BY <1>2, <1>3, <1>4, <1>6 DEF Fit
<1>9. \A s \in Slot : w.txns[s].kind = "DIAL" => FitDial(w.txns[s])
  BY <1>7 DEF TxnsRead, Fit
<1>10. Fit(w) BY <1>6, <1>8, <1>9 DEF Fit
<1> QED BY <1>2, <1>4, <1>6, <1>7, <1>10

LEMMA MergedReads ==
    ASSUME NEW v, Fit(v), NEW rows, \A id \in Rows(rows) : RowFits(v, id, rows[id])
    PROVE  LET w == Merged(v, rows, Rows(rows)) IN Fit(w) /\ Reads(v, w, rows, Rows(rows))
<1> DEFINE S == Rows(rows)
           c == [pass |-> "merge", rows |-> rows]
           Q == {q \in Model \X SUBSET S : Fit(q[1]) /\ Reads(v, q[1], rows, q[2])}
<1>1. S \in SUBSET Id BY DEF Rows
<1>2. IsFiniteSet(S) BY <1>1, CallModelAssumption, FS_Subset
<1>3. PICK f : IsFold(c, v, S, f) /\ Merged(v, rows, S) = f[S] BY <1>2, MergeFold
<1>4. c.pass = "merge" /\ c.rows = rows OBVIOUS
<1> HIDE DEF c
<1>5. Picks(c, S) BY <1>4, PickAny DEF Ascending
<1>6. <<v, {}>> \in Q BY FitModel DEF Reads, TxnsRead
<1>7. ASSUME NEW s \in SUBSET S, NEW id \in s, NEW u, <<u, s \ {id}>> \in Q
      PROVE  <<Do(c, id, u), s>> \in Q
  <2> DEFINE w == MergeRow(u, id, rows[id])
  <2>1. Fit(u) /\ Reads(v, u, rows, s \ {id}) BY <1>7
  <2>2. id \in Id /\ RowFits(v, id, rows[id]) BY <1>1
  <2>3. Do(c, id, u) = w BY <1>4 DEF Do
  <2>4. u.legs[id] = v.legs[id] BY <2>1, <2>2 DEF Reads
  <2>5. RowFits(u, id, rows[id]) BY <2>2, <2>4 DEF RowFits
  <2>6. /\ Fit(w)  /\ w.gen = u.gen  /\ w.token = u.token  /\ w.releases = u.releases
        /\ \A o \in Id \ {id} : w.legs[o] = u.legs[o]
        /\ Read(u.legs[id], w.legs[id], rows[id])  /\ TxnsRead(u, w)
    BY <2>1, <2>2, <2>5, MergeRowReads
  <2> HIDE DEF w
  <2>7. \A r : MtLeg(u, r) => MtLeg(w, r)
    <3> SUFFICES ASSUME NEW r, MtLeg(u, r)  PROVE MtLeg(w, r)  OBVIOUS
    <3>1. r.id \in Id BY DEF MtLeg, Has, InUse
    <3>2. CASE r.id = id BY <3>2, <2>5, <2>6 DEF MtLeg, Has, InUse, Read, RowFits
    <3>3. CASE r.id # id BY <3>1, <3>3, <2>6 DEF MtLeg, Has, InUse
    <3> QED BY <3>2, <3>3
  <2>8. TxnsRead(v, w) BY <2>1, <2>6, <2>7 DEF Reads, TxnsRead
  <2>9. Reads(v, w, rows, s) BY <2>1, <2>4, <2>6, <2>8 DEF Reads
  <2>10. w \in Model /\ s \in SUBSET S BY <2>6, FitModel
  <2> QED BY <2>3, <2>6, <2>9, <2>10
<1>8. <<f[S], S>> \in Q
  <2> HIDE DEF Q, S
  <2> QED BY <1>2, <1>3, <1>5, <1>6, <1>7, FoldInduction
<1> QED BY <1>3, <1>8

LEMMA EvictsAllGo ==
    ASSUME NEW v, Fit(v), NEW S \in SUBSET Id
    PROVE  Well(v, EvictAll(v, S), {}, {}) /\ EvictAll(v, S).txns = v.txns
<1> DEFINE c == [pass |-> "evict"]
           Q == {q \in Model \X SUBSET S : Well(v, q[1], {}, {}) /\ q[1].txns = v.txns}
<1>2. IsFiniteSet(S) BY CallModelAssumption, FS_Subset
<1>3. PICK f : IsFold(c, v, S, f) /\ EvictAll(v, S) = f[S] BY <1>2, EvictFold
<1>4. c.pass = "evict" OBVIOUS
<1> HIDE DEF c
<1>5. Picks(c, S) BY <1>4, PickAny DEF Ascending
<1>6. <<v, {}>> \in Q BY FitModel, WellNowhere
<1>7. ASSUME NEW s \in SUBSET S, NEW id \in s, NEW u, <<u, s \ {id}>> \in Q
      PROVE  <<Do(c, id, u), s>> \in Q
  <2> DEFINE w == Evict(u, id)
  <2>1. Well(v, u, {}, {}) /\ u.txns = v.txns /\ u \in Model BY <1>7
  <2>2. id \in Id /\ s \in SUBSET S OBVIOUS
  <2>3. Do(c, id, u) = w BY <1>4 DEF Do
  <2>4. Well(u, w, {}, {}) BY <2>1, <2>2, EvictGoes DEF Well
  <2>5. w.txns = u.txns BY <2>1 DEF Evict, Model
  <2> HIDE DEF w
  <2>6. Well(v, w, {}, {}) /\ w \in Model BY <2>1, <2>4, WellOn, FitModel DEF Well
  <2> QED BY <2>1, <2>2, <2>3, <2>5, <2>6
<1>8. <<f[S], S>> \in Q
  <2> HIDE DEF Q
  <2> QED BY <1>2, <1>3, <1>5, <1>6, <1>7, FoldInduction
<1> QED BY <1>3, <1>8

LEMMA RemoveAbsentGoes ==
    ASSUME NEW v, Fit(v), NEW before, NEW gone \in SUBSET InUse(v)
    PROVE  LET w == RemoveAbsent(v, before, gone) IN Well(v, w, {}, {}) /\ w.txns = v.txns
<1> DEFINE refs == {Ref(v, id) : id \in gone}
           u == [v EXCEPT !.absent = {}, !.revised = FALSE]
           L == [id \in Id |-> IF id \in gone THEN [v.legs[id] EXCEPT !.leaving = TRUE] ELSE v.legs[id]]
           x == [v EXCEPT !.legs = L, !.absent = refs, !.revised = FALSE]
           w == RemoveAbsent(v, before, gone)
<1>0. v \in Model /\ gone \in SUBSET Id BY FitModel DEF InUse
<1>1. /\ u \in Model  /\ u.legs = v.legs  /\ u.gen = v.gen  /\ u.txns = v.txns
      /\ u.token = v.token  /\ u.releases = v.releases  /\ u.mt = v.mt
  BY <1>0 DEF Model
<1> HIDE DEF u
<1>2. Well(v, u, {}, {})
  <2>1. MtFits(u) BY <1>1 DEF Fit, MtFits, Has, InUse
  <2> QED BY <1>1, <2>1, SameTable
<1>3. L \in [Id -> Leg] /\ \A id \in Id : /\ L[id].state = v.legs[id].state
                                          /\ L[id].dir = v.legs[id].dir
                                          /\ L[id].call = v.legs[id].call
  <2>1. v.legs \in [Id -> Leg] BY <1>0 DEF Model
  <2> QED BY <2>1 DEF Leg
<1>4. refs \in SUBSET Refs BY <1>0, References
<1> HIDE DEF L, refs
<1>5. /\ x \in Model  /\ x.legs = L  /\ x.gen = v.gen  /\ x.txns = v.txns
      /\ x.token = v.token  /\ x.releases = v.releases  /\ x.mt = v.mt
  BY <1>0, <1>3, <1>4 DEF Model
<1> HIDE DEF x
<1>6. Well(v, x, {}, {})
  <2>1. MtFits(x) BY <1>3, <1>5 DEF Fit, MtFits, Has, InUse
  <2> QED BY <1>3, <1>5, <2>1, SameTable
<1>7. w \in {u, EvictAll(u, gone), x} BY DEF RemoveAbsent, u, L, refs, x
<1> HIDE DEF w
<1>8. CASE w = EvictAll(u, gone)
  <2>1. Well(u, w, {}, {}) /\ w.txns = u.txns BY <1>0, <1>2, <1>8, EvictsAllGo DEF Well
  <2> QED BY <1>1, <1>2, <2>1, WellOn DEF w
<1> QED BY <1>1, <1>2, <1>5, <1>6, <1>7, <1>8 DEF w

(* A listing: its rows are read, e is the table then, and what it lacks is *)
(* removed or armed.                                                       *)
LEMMA CommitReads ==
    ASSUME NEW v, Fit(v), NEW rows, \A id \in Rows(rows) : RowFits(v, id, rows[id])
    PROVE  \E e : /\ Fit(e)  /\ Reads(v, e, rows, Rows(rows))
                  /\ Well(e, Commit(v, rows), {}, {})  /\ Commit(v, rows).txns = e.txns
<1> DEFINE a == [v EXCEPT !.shadow = "closed"]
           e == Merged(a, rows, Rows(rows))
           c == MissMt(e)
           gone == InUse(c) \ Rows(rows)
           w == RemoveAbsent(c, v.revised, gone)
<1>0. v \in Model BY FitModel
<1>1. Well(v, a, {}, {}) BY ShadowGoes
<1>2. /\ a.legs = v.legs  /\ a.gen = v.gen  /\ a.txns = v.txns
      /\ a.token = v.token  /\ a.releases = v.releases
  BY <1>0 DEF Model
<1>3. Commit(v, rows) = w BY DEF Commit, NotListed, Merged
<1> HIDE DEF a
<1>4. \A id \in Rows(rows) : RowFits(a, id, rows[id]) BY <1>2 DEF RowFits
<1>5. Fit(e) /\ Reads(a, e, rows, Rows(rows)) BY <1>1, <1>4, MergedReads DEF Well
<1> HIDE DEF e
<1>6. Reads(v, e, rows, Rows(rows)) BY <1>2, <1>5 DEF Reads, TxnsRead
<1>7. Well(e, c, {}, {}) BY <1>5, MissMtGoes
<1>8. c.txns = e.txns BY <1>5, FitModel DEF MissMt, Model
<1> HIDE DEF c
<1>9. Well(c, w, {}, {}) /\ w.txns = c.txns BY <1>7, RemoveAbsentGoes DEF Well
<1> HIDE DEF w
<1>10. Well(e, w, {}, {}) BY <1>5, <1>7, <1>9, WellOn
<1> QED BY <1>3, <1>5, <1>6, <1>8, <1>9, <1>10

(* What a listing says of the rows, and of the legs there are already.     *)
Truly(rows) == \A id \in Rows(rows) : rows[id] = net[id]

LEMMA RowsFit ==
    ASSUME DInv, NEW rows, Truly(rows)
    PROVE  \A id \in Rows(rows) : id \in Busy(net) /\ RowFits(m, id, rows[id])
<1> SUFFICES ASSUME NEW id \in Rows(rows)  PROVE id \in Busy(net) /\ RowFits(m, id, rows[id])
  OBVIOUS
<1>1. id \in Id /\ rows[id] = net[id] /\ net[id].state # "FREE" BY DEF Truly, Rows
<1>2. id \in Busy(net) BY <1>1 DEF Busy
<1>3. net[id] \in Row BY <1>1 DEF DInv, IInv, NeverResurrected, TypeOK
<1>4. net[id].dir = Side(net[id].call) /\ LegFits(net[id])
  BY <1>2 DEF DInv, NetFit, LegFits, Side
<1>5. m.legs[id].state # "FREE" => m.legs[id].dir = net[id].dir
  BY <1>1, <1>2, <1>4 DEF DInv, IInv, Calls, Table, Sided, InUse
<1> QED BY <1>1, <1>2, <1>3, <1>4, <1>5 DEF RowFits

(* The table e, in which the rows are read.                                *)
LEMMA ReadLegs ==
    ASSUME DInv, NEW rows, Truly(rows), NEW e, Fit(e), Reads(m, e, rows, Rows(rows))
    PROVE  /\ \A id \in InUse(m) : /\ id \in InUse(e)  /\ e.legs[id].dir = m.legs[id].dir
                                   /\ e.legs[id].call = m.legs[id].call
                                   /\ m.legs[id].state = "RELEASING" => e.legs[id].state = "RELEASING"
           /\ \A id \in InUse(e) \ InUse(m) : id \in Busy(net) /\ e.legs[id].call = net[id].call
           /\ \A id \in InUse(e) : e.legs[id].dir = Side(e.legs[id].call)
           /\ \A id : Ref(e, id) = Ref(m, id)
           /\ \A r : Known(m, r) => Known(e, r) /\ (Has(e, r) => Has(m, r))
<1>0. /\ e.gen = m.gen  /\ e \in Model  /\ m \in Model
      /\ \A id \in Id : IF id \in Rows(rows) THEN Read(m.legs[id], e.legs[id], rows[id])
                        ELSE e.legs[id] = m.legs[id]
  BY FitModel DEF Reads, DInv, Table
<1>1. \A id \in Rows(rows) : id \in Busy(net) /\ RowFits(m, id, rows[id]) /\ rows[id] = net[id]
  BY RowsFit DEF Truly
<1>2. ASSUME NEW id \in InUse(m)
      PROVE  /\ id \in InUse(e)  /\ e.legs[id].dir = m.legs[id].dir
             /\ e.legs[id].call = m.legs[id].call
             /\ m.legs[id].state = "RELEASING" => e.legs[id].state = "RELEASING"
  BY <1>0, <1>1 DEF InUse, Read, RowFits
<1>3. ASSUME NEW id \in InUse(e) \ InUse(m)
      PROVE  id \in Busy(net) /\ e.legs[id].call = net[id].call /\ e.legs[id].dir = net[id].dir
  BY <1>0, <1>1 DEF InUse, Read
<1>4. ASSUME NEW id \in InUse(e)  PROVE e.legs[id].dir = Side(e.legs[id].call)
  <2>1. CASE id \in InUse(m) BY <1>2, <2>1 DEF DInv, Table, Sided
  <2>2. CASE id \notin InUse(m) BY <1>3, <2>2 DEF DInv, NetFit
  <2> QED BY <2>1, <2>2
<1>5. \A id : Ref(e, id) = Ref(m, id) BY <1>0 DEF Ref
<1>6. ASSUME NEW r, Known(m, r)  PROVE Known(e, r) /\ (Has(e, r) => Has(m, r))
  <2>1. Has(m, r) => Has(e, r) BY <1>0, <1>2 DEF Has
  <2>2. ASSUME Has(e, r), ~Has(m, r)  PROVE FALSE
    <3>1. r.id \in Id /\ m.gen[r.id] = r.gen BY <1>0, <2>2 DEF Has, InUse
    <3>2. r.gen < m.gen[r.id] /\ m.gen[r.id] \in Nat BY <1>0, <1>6, <2>2, <3>1 DEF Known, Model
    <3> QED BY <3>1, <3>2
  <2> QED BY <1>0, <1>6, <2>1, <2>2 DEF Known
<1> QED BY <1>2, <1>3, <1>4, <1>5, <1>6

LEMMA ReadTxns ==
    ASSUME NEW v, NEW e, TxnsRead(v, e)
    PROVE  /\ Dials(e) = Dials(v)  /\ OpenDials(e) = OpenDials(v)
           /\ \A s \in Slot : /\ e.txns[s].kind = v.txns[s].kind
                              /\ e.txns[s].token = v.txns[s].token
                              /\ v.txns[s].kind = "DIAL" => e.txns[s] = v.txns[s]
           /\ \A tok : SlotOf(e, tok) = SlotOf(v, tok)
BY DEF TxnsRead, Dials, OpenDials, SlotOf

LEMMA ReadKnows ==
    ASSUME DInv, NEW rows, Truly(rows), NEW e, Fit(e), Reads(m, e, rows, Rows(rows))
    PROVE  Knows(e, calls, Sent, queue, lost) /\ Tidy(e)
<1>0. /\ IInv  /\ Tidy(m)  /\ Orphans  /\ Knows(m, calls, Sent, queue, lost)
      /\ e.token = m.token  /\ e.releases = m.releases  /\ TxnsRead(m, e)
  BY DEF DInv, Table, Sane, Reads
<1>1. /\ Dials(e) = Dials(m)  /\ OpenDials(e) = OpenDials(m)
      /\ \A s \in Slot : /\ e.txns[s].kind = m.txns[s].kind  /\ e.txns[s].token = m.txns[s].token
                         /\ m.txns[s].kind = "DIAL" => e.txns[s] = m.txns[s]
      /\ \A tok : SlotOf(e, tok) = SlotOf(m, tok)
  BY <1>0, ReadTxns
<1>2. \A id \in InUse(m) : /\ id \in InUse(e)  /\ e.legs[id].dir = m.legs[id].dir
                           /\ e.legs[id].call = m.legs[id].call
                           /\ m.legs[id].state = "RELEASING" => e.legs[id].state = "RELEASING"
  BY ReadLegs
<1>3. \A id \in InUse(e) \ InUse(m) : id \in Busy(net) /\ e.legs[id].call = net[id].call
  BY ReadLegs
<1>4. \A id : Ref(e, id) = Ref(m, id) BY ReadLegs
<1>5. \A r : Known(m, r) => Known(e, r) /\ (Has(e, r) => Has(m, r)) BY ReadLegs
<1>6. \A s \in Dials(m) : s \in Slot /\ m.txns[s].kind = "DIAL" /\ e.txns[s] = m.txns[s]
  BY <1>1 DEF Dials
<1>7. \A o \in Slot : Orphan(e.txns[o]) => Orphan(m.txns[o]) /\ e.txns[o] = m.txns[o]
  BY <1>1 DEF Orphan
<1>8. Tokens(e) BY <1>0, <1>1 DEF Knows, Tokens
<1>9. SentOnes(e, Sent) BY <1>0, <1>1 DEF Knows, SentOnes, SlotOf
<1>10. Claimed(e)
  <2>1. ASSUME NEW r, Claimable(m, r)  PROVE Claimable(e, r)
    <3>1. ASSUME Has(e, r)  PROVE Has(m, r) /\ (Taken(m, r) => Taken(e, r))
      BY <1>2, <1>5, <2>1, <3>1 DEF Claimable, Has, Taken
    <3> QED BY <1>1, <1>5, <1>6, <2>1, <3>1 DEF Claimable
  <2>2. ASSUME NEW r, MtLeg(e, r)  PROVE Claimable(e, r)
    BY <2>2 DEF MtLeg, Claimable, Known, Taken
  <2>3. ASSUME NEW s \in Slot, e.txns[s].kind \notin {"NONE", "DIAL"}
        PROVE  Claimable(e, e.txns[s].leg)
    <3>1. m.txns[s].leg \in Claims(m) BY <1>1, <2>3 DEF Claims
    <3>2. e.txns[s].leg = m.txns[s].leg \/ MtLeg(e, e.txns[s].leg) BY <1>0 DEF TxnsRead
    <3> QED BY <1>0, <2>1, <2>2, <3>1, <3>2 DEF Knows, Claimed
  <2>4. ASSUME NEW n \in DOMAIN e.releases  PROVE Claimable(e, e.releases[n].leg)
    <3>1. m.releases[n].leg \in Claims(m) BY <1>0, <2>4 DEF Claims
    <3> QED BY <1>0, <2>1, <3>1 DEF Knows, Claimed
  <2> QED BY <2>3, <2>4 DEF Claimed, Claims
<1>11. Bases(e, calls)
  <2> SUFFICES ASSUME NEW s \in Dials(m)
               PROVE  /\ \A r \in m.txns[s].baseline : Known(e, r)
                      /\ \A id \in InUse(e) : Ref(m, id) \in m.txns[s].baseline
                                                => calls[e.legs[id].call] # m.txns[s].token
    BY <1>1, <1>4, <1>6 DEF Bases
  <2>1. \A r \in m.txns[s].baseline : Known(m, r) BY <1>0 DEF Knows, Bases
  <2>2. ASSUME NEW id \in InUse(e), Ref(m, id) \in m.txns[s].baseline
        PROVE  calls[e.legs[id].call] # m.txns[s].token
    <3>1. Has(e, Ref(m, id)) BY <1>4, HasRef
    <3>2. Has(m, Ref(m, id)) BY <1>5, <2>1, <2>2, <3>1
    <3>3. id \in InUse(m) BY <3>2 DEF Has, Ref
    <3> QED BY <1>0, <1>2, <2>2, <3>3 DEF Knows, Bases
  <2> QED BY <1>5, <2>1, <2>2
<1>12. Second(e) BY <1>0, <1>1, <1>7 DEF Knows, Second
<1>13. Strays(e, calls, lost)
  <2> SUFFICES ASSUME NEW s \in Dials(m), NEW o \in Slot, NEW id \in InUse(e), Orphan(m.txns[o]),
                      calls[e.legs[id].call] = m.txns[o].token
               PROVE  Ref(m, id) \in m.txns[s].baseline \/ e.legs[id].call \in lost
    BY <1>1, <1>4, <1>6, <1>7 DEF Strays
  <2>1. CASE id \in InUse(m) BY <1>0, <1>2, <2>1 DEF Knows, Strays
  <2>2. CASE id \notin InUse(m)
    <3>1. id \in Busy(net) /\ e.legs[id].call = net[id].call BY <1>3, <2>2
    <3>2. ~m.txns[o].second BY <1>0 DEF Knows, Second
    <3>3. Waited(m.txns[o].token) BY <1>0, <3>2 DEF Orphans
    <3>4. net[id].call \in Shows(m.legs) \cup lost BY <3>1, <3>3 DEF Waited, Going
    <3>5. net[id].call \notin Shows(m.legs)
      BY <1>0, <2>2, <3>1 DEF IInv, Calls, Shows, InUse
    <3> QED BY <3>1, <3>4, <3>5
  <2> QED BY <2>1, <2>2
<1>14. QueueFits(e, queue, Sent)
  <2>1. ASSUME NEW c, EntryFits(m, c, Sent)  PROVE EntryFits(e, c, Sent)
    BY <1>0, <1>1, <2>1 DEF EntryFits, SlotOf
  <2>2. QueueFits(m, queue, Sent) BY <1>0 DEF Knows
  <2> QED BY <2>1, <2>2 DEF QueueFits
<1>15. Tidy(e) BY <1>0, <1>1 DEF Tidy, Swept, Neat
<1> QED BY <1>8, <1>9, <1>10, <1>11, <1>12, <1>13, <1>14, <1>15 DEF Knows

(* One dial waits for its leg at a time.                                   *)
LEMMA OneDial ==
    ASSUME NEW v, Tokens(v), NEW b, b = BindDials(v)
    PROVE  \/ Dials(v) = {} /\ b = v
           \/ \E s \in Slot : Dials(v) = {s} /\ b = BindDial(v, s)
<1> DEFINE c == [pass |-> "dials"]
           S == Dials(v)
<1>1. PICK f : IsFold(c, v, S, f) /\ b = f[S] BY DialsFold
<1>2. S \in SUBSET Slot BY DEF Dials
<1>3. c.pass = "dials" /\ c.pass \in Ascending BY DEF Ascending
<1>4. \A s \in Slot : Do(c, s, v) = BindDial(v, s) BY <1>3 DEF Do
<1>5. Picks(c, S)
  <2> HIDE DEF c
  <2> QED BY <1>2, <1>3, PickInOrder
<1> HIDE DEF c
<1>6. \A s, o \in S : s = o BY DEF Tokens, OpenDials, Dials, IsOpen
<1> HIDE DEF S
<1>7. f[{}] = v BY <1>1 DEF IsFold, Step
<1>8. CASE S = {} BY <1>1, <1>7, <1>8 DEF S
<1>9. CASE S # {}
  <2>1. Pick(c, S) \in S BY <1>5, <1>9 DEF Picks
  <2>2. S = {Pick(c, S)} /\ S \ {Pick(c, S)} = {} BY <1>6, <2>1
  <2>3. f[S] = Do(c, Pick(c, S), v) BY <1>1, <1>7, <1>9, <2>2 DEF IsFold, Step
  <2> QED BY <1>1, <1>2, <1>4, <2>1, <2>2, <2>3 DEF S
<1> QED BY <1>8, <1>9

(* Of the legs a dial may take there is one: it takes it.                  *)
Fresher(v, s, id) == /\ id \in InUse(v)  /\ Places(v, id)
                     /\ Ref(v, id) \notin v.txns[s].baseline  /\ ~Owned(v, Ref(v, id))

LEMMA OnlyLeg ==
    ASSUME NEW v, Fit(v), Claimed(v), NEW s \in Dials(v),
           \A i, j : Fresher(v, s, i) /\ Fresher(v, s, j) => i = j
    PROVE  /\ NoneFree(BindDial(v, s), {s})
           /\ LET b == BindDial(v, s) IN
              b.txns[s].kind = "DIAL" /\ b.txns[s].baseline = v.txns[s].baseline
<1> DEFINE some == {id \in InUse(v) : /\ Ref(v, id) \notin v.txns[s].baseline
                                      /\ ~OwnedByOther(v, s, Ref(v, id))
                                      /\ Places(v, id)}
           x == CHOOSE id \in some : TRUE
           b == BindDial(v, s)
<1>0. /\ v \in Model  /\ s \in Slot  /\ v.txns[s] \in Txn  /\ v.txns[s].kind = "DIAL"
      /\ v.txns[s].leg = NoRef
  BY FitModel, SlotTxn DEF Dials
<1>1. Well(v, b, {}, {}) /\ \A o \in Slot \ {s} : b.txns[o] = v.txns[o] BY BindDialGoes
<1>2. IF Cardinality(some) = 1 THEN b = [v EXCEPT !.txns[s].leg = Ref(v, x)] ELSE b = v
  BY DEF BindDial
<1>3. \A id : Fresher(v, s, id) => id \in some
  <2> SUFFICES ASSUME NEW id, Fresher(v, s, id), OwnedByOther(v, s, Ref(v, id))  PROVE FALSE
    BY DEF Fresher
  <2>1. PICK o \in Slot \ {s} : v.txns[o].kind # "NONE" /\ v.txns[o].leg = Ref(v, id)
    BY DEF OwnedByOther
  <2>2. v.txns[o].kind # "DIAL" BY <2>1 DEF Fresher, Owned
  <2>3. Ref(v, id) \in Claims(v) BY <2>1, <2>2 DEF Claims
  <2>4. Has(v, Ref(v, id)) /\ Ref(v, id).id = id BY HasRef DEF Fresher
  <2> QED BY <2>3, <2>4 DEF Claimed, Claimable, Fresher, Taken, Places
<1>4. \A id \in some : Fresher(v, s, id)
  <2> SUFFICES ASSUME NEW id \in some, Owned(v, Ref(v, id))  PROVE FALSE BY DEF Fresher
  <2>1. PICK o \in Slot : v.txns[o].kind = "DIAL" /\ v.txns[o].leg = Ref(v, id) BY DEF Owned
  <2>2. Ref(v, id) # NoRef BY CallModelAssumption DEF Ref, NoRef, InUse
  <2>3. o # s BY <1>0, <2>1, <2>2
  <2> QED BY <2>1, <2>3 DEF OwnedByOther
<1>5. /\ b.legs = v.legs  /\ b.gen = v.gen  /\ b.txns[s].token = v.txns[s].token
      /\ b.txns[s].kind = "DIAL"  /\ b.txns[s].baseline = v.txns[s].baseline
      /\ Cardinality(some) = 1 => b.txns[s].leg = Ref(v, x)
  <2>1. CASE Cardinality(some) # 1 BY <1>0, <1>2, <2>1
  <2>2. CASE Cardinality(some) = 1
    <3> DEFINE t == v.txns[s]
               r == Ref(v, x)
               n == [t EXCEPT !.leg = r]
    <3>1. b = [v EXCEPT !.txns[s].leg = r] BY <1>2, <2>2
    <3> HIDE DEF some, x, b, r
    <3>2. b = [v EXCEPT !.txns[s] = n] BY <1>0, <3>1 DEF Model
    <3>3. /\ n.leg = r  /\ n.token = t.token  /\ n.kind = t.kind  /\ n.baseline = t.baseline
      BY <1>0 DEF Txn
    <3> HIDE DEF n
    <3>4. b.legs = v.legs /\ b.gen = v.gen /\ b.txns[s] = n BY <1>0, <3>2 DEF Model
    <3> QED BY <1>0, <3>3, <3>4 DEF r
  <2> QED BY <2>1, <2>2
<1>7. ASSUME NEW id \in InUse(b), Places(b, id), Ref(b, id) \notin b.txns[s].baseline,
             ~Owned(b, Ref(b, id))
      PROVE  FALSE
  <2> HIDE DEF b
  <2>1. ~Owned(v, Ref(v, id))
    <3> SUFFICES ASSUME NEW o \in Slot, v.txns[o].kind = "DIAL", v.txns[o].leg = Ref(v, id)
                 PROVE  FALSE
      BY DEF Owned
    <3>1. Ref(v, id) # NoRef BY CallModelAssumption DEF Ref, NoRef, InUse
    <3>2. o # s BY <1>0, <3>1
    <3> QED BY <1>1, <1>5, <1>7, <3>2 DEF Owned, Ref
  <2>2. Fresher(v, s, id) BY <1>5, <1>7, <2>1 DEF Fresher, InUse, Places, Ref
  <2>3. id \in some BY <1>3, <2>2
  <2>4. \A o \in some : o = id BY <1>4, <2>2
  <2>5. some = {id} /\ x = id
    <3>1. x \in some BY <2>3
    <3> HIDE DEF some, x
    <3> QED BY <2>3, <2>4, <3>1
  <2>6. Cardinality(some) = 1 BY <2>5, FS_Singleton
  <2>7. b.txns[s].leg = Ref(v, id) BY <1>5, <2>5, <2>6
  <2> QED BY <1>0, <1>5, <1>7, <2>7 DEF Owned, Ref
<1> HIDE DEF b
<1>8. NoneFree(b, {s}) BY <1>7 DEF NoneFree
<1> QED BY <1>5, <1>8 DEF b

(* After a listing was read, the dial that waits may take one leg at most. *)
LEMMA ReadOne ==
    ASSUME DInv, NEW rows, Truly(rows), NEW e, Fit(e), Reads(m, e, rows, Rows(rows)),
           NEW c, Well(e, c, {}, {}), c.txns = e.txns, NEW s \in Dials(c),
           NEW i, Fresher(c, s, i)
    PROVE  i \in On(net, "ACTIVE") \cup On(net, "DIALING")
<1>0. e \in Model /\ c \in Model /\ Reads(m, e, rows, Rows(rows)) BY FitModel DEF Well
<1>1. Has(c, Ref(c, i)) /\ Ref(c, i).id = i BY HasRef DEF Fresher
<1>2. /\ Has(e, Ref(c, i))  /\ i \in Id  /\ Places(e, i)
  BY <1>0, <1>1, HadLeg DEF Well, Goes, Fresher
<1>3. i \in InUse(e) /\ Ref(e, i) = Ref(c, i) BY <1>1, <1>2 DEF Has, Ref
<1>4. Ref(e, i) = Ref(m, i) BY ReadLegs
<1>5. TxnsRead(m, e) BY DEF Reads
<1>6. s \in Dials(e) BY DEF Dials
<1>7. s \in Dials(m) /\ m.txns[s].baseline = c.txns[s].baseline
  BY <1>5, <1>6, ReadTxns DEF Dials
<1>8. i \in Rows(rows)
  <2> SUFFICES ASSUME i \notin Rows(rows)  PROVE FALSE  OBVIOUS
  <2>1. e.legs[i] = m.legs[i] BY <1>2 DEF Reads
  <2>2. i \in InUse(m) /\ Places(m, i) BY <1>2, <1>3, <2>1 DEF InUse, Places
  <2>3. Owned(m, Ref(m, i)) BY <1>3, <1>4, <1>7, <2>2 DEF DInv, Table, Sane, NoneFree, Fresher
  <2>4. Owned(c, Ref(m, i)) BY <1>5, <2>3, ReadTxns DEF Owned
  <2> QED BY <1>3, <1>4, <2>4 DEF Fresher
<1>9. Read(m.legs[i], e.legs[i], net[i]) BY <1>2, <1>8 DEF Reads, Truly
<1>10. e.legs[i].state \in {"DIALING", "ACTIVE"} BY <1>2 DEF Places
<1>11. net[i].state = e.legs[i].state BY <1>9, <1>10 DEF Read
<1> QED BY <1>2, <1>10, <1>11 DEF On

(* The table after a listing, once the dial that waits has looked for its  *)
(* leg.                                                                    *)
LEMMA ReadBinds ==
    ASSUME DInv, NEW rows, Truly(rows), NEW e, Fit(e), Reads(m, e, rows, Rows(rows)),
           NEW c, Well(e, c, {}, {}), c.txns = e.txns, NEW b, b = BindDials(c)
    PROVE  /\ Well(c, b, {}, {})  /\ Tidy(b)  /\ Sane(b, calls, Sent, queue, lost)
           /\ NoneFree(b, Dials(c))  /\ Knows(c, calls, Sent, queue, lost)
           /\ \A o \in Slot \ Dials(c) : b.txns[o] = c.txns[o]
           /\ \A o \in Dials(c) : /\ b.txns[o].kind = "DIAL"
                                  /\ b.txns[o].baseline = c.txns[o].baseline
<1>1. Knows(e, calls, Sent, queue, lost) /\ Tidy(e) BY ReadKnows
<1>2. Fit(c) /\ Knows(c, calls, Sent, queue, lost) /\ Tidy(c)
  BY <1>1, KnowsGoes, TidyStays DEF Well
<1>3. Well(c, b, {}, {}) BY <1>2, BindDialsGo
<1>4. Knows(b, calls, Sent, queue, lost) /\ Tidy(b) BY <1>2, <1>3, KnowsGoes, TidyStays
<1>5. \/ Dials(c) = {} /\ b = c
      \/ \E s \in Slot : Dials(c) = {s} /\ b = BindDial(c, s)
  BY <1>2, OneDial DEF Knows
<1>6. /\ NoneFree(b, Dials(c))
      /\ \A o \in Slot \ Dials(c) : b.txns[o] = c.txns[o]
      /\ \A o \in Dials(c) : b.txns[o].kind = "DIAL" /\ b.txns[o].baseline = c.txns[o].baseline
  <2>1. CASE Dials(c) = {} BY <1>5, <2>1 DEF NoneFree
  <2>2. CASE \E s \in Slot : Dials(c) = {s} /\ b = BindDial(c, s)
    <3>1. PICK s \in Slot : Dials(c) = {s} /\ b = BindDial(c, s) BY <2>2
    <3>2. s \in Dials(c) BY <3>1
    <3>3. \A i, j : Fresher(c, s, i) /\ Fresher(c, s, j) => i = j
      BY <3>2, ReadOne DEF DInv, NetFit
    <3>4. /\ NoneFree(b, {s})
          /\ b.txns[s].kind = "DIAL"  /\ b.txns[s].baseline = c.txns[s].baseline
      BY <1>2, <3>1, <3>2, <3>3, OnlyLeg DEF Knows
    <3>5. \A o \in Slot \ {s} : b.txns[o] = c.txns[o] BY <1>2, <3>1, <3>2, BindDialGoes
    <3> QED BY <3>1, <3>4, <3>5
  <2> QED BY <1>5, <2>1, <2>2
<1>7. Dials(b) \subseteq Dials(c) BY <1>3, DialsGo DEF Well
<1>8. NoneFree(b, Dials(b)) BY <1>6, <1>7 DEF NoneFree
<1> QED BY <1>2, <1>3, <1>4, <1>5, <1>6, <1>8 DEF Sane

(* The tables a listing goes through: e when the rows are read, c when     *)
(* what they lack is gone, b when the dial that waits has looked for its   *)
(* leg.                                                                    *)
Heard(rows, e, c, b) ==
    /\ Truly(rows)  /\ Fit(e)  /\ Reads(m, e, rows, Rows(rows))
    /\ Well(e, c, {}, {})  /\ c.txns = e.txns
    /\ b = BindDials(c)  /\ Well(c, b, {}, {})
    /\ Well(b, m', {}, Slot)  /\ Tidy(m')

LEMMA ListHeard ==
    ASSUME DInv, Lists
    PROVE  /\ \E rows, e, c, b : Heard(rows, e, c, b)
           /\ Placing(Silence)  /\ UNCHANGED queue
<1>1. PICK rows \in Rowed : /\ m.shadow = "open"  /\ Serve(ClccOk(m, rows))  /\ UNCHANGED queue
                            /\ Placing(Silence)  /\ Truly(rows)
  BY DEF Lists, Truly
<1>2. Fit(m) BY DEF DInv, Table
<1>3. \A id \in Rows(rows) : RowFits(m, id, rows[id]) BY <1>1, RowsFit
<1> DEFINE c == Commit(m, rows)
           b == BindDials(c)
           r == Reconcile(c, {})
           n == ForEach(r, ResolveNoLeg)
           w == ForEach(n, ResolveTombstone)
<1>4. PICK e : /\ Fit(e)  /\ Reads(m, e, rows, Rows(rows))
               /\ Well(e, c, {}, {})  /\ c.txns = e.txns
  BY <1>2, <1>3, CommitReads
<1>5. Serve(w) BY <1>1 DEF ClccOk
<1> HIDE DEF c
<1>6. Well(c, b, {}, {}) /\ Tidy(b) BY <1>1, <1>4, ReadBinds
<1>7. Well(b, r, {}, {}) BY <1>6, BoundReconciles DEF Tidy, Well
<1> HIDE DEF b, r
<1>8. Well(r, n, {}, Slot) BY <1>7, ResolveNoLegGoes DEF Well
<1> HIDE DEF n
<1>9. Well(n, w, {}, Slot) BY <1>8, ResolveTombstoneGoes DEF Well
<1> HIDE DEF w
<1>10. Well(w, m', {}, Slot) /\ Tidy(m') BY <1>5, <1>9, ServeGoes DEF Well
<1>11. Well(b, r, {}, Slot) /\ Fit(b) /\ Fit(r) BY <1>6, <1>7, WellMore DEF Well
<1>12. Well(b, n, {}, Slot) BY <1>8, <1>11, WellOn
<1>13. Well(b, w, {}, Slot) BY <1>9, <1>11, <1>12, WellOn
<1>14. Well(b, m', {}, Slot) BY <1>10, <1>11, <1>13, WellOn
<1>15. Heard(rows, e, c, b) BY <1>1, <1>4, <1>6, <1>10, <1>14 DEF Heard, b
<1> QED BY <1>1, <1>15

LEMMA HeardGoes ==
    ASSUME NEW rows, NEW e, NEW c, NEW b, Heard(rows, e, c, b)
    PROVE  Well(e, m', {}, Slot) /\ Well(c, m', {}, Slot)
<1>1. Well(e, c, {}, Slot) /\ Well(c, b, {}, Slot) BY WellMore DEF Heard
<1>2. Fit(e) /\ Fit(c) BY <1>1 DEF Heard, Well
<1>3. Well(c, m', {}, Slot) BY <1>1, <1>2, WellOn DEF Heard
<1> QED BY <1>1, <1>2, <1>3, WellOn

LEMMA ListsKeep ==
    ASSUME DInv, Moved, Lists
    PROVE  Table'
<1>0. IInv /\ Orphans /\ Tokens(m) BY DEF DInv, Table, Sane, Knows
<1>1. PICK rows, e, c, b : Heard(rows, e, c, b) BY ListHeard
<1>2. Placing(Silence) /\ queue' = queue BY ListHeard
<1>3. Silence \in Command /\ Told(Sent, Silence) = Sent /\ Silence.kind # "DIAL"
  BY SilenceType DEF Told, Silence
<1>4. Sane(b, calls, Sent, queue, lost) BY <1>1, ReadBinds DEF Heard
<1>5. Fit(m') /\ Fit(b) /\ Fit(e) /\ Tidy(m') BY <1>1 DEF Heard, Well
<1>6. Sane(m', calls, Sent, queue', lost) BY <1>1, <1>2, <1>4, <1>5, SaneGoes DEF Heard
<1>7. Sane(m', calls', Sent', queue', lost') BY <1>0, <1>2, <1>3, <1>6, SanePrimes
<1>8. Goes(e, m', {}, Slot) BY <1>1, HeardGoes DEF Well
<1>9. Sided'
  <2>1. e \in Model /\ m' \in Model BY <1>5, FitModel
  <2>2. \A id \in InUse(e) : e.legs[id].dir = Side(e.legs[id].call) BY <1>1, ReadLegs DEF Heard
  <2>3. ASSUME NEW id \in InUse(m')  PROVE m'.legs[id].dir = Side(m'.legs[id].call)
    <3>1. Has(m', Ref(m', id)) /\ Ref(m', id).id = id BY HasRef
    <3>2. /\ Has(e, Ref(m', id))  /\ m'.legs[id].dir = e.legs[id].dir
          /\ m'.legs[id].call = e.legs[id].call
      BY <1>8, <2>1, <3>1, HadLeg DEF Goes
    <3>3. id \in InUse(e) BY <3>1, <3>2 DEF Has
    <3> QED BY <2>2, <3>2, <3>3
  <2> QED BY <1>0, <1>2, <1>3, <2>3, SidedStays
<1>10. Orphans'
  <2>1. ASSUME NEW o \in Slot, Orphan(m'.txns[o]), ~m'.txns[o].second
        PROVE  Waited(m'.txns[o].token) /\ m'.txns[o].token # 0
    <3>1. /\ Orphan(e.txns[o])  /\ m'.txns[o].second = e.txns[o].second
          /\ m'.txns[o].token = e.txns[o].token
      BY <1>5, <1>8, <2>1, DialsGo
    <3>2. TxnsRead(m, e) BY <1>1 DEF Heard, Reads
    <3>3. m.txns[o].kind = "DIAL" /\ e.txns[o] = m.txns[o] BY <3>1, <3>2, ReadTxns DEF Orphan
    <3> QED BY <1>0, <2>1, <3>1, <3>3 DEF Orphans, Tokens
  <2> QED BY <1>0, <1>2, <1>3, <2>1, OrphansStay
<1> QED BY <1>5, <1>7, <1>9, <1>10 DEF Table

LEMMA ListsBind ==
    ASSUME DInv, Moved, Lists, NEW s \in Slot
    PROVE  Binding(s)
<1> DEFINE t == m'.txns[s]
           r == t.leg
           x == m'.legs[r.id].call
           a == m.txns[s]
<1> SUFFICES ASSUME t.kind = "DIAL", r \notin {NoRef, a.leg}, x # 0
             PROVE  \/ calls'[x] = t.token
                    \/ /\ calls'[x] # 0
                       /\ \A o \in SlotOf(m, calls'[x]) :
                             IF m.txns[o].leg = NoRef THEN m.txns[o].tomb /\ (t.tomb \/ x \in lost)
                             ELSE m.txns[o].leg # r
  BY DEF Binding
<1>0. IInv /\ Fit(m) /\ Sane(m, calls, Sent, queue, lost) /\ Tidy(m) BY DEF DInv, Table
<1>1. PICK rows, e, c, b : Heard(rows, e, c, b) BY ListHeard
<1>2. Placing(Silence) /\ Silence \in Command BY ListHeard, SilenceType
<1>3. /\ Well(c, b, {}, {})  /\ Tidy(b)  /\ Sane(b, calls, Sent, queue, lost)
      /\ NoneFree(b, Dials(c))  /\ Knows(c, calls, Sent, queue, lost)
      /\ \A o \in Slot \ Dials(c) : b.txns[o] = c.txns[o]
      /\ \A o \in Dials(c) : b.txns[o].kind = "DIAL" /\ b.txns[o].baseline = c.txns[o].baseline
  BY <1>1, ReadBinds DEF Heard
<1>4. /\ Dials(c) = Dials(m)
      /\ \A o \in Slot : /\ c.txns[o].kind = m.txns[o].kind  /\ c.txns[o].token = m.txns[o].token
                         /\ m.txns[o].kind = "DIAL" => c.txns[o] = m.txns[o]
  <2>1. TxnsRead(m, e) /\ c.txns = e.txns BY <1>1 DEF Heard, Reads
  <2> QED BY <2>1, ReadTxns DEF Dials
<1>5. /\ e \in Model  /\ c \in Model  /\ b \in Model  /\ m' \in Model  /\ Fit(c)
      /\ Goes(e, c, {}, {})  /\ Goes(c, b, {}, {})  /\ Goes(b, m', {}, Slot)  /\ Goes(c, m', {}, Slot)
  BY <1>1, <1>3, HeardGoes, FitModel DEF Heard, Well
<1>6. b.txns[s].kind = "DIAL" /\ b.txns[s].token = t.token /\ GoesDial(b, s, b.txns[s], t, {}, Slot)
  BY <1>5 DEF Goes, GoesTxn
<1>7. c.txns[s].kind = "DIAL" /\ c.txns[s].token = t.token
      /\ GoesDial(c, s, c.txns[s], b.txns[s], {}, {})
  BY <1>5, <1>6 DEF Goes, GoesTxn
<1>8. a.kind = "DIAL" /\ c.txns[s] = a BY <1>4, <1>7
(* What is known of a leg that the dial takes in c or after it.            *)
<1>9. ASSUME Has(c, r), Places(c, r.id)
      PROVE  /\ r.id \in InUse(c)  /\ Ref(c, r.id) = r  /\ c.legs[r.id].call = x
             /\ x \in DOMAIN calls  /\ calls'[x] = calls[x]  /\ calls[x] # 0
  <2>1. r.id \in Id /\ r.id \in InUse(c) BY <1>9 DEF Has, InUse
  <2>2. r.id \in InUse(m') BY <1>0, <2>1, LegWithCall
  <2>3. GoesLeg(c, m', r.id) BY <1>5, <2>1 DEF Goes
  <2>4. c.legs[r.id].call = x BY <2>1, <2>2, <2>3 DEF GoesLeg, InUse
  <2>5. r \in Refs BY <1>5, SlotTxn DEF Txn
  <2>6. Ref(c, r.id) = r BY <1>9, <2>5 DEF Has, Ref, Refs
  <2>7. x \in DOMAIN calls /\ calls'[x] = calls[x] BY <1>0, <1>2, <2>2, LegsOfCalls
  <2>8. /\ Has(e, r)  /\ e.legs[r.id].call = x  /\ Places(e, r.id)
    BY <1>5, <1>9, <2>4, HadLeg DEF Goes
  <2>9. e.legs[r.id].dir = Side(x)
    <3>1. r.id \in InUse(e) BY <2>8 DEF Has
    <3> QED BY <1>1, <2>8, <3>1, ReadLegs DEF Heard
  <2>10. calls[x] # 0 BY <2>8, <2>9 DEF Places, Side
  <2> QED BY <2>1, <2>4, <2>6, <2>7, <2>10
<1>10. CASE b.txns[s].leg = r
  <2>1. s \in Dials(c) BY <1>3, <1>8, <1>10
  <2>2. a.leg = NoRef /\ Free(c, s, r) BY <1>7, <1>8, <1>10 DEF GoesDial
  <2>3. /\ r.id \in InUse(c)  /\ Ref(c, r.id) = r  /\ c.legs[r.id].call = x
        /\ x \in DOMAIN calls  /\ calls'[x] = calls[x]  /\ calls[x] # 0
    BY <1>9, <2>2 DEF Free
  <2>4. ASSUME calls[x] # t.token, NEW o \in SlotOf(m, calls[x])
        PROVE  IF m.txns[o].leg = NoRef THEN m.txns[o].tomb /\ x \in lost ELSE m.txns[o].leg # r
    <3>1. /\ o \in Slot  /\ m.txns[o].kind # "NONE"  /\ m.txns[o].token = calls[x] BY DEF SlotOf
    <3>2. calls[x] \in Sent BY <2>3 DEF Sent
    <3>3. m.txns[o].kind = "DIAL" /\ m.txns[o].state # "PENDING"
      BY <1>0, <2>4, <3>2 DEF Sane, Knows, SentOnes
    <3>4. o # s BY <1>7, <1>8, <2>4, <3>1
    <3>5. m.txns[o].leg # r BY <1>4, <2>2, <3>1, <3>3, <3>4 DEF Free
    <3>6. ASSUME m.txns[o].leg = NoRef  PROVE m.txns[o].tomb /\ x \in lost
      <4>1. m.txns[o].state # "SENT"
        <5> SUFFICES ASSUME m.txns[o].state = "SENT"  PROVE FALSE  OBVIOUS
        <5>1. o \in Dials(c) BY <1>4, <3>1, <3>3, <3>6 DEF Dials
        <5>2. \A i, j \in OpenDials(c) : i = j BY <1>3 DEF Knows, Tokens
        <5>3. o \in OpenDials(c) /\ s \in OpenDials(c)
          BY <2>1, <5>1 DEF Dials, OpenDials, IsOpen
        <5> QED BY <3>4, <5>2, <5>3
      <4>2. m.txns[o] \in Txn BY <1>0, <3>1, FitModel, SlotTxn
      <4>3. IsTerminal(m.txns[o]) BY <3>3, <4>1, <4>2 DEF Txn, IsTerminal
      <4>4. m.txns[o].tomb BY <1>0, <3>1, <3>3, <3>6, <4>3 DEF Tidy, Neat
      <4>5. Orphan(c.txns[o]) /\ c.txns[o].token = calls[x]
        BY <1>4, <3>1, <3>3, <3>6, <4>4 DEF Orphan
      <4>6. Ref(c, r.id) \in c.txns[s].baseline \/ c.legs[r.id].call \in lost
        BY <1>3, <2>1, <2>3, <3>1, <4>5 DEF Knows, Strays
      <4> QED BY <2>2, <2>3, <4>4, <4>6 DEF Free
    <3> QED BY <3>5, <3>6
  <2> QED BY <2>3, <2>4
<1>11. CASE b.txns[s].leg # r
  <2>1. /\ b.txns[s].leg = NoRef  /\ Free(b, s, r)
        /\ b.txns[s].tomb \/ b.txns[s].state = "SENT"
        /\ b.txns[s].tomb => t.tomb
    BY <1>6, <1>11 DEF GoesDial
  <2>2. Has(b, r) /\ Places(b, r.id) /\ r.id \in InUse(b) /\ r.id \in Id
    BY <2>1 DEF Free, Has, InUse
  <2>3. Has(c, r) /\ Places(c, r.id) BY <1>5, <2>2, HadLeg DEF Goes
  <2>4. /\ r.id \in InUse(c)  /\ Ref(c, r.id) = r  /\ c.legs[r.id].call = x
        /\ x \in DOMAIN calls  /\ calls'[x] = calls[x]  /\ calls[x] # 0
    BY <1>9, <2>3
  <2>5. Ref(b, r.id) = r
    <3>1. r \in Refs BY <1>5, SlotTxn DEF Txn
    <3> QED BY <2>2, <3>1 DEF Has, Ref, Refs
  <2>6. ~Owned(b, r) BY <2>1 DEF Free, Owned
  <2>7. \A o \in Dials(c) : r \in c.txns[o].baseline
    BY <1>3, <2>2, <2>5, <2>6 DEF NoneFree
  <2>8. s \notin Dials(c) BY <1>3, <2>1, <2>7 DEF Free
  <2>9. a = b.txns[s] BY <1>3, <1>8, <2>8
  <2>10. a.leg = NoRef /\ t.tomb BY <1>8, <2>1, <2>8, <2>9, <1>4 DEF Dials
  <2>11. ASSUME NEW o \in Slot \ {s}, m.txns[o].kind = "DIAL"  PROVE m.txns[o].leg # r
    <3>1. CASE o \in Dials(c) BY <1>4, <3>1, <2>11 DEF Dials
    <3>2. CASE o \notin Dials(c) BY <1>3, <1>4, <2>1, <2>11, <3>2 DEF Free
    <3> QED BY <3>1, <3>2
  <2>12. ASSUME NEW o \in Dials(m)  PROVE calls[x] # m.txns[o].token
    <3>1. o \in Dials(c) /\ c.txns[o] = m.txns[o] BY <1>4, <2>12 DEF Dials
    <3>2. Ref(c, r.id) \in c.txns[o].baseline BY <2>4, <2>7, <3>1
    <3>3. calls[c.legs[r.id].call] # c.txns[o].token
      BY <1>3, <2>4, <3>1, <3>2 DEF Knows, Bases
    <3> QED BY <2>4, <3>1, <3>3
  <2>13. \A o \in SlotOf(m, calls[x]) :
            IF m.txns[o].leg = NoRef THEN m.txns[o].tomb ELSE m.txns[o].leg # r
    <3> HIDE DEF x, r, t
    <3> QED BY <2>4, <2>10, <2>11, <2>12, TombBinds DEF t
  <2> QED BY <2>4, <2>10, <2>13
<1> QED BY <1>10, <1>11

----------------------------------------------------------------------------
(* What the network can be like stays so.                                  *)

(* The rows of n are of calls of k, on the side k has them on.             *)
RowsOk(n, k) ==
    \A id \in Busy(n) :
        /\ n[id].call \in DOMAIN k
        /\ n[id].dir = IF k[n[id].call] = 0 THEN "MT" ELSE "MO"
        /\ n[id].state \in {"INCOMING", "WAITING"} => n[id].dir = "MT"

(* One call is set up or talked in at a time, and one rings.               *)
Clear(n) ==
    /\ \A id, o \in On(n, "ACTIVE") \cup On(n, "DIALING") : id = o
    /\ \A id, o \in On(n, "HELD") : id = o
    /\ \A id, o \in On(n, "WAITING") : id = o
    /\ \A id \in On(n, "INCOMING") : Busy(n) = {id}
    /\ On(n, "WAITING") = {} \/ On(n, "DIALING") = {}

(* The calls of k are calls of n, and ring only if they did in n.          *)
Kin(n, k) ==
    /\ k \in Rowed
    /\ \A id \in Busy(k) :
          /\ id \in Busy(n)  /\ k[id].dir = n[id].dir  /\ k[id].call = n[id].call
          /\ k[id].state \in {"INCOMING", "WAITING"} => n[id].state \in {"INCOMING", "WAITING"}

LEMMA KinItself == \A n \in Rowed : Kin(n, n)  BY DEF Kin

LEMMA KinOn ==
    ASSUME NEW n, NEW k, NEW l, Kin(n, k), Kin(k, l)
    PROVE  Kin(n, l)
BY DEF Kin

LEMMA KinRows ==
    ASSUME NEW n, NEW k, NEW c, RowsOk(n, c), Kin(n, k)
    PROVE  RowsOk(k, c)
BY DEF RowsOk, Kin

LEMMA PutIs ==
    ASSUME NEW n \in Rowed, NEW S \in SUBSET Busy(n), NEW st \in OnAir \ {"FREE"},
           NEW k, k = Put(n, S, st)
    PROVE  /\ k \in Rowed  /\ Busy(k) = Busy(n)
           /\ \A id \in Id : /\ k[id].state = IF id \in S THEN st ELSE n[id].state
                             /\ k[id].dir = n[id].dir  /\ k[id].call = n[id].call
<1> DEFINE new(id) == IF id \in S THEN [n[id] EXCEPT !.state = st] ELSE n[id]
<1>1. \A id \in Id : n[id] \in Row BY DEF Rowed
<1>2. \A id \in Id : /\ new(id).state = IF id \in S THEN st ELSE n[id].state
                     /\ new(id).dir = n[id].dir  /\ new(id).call = n[id].call
  BY <1>1 DEF Row
<1>3. k = [id \in Id |-> new(id)] BY DEF Put
<1> HIDE DEF new
<1>4. \A id \in Id : k[id] = new(id) BY <1>3
<1>5. SameCalls(n, k) BY PutSame
<1>6. k \in Rowed /\ Busy(k) = Busy(n) BY <1>5 DEF SameCalls, Busy
<1> QED BY <1>2, <1>4, <1>6

LEMMA PutKin ==
    ASSUME NEW n \in Rowed, NEW S \in SUBSET Busy(n), NEW st \in {"ACTIVE", "HELD"}
    PROVE  Kin(n, Put(n, S, st))
<1>1. st \in OnAir \ {"FREE"} BY DEF OnAir
<1> DEFINE k == Put(n, S, st)
<1>2. /\ k \in Rowed  /\ Busy(k) = Busy(n)
      /\ \A id \in Id : /\ k[id].state = IF id \in S THEN st ELSE n[id].state
                        /\ k[id].dir = n[id].dir  /\ k[id].call = n[id].call
  BY <1>1, PutIs
<1> HIDE DEF k
<1>3. Kin(n, k) BY <1>2 DEF Kin, Busy
<1> QED BY <1>3 DEF k

(* Some calls end; a waiting call that is left alone rings.                *)
LEMMA DropIs ==
    ASSUME NEW n \in Rowed, NEW S \in SUBSET Id, NEW k, k = Drop(n, S)
    PROVE  /\ k \in Rowed  /\ Busy(k) = Busy(n) \ S
           /\ \A id \in Busy(k) :
                 /\ k[id].dir = n[id].dir  /\ k[id].call = n[id].call
                 /\ \/ k[id].state = n[id].state
                    \/ /\ n[id].state = "WAITING"  /\ k[id].state = "INCOMING"
                       /\ \A o \in Busy(k) : n[o].state = "WAITING"
<1> DEFINE j == [id \in Id |-> IF id \in S THEN NoRow ELSE n[id]]
           w == On(j, "WAITING")
<1>1. NoRow \in Row /\ NoRow.state = "FREE" BY DEF NoRow, Row, OnAir, Dirs
<1>2. j \in Rowed BY <1>1 DEF Rowed
<1>3. \A id \in Id : j[id] = IF id \in S THEN NoRow ELSE n[id] OBVIOUS
<1>4. k = IF Busy(j) = w THEN Put(j, w, "INCOMING") ELSE j BY DEF Drop, Realert
<1> HIDE DEF j
<1>5. Busy(j) = Busy(n) \ S BY <1>1, <1>3 DEF Busy
<1>6. CASE Busy(j) = w
  <2>1. w \in SUBSET Busy(j) /\ "INCOMING" \in OnAir \ {"FREE"} BY <1>6 DEF OnAir
  <2>2. /\ k \in Rowed  /\ Busy(k) = Busy(j)
        /\ \A id \in Id : /\ k[id].state = IF id \in w THEN "INCOMING" ELSE j[id].state
                          /\ k[id].dir = j[id].dir  /\ k[id].call = j[id].call
    BY <1>2, <1>4, <1>6, <2>1, PutIs
  <2>3. \A id \in Busy(k) : /\ id \in Id  /\ id \notin S  /\ id \in w  /\ n[id].state = "WAITING"
    BY <1>3, <1>5, <1>6, <2>2 DEF Busy, On
  <2> QED BY <1>3, <1>5, <2>2, <2>3
<1>7. CASE Busy(j) # w
  <2>1. k = j BY <1>4, <1>7
  <2>2. \A id \in Busy(j) : id \in Id /\ id \notin S BY <1>5 DEF Busy
  <2> QED BY <1>2, <1>3, <1>5, <2>1, <2>2
<1> QED BY <1>6, <1>7

LEMMA DropKeeps ==
    ASSUME NEW n \in Rowed, NEW S \in SUBSET Id, Clear(n), NEW k, k = Drop(n, S)
    PROVE  Kin(n, k) /\ Clear(k)
<1>1. /\ k \in Rowed  /\ Busy(k) = Busy(n) \ S
      /\ \A id \in Busy(k) :
            /\ k[id].dir = n[id].dir  /\ k[id].call = n[id].call
            /\ \/ k[id].state = n[id].state
               \/ /\ n[id].state = "WAITING"  /\ k[id].state = "INCOMING"
                  /\ \A o \in Busy(k) : n[o].state = "WAITING"
  BY DropIs
<1>2. Kin(n, k) BY <1>1 DEF Kin
<1>3. \A st : \A id \in Id : id \in On(k, st) /\ st # "FREE" => id \in Busy(k)
  BY DEF On, Busy
<1>4. \A st : st \notin {"FREE", "INCOMING"} => On(k, st) \subseteq On(n, st)
  BY <1>1, <1>3 DEF On
<1>5. ASSUME NEW id \in On(k, "INCOMING")  PROVE Busy(k) = {id}
  <2>1. id \in Busy(k) /\ id \in Id BY <1>3 DEF On
  <2>2. CASE n[id].state = "INCOMING"
    <3>1. Busy(n) = {id} BY <2>1, <2>2 DEF Clear, On
    <3> QED BY <1>1, <2>1, <3>1
  <2>3. CASE n[id].state # "INCOMING"
    <3>1. \A o \in Busy(k) : n[o].state = "WAITING" BY <1>1, <1>5, <2>1, <2>3 DEF On
    <3>2. \A o \in Busy(k) : o = id BY <2>1, <3>1 DEF Clear, On, Busy
    <3> QED BY <2>1, <3>2
  <2> QED BY <2>2, <2>3
<1>6. /\ On(k, "ACTIVE") \subseteq On(n, "ACTIVE")  /\ On(k, "DIALING") \subseteq On(n, "DIALING")
      /\ On(k, "HELD") \subseteq On(n, "HELD")  /\ On(k, "WAITING") \subseteq On(n, "WAITING")
  BY <1>4
<1>7. Clear(k) BY <1>5, <1>6 DEF Clear
<1> QED BY <1>2, <1>7

(* Every command leaves the network fit; what it dials or what is heard    *)
(* arriving is the only new call.                                          *)
LEMMA EffectClear ==
    ASSUME NetType, Clear(net), NEW c \in Command, c.kind # "NONE",
           NEW n, n = Effect(c).net, ~(c.kind = "DIAL" /\ Effect(c).ok)
    PROVE  Kin(net, n) /\ Clear(n)
<1> DEFINE up == On(net, "ACTIVE")     held == On(net, "HELD")
           wt == On(net, "WAITING")    out  == On(net, "DIALING")
           inc == On(net, "INCOMING")  fg   == up \cup out
<1>0. net \in Rowed BY DEF NetType
<1>1. /\ up \in SUBSET Busy(net)  /\ held \in SUBSET Busy(net)  /\ wt \in SUBSET Busy(net)
      /\ out \in SUBSET Busy(net)  /\ inc \in SUBSET Busy(net)  /\ fg \in SUBSET Busy(net)
  BY OnBusy
<1>2. Busy(net) \in SUBSET Id BY DEF Busy
<1>3. {"ACTIVE", "HELD", "DIALING", "INCOMING"} \subseteq OnAir \ {"FREE"} BY DEF OnAir
<1>4. Kin(net, net) BY <1>0, KinItself
<1>5. CASE Effect(c) = Refused \/ c.kind = "CLCC"
  <2>1. Refused.net = net /\ Done(net).net = net BY DEF Refused, Done
  <2>2. c.kind = "CLCC" => Effect(c) = Done(net) BY DEF Effect
  <2> QED BY <1>4, <1>5, <2>1, <2>2
<1>6. CASE c.kind = "DIAL"
  <2>1. Effect(c) = Refused \/ \E x : Effect(c) = Done(x) BY <1>6 DEF Effect
  <2>2. \A x : Done(x).ok = TRUE BY DEF Done
  <2> QED BY <1>5, <1>6, <2>1, <2>2
<1>7. CASE c.kind = "ANSWER" /\ Effect(c) # Refused
  <2>1. inc # {} /\ Effect(c) = Done(Put(net, inc, "ACTIVE")) BY <1>7 DEF Effect
  <2>2. n = Put(net, inc, "ACTIVE") BY <2>1 DEF Done
  <2>3. /\ n \in Rowed  /\ Busy(n) = Busy(net)
        /\ \A id \in Id : n[id].state = IF id \in inc THEN "ACTIVE" ELSE net[id].state
    BY <1>0, <1>1, <1>3, <2>2, PutIs
  <2>4. PICK i \in inc : Busy(net) = {i} BY <2>1 DEF Clear
  <2>5. \A id \in Busy(n) : id = i /\ n[id].state = "ACTIVE" BY <1>2, <2>3, <2>4
  <2>7. /\ On(n, "HELD") = {}  /\ On(n, "WAITING") = {}  /\ On(n, "INCOMING") = {}
        /\ On(n, "DIALING") = {}  /\ On(n, "ACTIVE") \subseteq {i}
    BY <2>5 DEF On, Busy
  <2>8. Clear(n) BY <2>7 DEF Clear
  <2> QED BY <1>0, <1>1, <2>2, <2>8, PutKin
<1>8. CASE c.kind = "HANGUP"
  <2>1. n = Drop(net, Id) BY <1>8 DEF Effect, Done
  <2> QED BY <1>0, <2>1, DropKeeps
<1>9. CASE c.kind = "WAIT_REJECT" /\ Effect(c) # Refused
  <2>1. n = Drop(net, IF wt # {} THEN wt ELSE held) BY <1>9 DEF Effect, Done
  <2> QED BY <1>0, <1>1, <1>2, <2>1, DropKeeps
<1>10. CASE c.kind = "RELEASE_LEG" /\ Effect(c) # Refused
  <2>1. c.at \in Busy(net) /\ n = Drop(net, {c.at}) BY <1>1, <1>10 DEF Effect, Done
  <2>2. {c.at} \in SUBSET Id BY <1>2, <2>1
  <2> QED BY <1>0, <2>1, <2>2, DropKeeps
<1>11. CASE c.kind \in {"HOLD", "SWAP", "WAIT_ANSWER"} /\ Effect(c) # Refused
  <2> DEFINE T == IF wt # {} THEN wt ELSE held
             k == Put(net, up, "HELD")
  <2>1. /\ out = {}  /\ up \cup held \cup wt # {}  /\ ~(wt # {} /\ up # {} /\ held # {})
        /\ Effect(c) = Done(Put(k, T, "ACTIVE"))
    BY <1>11 DEF Effect
  <2>2. /\ k \in Rowed  /\ Busy(k) = Busy(net)
        /\ \A id \in Id : k[id].state = IF id \in up THEN "HELD" ELSE net[id].state
    BY <1>0, <1>1, <1>3, PutIs
  <2>3. Kin(net, k) BY <1>0, <1>1, PutKin
  <2>4. n = Put(k, T, "ACTIVE") BY <2>1 DEF Done
  <2> HIDE DEF k
  <2>5. T \in SUBSET Busy(k) BY <1>1, <2>2
  <2>6. Kin(k, n) BY <2>2, <2>4, <2>5, PutKin
  <2>7. /\ n \in Rowed  /\ Busy(n) = Busy(k)
        /\ \A id \in Id : n[id].state = IF id \in T THEN "ACTIVE" ELSE k[id].state
    <3> HIDE DEF T
    <3> QED BY <1>3, <2>2, <2>4, <2>5, PutIs
  <2>8. inc = {}
    <3>1. SUFFICES ASSUME NEW i \in inc  PROVE FALSE OBVIOUS
    <3>2. Busy(net) = {i} BY DEF Clear
    <3>3. up \cup held \cup wt \subseteq {i} BY <1>1, <3>2
    <3> QED BY <2>1, <3>3 DEF On
  <2>9. /\ \A id \in Id : n[id].state = "ACTIVE" => id \in T
        /\ \A id \in Id : n[id].state \notin {"DIALING", "INCOMING", "WAITING"}
        /\ \A id \in Id : n[id].state = "HELD" => id \in up \/ (id \in held /\ wt # {})
    <3> SUFFICES ASSUME NEW id \in Id
                 PROVE  /\ n[id].state = "ACTIVE" => id \in T
                        /\ n[id].state \notin {"DIALING", "INCOMING", "WAITING"}
                        /\ n[id].state = "HELD" => id \in up \/ (id \in held /\ wt # {})
      OBVIOUS
    <3>1. n[id].state = IF id \in T THEN "ACTIVE" ELSE k[id].state BY <2>7
    <3>2. k[id].state = IF id \in up THEN "HELD" ELSE net[id].state BY <2>2
    <3>3. net[id].state \notin {"DIALING", "INCOMING"} BY <2>1, <2>8 DEF On
    <3>4. net[id].state = "WAITING" => id \in T BY DEF On
    <3>5. net[id].state = "HELD" => id \in held /\ (id \in T \/ wt # {}) BY DEF On
    <3>6. net[id].state = "ACTIVE" => id \in up BY DEF On
    <3> HIDE DEF T
    <3> QED BY <3>1, <3>2, <3>3, <3>4, <3>5, <3>6
  <2>12. /\ On(n, "ACTIVE") \subseteq T  /\ On(n, "DIALING") = {}  /\ On(n, "INCOMING") = {}
         /\ On(n, "WAITING") = {}  /\ On(n, "HELD") \subseteq up \cup held
         /\ held = {} \/ up = {} \/ On(n, "HELD") \subseteq up
    <3>1. /\ On(n, "ACTIVE") \subseteq T  /\ On(n, "DIALING") = {}  /\ On(n, "INCOMING") = {}
          /\ On(n, "WAITING") = {}
      BY <2>9 DEF On
    <3>2. \A id \in On(n, "HELD") : id \in up \/ (id \in held /\ wt # {}) BY <2>9 DEF On
    <3> HIDE DEF up, held, wt, T
    <3> QED BY <2>1, <3>1, <3>2
  <2>10. /\ \A id, o \in T : id = o
         /\ \A id, o \in up : id = o
         /\ \A id, o \in held : id = o
    BY DEF Clear
  <2>11. Clear(n)
    <3>1. \A id, o \in On(n, "HELD") : id = o
      <4> HIDE DEF up, held, T
      <4> QED BY <2>10, <2>12
    <3>2. \A id, o \in On(n, "ACTIVE") : id = o
      <4> HIDE DEF T
      <4> QED BY <2>10, <2>12
    <3> QED BY <2>12, <3>1, <3>2 DEF Clear
  <2> QED BY <2>3, <2>6, <2>11, KinOn
<1>12. CASE c.kind = "RELEASE_ACTIVE" /\ Effect(c) # Refused
  <2> DEFINE T == IF wt # {} THEN wt ELSE held
             k == Drop(net, fg)
  <2>1. fg \cup held \cup wt # {} /\ Effect(c) = Done(Put(k, T, "ACTIVE"))
    BY <1>12 DEF Effect
  <2>2. /\ k \in Rowed  /\ Busy(k) = Busy(net) \ fg
        /\ \A id \in Busy(k) : \/ k[id].state = net[id].state
                               \/ net[id].state = "WAITING" /\ k[id].state = "INCOMING"
    BY <1>0, <1>1, <1>2, DropIs
  <2>14. k \in Rowed /\ "ACTIVE" \in OnAir \ {"FREE"} BY <1>3, <2>2
  <2>3. Kin(net, k) BY <1>0, <1>1, <1>2, DropKeeps
  <2>4. n = Put(k, T, "ACTIVE") BY <2>1 DEF Done
  <2> HIDE DEF k
  <2>5. T \in SUBSET Busy(k) BY <1>1, <2>2 DEF On
  <2>6. Kin(k, n) BY <2>2, <2>4, <2>5, PutKin
  <2>7. /\ n \in Rowed  /\ Busy(n) = Busy(k)
        /\ \A id \in Id : n[id].state = IF id \in T THEN "ACTIVE" ELSE k[id].state
    <3> HIDE DEF T
    <3> QED BY <2>4, <2>5, <2>14, PutIs
  <2>8. inc = {}
    <3>1. SUFFICES ASSUME NEW i \in inc  PROVE FALSE OBVIOUS
    <3>2. Busy(net) = {i} BY DEF Clear
    <3>3. fg \cup held \cup wt \subseteq {i} BY <1>1, <3>2
    <3> QED BY <2>1, <3>3 DEF On
  <2>9. ASSUME NEW id \in Busy(n)
        PROVE  \/ id \in T /\ n[id].state = "ACTIVE"
               \/ id \in held /\ n[id].state = "HELD"
    <3>1. id \in Id /\ id \in Busy(net) /\ id \notin fg /\ id \in Busy(k) BY <1>2, <2>2, <2>7
    <3>2. net[id] \in Row BY <1>0, <3>1 DEF Rowed
    <3>3. net[id].state \in {"WAITING", "HELD"}
      BY <2>8, <3>1, <3>2 DEF On, Busy, Row, OnAir
    <3>4. CASE id \in T BY <2>7, <3>1, <3>4
    <3>5. CASE id \notin T
      <4>1. net[id].state = "HELD" BY <3>1, <3>3, <3>5 DEF On
      <4> QED BY <2>2, <2>7, <3>1, <3>5, <4>1 DEF On
    <3> QED BY <3>4, <3>5
  <2>10. \A id, o \in T : id = o BY DEF Clear
  <2>11. \A id, o \in held : id = o BY DEF Clear
  <2>12. /\ On(n, "ACTIVE") \subseteq T  /\ On(n, "DIALING") = {}  /\ On(n, "INCOMING") = {}
         /\ On(n, "WAITING") = {}  /\ On(n, "HELD") \subseteq held
    BY <2>9 DEF On, Busy
  <2>13. Clear(n) BY <2>10, <2>11, <2>12 DEF Clear
  <2> QED BY <2>3, <2>6, <2>13, KinOn
<1> QED BY <1>5, <1>6, <1>7, <1>8, <1>9, <1>10, <1>11, <1>12 DEF Command, Ops

(* A call dialled, or one that arrives.                                    *)
LEMMA NewFits ==
    ASSUME NetType, RowsOk(net, calls), Spare # {}, NEW n, Kin(net, n), Clear(n),
           NEW st \in {"DIALING", "INCOMING", "WAITING"}, NEW dir, NEW tok \in Nat,
           net' = NewCall(n, st, dir), calls' = Append(calls, tok),
           dir = IF tok = 0 THEN "MT" ELSE "MO", st # "DIALING" => dir = "MT",
           On(n, "DIALING") = {}, On(n, "INCOMING") = {}, On(n, "WAITING") = {},
           st = "DIALING" => On(n, "ACTIVE") = {}, st = "INCOMING" => Busy(n) = {}
    PROVE  RowsOk(net', calls') /\ Clear(net')
<1> DEFINE x == Min(Spare)
           row == [state |-> st, dir |-> dir, call |-> Len(calls) + 1]
<1>1. x \in Spare /\ x \in Id BY SpareLeast
<1> HIDE DEF x
<1>2. Len(calls) \in Nat /\ calls \in Seq(Nat) BY DEF NetType
<1>3. net' = [n EXCEPT ![x] = row] BY DEF NewCall, x
<1>4. n \in [Id -> Row] BY DEF Kin, Rowed
<1>5. row.state = st /\ row.dir = dir /\ row.call = Len(calls) + 1 OBVIOUS
<1> HIDE DEF row
<1>6. net'[x] = row /\ \A id \in Id \ {x} : net'[id] = n[id] BY <1>1, <1>3, <1>4
<1>7. x \in Busy(net') /\ Busy(net') \subseteq Busy(n) \cup {x}
  BY <1>1, <1>5, <1>6 DEF Busy
<1>8. \A s : On(net', s) \subseteq On(n, s) \cup {x} BY <1>6 DEF On
<1>9. \A s : s # st => On(net', s) \subseteq On(n, s) BY <1>5, <1>6 DEF On
<1>10. RowsOk(net', calls')
  <2> SUFFICES ASSUME NEW id \in Busy(net')
               PROVE  /\ net'[id].call \in DOMAIN calls'
                      /\ net'[id].dir = IF calls'[net'[id].call] = 0 THEN "MT" ELSE "MO"
                      /\ net'[id].state \in {"INCOMING", "WAITING"} => net'[id].dir = "MT"
    BY DEF RowsOk
  <2>1. CASE id = x
    <3>1. Len(calls) + 1 \in DOMAIN calls' /\ calls'[Len(calls) + 1] = tok BY <1>2
    <3> QED BY <1>5, <1>6, <2>1, <3>1
  <2>2. CASE id # x
    <3>1. id \in Busy(n) /\ id \in Id /\ net'[id] = n[id] BY <1>6, <1>7, <2>2 DEF Busy
    <3>2. id \in Busy(net) /\ n[id].dir = net[id].dir /\ n[id].call = net[id].call
          /\ (n[id].state \in {"INCOMING", "WAITING"} => net[id].state \in {"INCOMING", "WAITING"})
      BY <3>1 DEF Kin
    <3>3. \A c \in DOMAIN calls : c \in DOMAIN calls' /\ calls'[c] = calls[c] BY <1>2
    <3>4. /\ net[id].call \in DOMAIN calls
          /\ net[id].dir = IF calls[net[id].call] = 0 THEN "MT" ELSE "MO"
          /\ net[id].state \in {"INCOMING", "WAITING"} => net[id].dir = "MT"
      BY <3>2 DEF RowsOk
    <3> QED BY <3>1, <3>2, <3>3, <3>4
  <2> QED BY <2>1, <2>2
<1>11. Clear(net')
  <2>1. \A id, o \in On(net', "HELD") : id = o BY <1>9 DEF Clear
  <2>2. \A id, o \in On(net', "ACTIVE") \cup On(net', "DIALING") : id = o
    <3>1. CASE st = "DIALING"
      <4>1. On(net', "ACTIVE") = {} /\ On(net', "DIALING") \subseteq {x} BY <1>8, <1>9, <3>1
      <4> QED BY <4>1
    <3>2. CASE st # "DIALING"
      <4>1. On(net', "ACTIVE") \subseteq On(n, "ACTIVE") /\ On(net', "DIALING") = {}
        BY <1>9, <3>2
      <4> QED BY <4>1 DEF Clear
    <3> QED BY <3>1, <3>2
  <2>3. /\ On(net', "WAITING") \subseteq {x}
        /\ st # "WAITING" => On(net', "WAITING") = {}
        /\ st # "DIALING" => On(net', "DIALING") = {}
    BY <1>8, <1>9
  <2>4. ASSUME NEW id \in On(net', "INCOMING")  PROVE Busy(net') = {id}
    <3>1. st = "INCOMING" BY <1>9, <2>4
    <3>2. id = x BY <1>8, <2>4
    <3> QED BY <1>7, <3>1, <3>2
  <2> QED BY <2>1, <2>2, <2>3, <2>4 DEF Clear
<1> QED BY <1>10, <1>11

LEMMA DialFits ==
    ASSUME NetType, RowsOk(net, calls), Clear(net), NEW c \in Command,
           c.kind = "DIAL", c.token # 0, Effect(c).ok,
           net' = Effect(c).net, calls' = Append(calls, c.token)
    PROVE  RowsOk(net', calls') /\ Clear(net')
<1> DEFINE up == On(net, "ACTIVE")
           n  == Put(net, up, "HELD")
<1>1. /\ Spare # {}  /\ On(net, "DIALING") = {}  /\ On(net, "INCOMING") = {}
      /\ On(net, "WAITING") = {}
      /\ up = {} \/ On(net, "HELD") = {}
      /\ net' = NewCall(n, "DIALING", "MO")
  <2>1. Effect(c) # Refused BY DEF Refused
  <2>2. /\ ~(Spare = {} \/ Len(calls) = MaxCalls
             \/ On(net, "DIALING") \cup On(net, "WAITING") \cup On(net, "INCOMING") # {}
             \/ (up # {} /\ On(net, "HELD") # {}))
        /\ Effect(c) = Done(NewCall(n, "DIALING", "MO"))
    BY <2>1 DEF Effect
  <2> HIDE DEF n, up
  <2> QED BY <2>2 DEF Done
<1>2. up \in SUBSET Busy(net) /\ "HELD" \in OnAir \ {"FREE"} /\ net \in Rowed
  BY OnBusy DEF OnAir, NetType
<1>3. \A id \in Id : n[id].state = IF id \in up THEN "HELD" ELSE net[id].state
  <2> HIDE DEF up
  <2> QED BY <1>2, PutIs
<1>4. Kin(net, n) BY <1>2, PutKin
<1> HIDE DEF n
<1>5. /\ On(n, "ACTIVE") = {}  /\ On(n, "DIALING") = {}  /\ On(n, "INCOMING") = {}
      /\ On(n, "WAITING") = {}
  <2>1. On(n, "ACTIVE") = {} BY <1>3 DEF On
  <2>2. \A st : st # "HELD" => On(n, st) \subseteq On(net, st) BY <1>3 DEF On
  <2>3. /\ On(n, "DIALING") \subseteq On(net, "DIALING")
        /\ On(n, "INCOMING") \subseteq On(net, "INCOMING")
        /\ On(n, "WAITING") \subseteq On(net, "WAITING")
    BY <2>2
  <2> QED BY <1>1, <2>1, <2>3
<1>6. On(n, "HELD") \subseteq up \cup On(net, "HELD") BY <1>3 DEF On
<1>7. \A id, o \in On(n, "HELD") : id = o
  <2>1. \A id, o \in up : id = o BY DEF Clear
  <2>2. \A id, o \in On(net, "HELD") : id = o BY DEF Clear
  <2> HIDE DEF up
  <2> QED BY <1>1, <1>6, <2>1, <2>2
<1>8. Clear(n) BY <1>5, <1>7 DEF Clear
<1>9. c.token \in Nat BY DEF Command
<1> QED BY <1>1, <1>4, <1>5, <1>8, <1>9, NewFits

LEMMA FitNet == TypeOK /\ Calls /\ NetFit => RowsOk(net, calls) /\ Clear(net)
<1> SUFFICES ASSUME TypeOK, Calls, NetFit  PROVE RowsOk(net, calls) /\ Clear(net)  OBVIOUS
<1>1. calls \in Seq(Nat) BY DEF TypeOK
<1>2. \A id \in Busy(net) : net[id].call \in DOMAIN calls BY <1>1 DEF Calls
<1>3. RowsOk(net, calls) BY <1>2 DEF RowsOk, NetFit, Side
<1> QED BY <1>3 DEF NetFit, Clear

LEMMA FitsNet == RowsOk(net', calls') /\ Clear(net') => NetFit'
BY DEF RowsOk, Clear, NetFit, Side

LEMMA EndFits ==
    ASSUME NetType, RowsOk(net, calls), Clear(net), Kin(net, net'), Clear(net'), calls' = calls
    PROVE  NetFit'
BY KinRows, FitsNet

LEMMA AnswerFits ==
    ASSUME IInv, NetFit, Written, Answers
    PROVE  NetFit'
<1> DEFINE c == Head(owed)
<1>1. RowsOk(net, calls) /\ Clear(net) /\ NetType
  BY FitNet, ServiceTypeOK DEF IInv, NeverResurrected
<1>2. owed # <<>> /\ net' = Effect(c).net
      /\ calls' = IF c.kind = "DIAL" /\ Effect(c).ok THEN Append(calls, c.token) ELSE calls
  BY DEF Answers, Answer
<1>3. c \in Command /\ c.kind # "NONE" BY <1>2, HeadOwed
<1>4. c.kind = "DIAL" => c.token # 0
  <2>1. owed \in Seq(Command) BY ServiceTypeOK DEF ServiceType
  <2>2. c = owed[1] /\ 1 \in DOMAIN owed BY <1>2, <2>1
  <2> QED BY <2>2 DEF Written
<1> HIDE DEF c
<1>5. CASE c.kind = "DIAL" /\ Effect(c).ok
  BY <1>1, <1>2, <1>3, <1>4, <1>5, DialFits, FitsNet
<1>6. CASE ~(c.kind = "DIAL" /\ Effect(c).ok)
  <2>1. Kin(net, net') /\ Clear(net') BY <1>1, <1>2, <1>3, <1>6, EffectClear
  <2>2. calls' = calls BY <1>2, <1>6
  <2> QED BY <1>1, <2>1, <2>2, EndFits
<1> QED BY <1>5, <1>6

LEMMA ArriveFits ==
    ASSUME IInv, NetFit, Arrives
    PROVE  NetFit'
<1>1. RowsOk(net, calls) /\ Clear(net) /\ NetType
  BY FitNet, ServiceTypeOK DEF IInv, NeverResurrected
<1>2. Kin(net, net) BY <1>1, KinItself DEF NetType
<1> DEFINE st == IF Busy(net) = {} THEN "INCOMING" ELSE "WAITING"
<1>3. /\ Spare # {}  /\ On(net, "DIALING") = {}  /\ On(net, "INCOMING") = {}
      /\ On(net, "WAITING") = {}  /\ net' = NewCall(net, st, "MT")  /\ calls' = Append(calls, 0)
  BY DEF Arrives
<1>4. st \in {"DIALING", "INCOMING", "WAITING"} /\ st # "DIALING"
      /\ (st = "INCOMING" => Busy(net) = {})
  OBVIOUS
<1> HIDE DEF st
<1>5. RowsOk(net', calls') /\ Clear(net') BY <1>1, <1>2, <1>3, <1>4, NewFits
<1> QED BY <1>5, FitsNet

LEMMA ConnectFits ==
    ASSUME IInv, NetFit, RemoteAnswers
    PROVE  NetFit'
<1> DEFINE S == On(net, "DIALING")
<1>1. RowsOk(net, calls) /\ Clear(net) /\ NetType
  BY FitNet, ServiceTypeOK DEF IInv, NeverResurrected
<1>2. net' = Put(net, S, "ACTIVE") /\ calls' = calls BY DEF RemoteAnswers
<1>3. S \in SUBSET Busy(net) /\ "ACTIVE" \in OnAir \ {"FREE"} /\ net \in Rowed
  BY <1>1, OnBusy DEF OnAir, NetType
<1>4. /\ Busy(net') = Busy(net)
      /\ \A id \in Id : net'[id].state = IF id \in S THEN "ACTIVE" ELSE net[id].state
  BY <1>2, <1>3, PutIs
<1>5. /\ On(net', "ACTIVE") \subseteq On(net, "ACTIVE") \cup On(net, "DIALING")
      /\ On(net', "DIALING") = {}  /\ On(net', "HELD") \subseteq On(net, "HELD")
      /\ On(net', "WAITING") \subseteq On(net, "WAITING")
      /\ On(net', "INCOMING") \subseteq On(net, "INCOMING")
  BY <1>4 DEF On
<1>6. Clear(net') BY <1>1, <1>4, <1>5 DEF Clear
<1>7. Kin(net, net') BY <1>2, <1>3, PutKin
<1> QED BY <1>1, <1>2, <1>6, <1>7, EndFits

LEMMA EndsFits ==
    ASSUME IInv, NetFit, NEW id \in Id, Ends(id)
    PROVE  NetFit'
<1>1. RowsOk(net, calls) /\ Clear(net) /\ NetType
  BY FitNet, ServiceTypeOK DEF IInv, NeverResurrected
<1>2. net' = Drop(net, {id}) /\ calls' = calls /\ {id} \in SUBSET Id BY DEF Ends
<1>3. Kin(net, net') /\ Clear(net') BY <1>1, <1>2, DropKeeps DEF NetType
<1> QED BY <1>1, <1>2, <1>3, EndFits

LEMMA StillFits == NetFit /\ UNCHANGED <<net, calls>> => NetFit'
BY DEF NetFit, Side, Busy, On

LEMMA NetFitKept ==
    ASSUME IInv, NetFit, Written, Next
    PROVE  NetFit'
<1>1. CASE Ask \/ AbandonNewCall \/ Rings \/ TimesOut
  BY <1>1, StillFits DEF Ask, AbandonNewCall, Rings, TimesOut, outside
<1>2. CASE Turn
  BY <1>2, StillFits DEF Turn, StartRequest, StartCleanup, Poll, Rest, outside
<1>3. CASE Deadline \/ Slow
  BY <1>3, StillFits DEF Deadline, Slow, Passes, outside
<1>4. CASE Arrives BY <1>4, ArriveFits
<1>5. CASE RemoteAnswers BY <1>5, ConnectFits
<1>6. CASE EndsWithEvent \/ EndsWithFinal \/ EndsUnheard
  BY <1>6, EndsFits DEF EndsWithEvent, EndsWithFinal, EndsUnheard
<1>7. CASE Answers BY <1>7, AnswerFits
<1>8. CASE Refuses
  <2>1. net' = net /\ calls' = calls BY <1>8 DEF Refuses, Answer, Refused
  <2> QED BY <2>1, StillFits
<1>9. CASE Misses
  <2>1. net' = net /\ calls' = calls BY <1>9 DEF Misses, Answer, Done
  <2> QED BY <2>1, StillFits
<1> QED BY <1>1, <1>2, <1>3, <1>4, <1>5, <1>6, <1>7, <1>8, <1>9
        DEF Next, User, Network, Modem, Service

----------------------------------------------------------------------------
(* Every dial written has a token: it is that of a request at work.        *)

LEMMA WrittenStays ==
    ASSUME IInv, Written, NEW cmd \in Command, Placing(cmd), cmd.kind = "DIAL" => cmd.token # 0
    PROVE  Written'
<1> SUFFICES ASSUME NEW n \in DOMAIN owed', owed'[n].kind = "DIAL"  PROVE owed'[n].token # 0
  BY DEF Written
<1>1. owed'[n] = cmd \/ \E o \in DOMAIN owed : owed'[n] = owed[o] BY PlacingGrows
<1> QED BY <1>1 DEF Written

LEMMA WrittenKept ==
    ASSUME DInv, Shifts \/ Lists
    PROVE  Written'
<1>0. IInv /\ Written /\ Table BY DEF DInv
<1>1. CASE Shifts
  <2>1. PICK u, T : \E cmd \in Command : Shift(u, T, Told(Sent, cmd)) /\ LiveDial(u, cmd) /\ Placing(cmd)
    BY <1>1 DEF Shifts
  <2>2. PICK cmd \in Command : Shift(u, T, Told(Sent, cmd)) /\ LiveDial(u, cmd) /\ Placing(cmd)
    BY <2>1
  <2>3. ASSUME cmd.kind = "DIAL"  PROVE cmd.token # 0
    <3>1. PICK s \in SlotOf(u, cmd.token) : TRUE BY <2>2, <2>3 DEF LiveDial
    <3>2. Goes(m, u, T, Slot) /\ Fit(u) BY <2>2 DEF Shift, Well
    <3>3. s \in SlotOf(m, cmd.token) BY <3>1, <3>2, DialsGo
    <3>4. Tokens(m) BY <1>0 DEF Table, Sane, Knows
    <3> QED BY <3>3, <3>4 DEF SlotOf, Tokens
  <2> QED BY <1>0, <2>2, <2>3, WrittenStays
<1>2. CASE Lists
  <2>1. Placing(Silence) BY <1>2 DEF Lists
  <2>2. Silence \in Command /\ Silence.kind # "DIAL" BY SilenceType
  <2> QED BY <1>0, <2>1, <2>2, WrittenStays
<1> QED BY <1>1, <1>2

----------------------------------------------------------------------------
(* Both beginnings have the invariant.                                     *)

(* A table with no operation at work: of a dial, at most one, its leg.     *)
Begun(v) ==
    /\ v \in Model  /\ v.mt = NoMt  /\ v.releases = <<>>
    /\ \A id \in Id : v.gen[id] # 0 /\ (v.legs[id].state # "FREE" => LegFits(v.legs[id]))
    /\ \A s \in Slot : v.txns[s].kind = "NONE" \/
          /\ s = 1  /\ v.txns[s].kind = "DIAL"  /\ v.txns[s].state = "SUCCEEDED"
          /\ v.txns[s].leg # NoRef  /\ ~v.txns[s].tomb  /\ ~v.txns[s].cleaned
          /\ v.txns[s].token # 0  /\ v.txns[s].token < v.token

LEMMA BegunTable ==
    ASSUME Begun(m), queue = <<>>, owed = <<>>,
           \A tok \in Sent : tok \in Nat /\ tok < m.token, Sided
    PROVE  Table
<1>1. \A s \in Slot : m.txns[s].kind = "NONE" \/
          /\ s = 1  /\ m.txns[s].kind = "DIAL"  /\ m.txns[s].state = "SUCCEEDED"
          /\ m.txns[s].leg # NoRef  /\ ~m.txns[s].tomb  /\ ~m.txns[s].cleaned
          /\ m.txns[s].token # 0  /\ m.txns[s].token < m.token
  BY DEF Begun
<1>2. \A s \in Slot : m.txns[s].kind = "DIAL" => FitDial(m.txns[s]) BY <1>1 DEF FitDial
<1>3. MtFits(m) BY DEF Begun, MtFits, NoMt
<1>4. Fit(m) BY <1>2, <1>3 DEF Begun, Fit
<1>5. Tidy(m) BY <1>1 DEF Tidy, Swept, Neat
<1>6. Dials(m) = {} /\ OpenDials(m) = {} BY <1>1 DEF Dials, OpenDials, IsOpen
<1>7. \A o \in Slot : ~Orphan(m.txns[o]) BY <1>1 DEF Orphan
<1>8. Tokens(m) BY <1>1, <1>6 DEF Tokens
<1>9. SentOnes(m, Sent) BY <1>1 DEF SentOnes, SlotOf
<1>10. Claims(m) = {}
  <2>1. DOMAIN m.releases = {} BY DEF Begun
  <2> QED BY <1>1, <2>1 DEF Claims
<1>11. DOMAIN queue = {} OBVIOUS
<1>12. QueueFits(m, queue, Sent) BY <1>11 DEF QueueFits
<1>13. /\ Claimed(m)  /\ Bases(m, calls)  /\ Second(m)  /\ Strays(m, calls, lost)
       /\ NoneFree(m, Dials(m))
  BY <1>6, <1>10 DEF Claimed, Bases, Second, Strays, NoneFree
<1>14. Sane(m, calls, Sent, queue, lost) BY <1>8, <1>9, <1>12, <1>13 DEF Sane, Knows
<1>15. Orphans BY <1>7 DEF Orphans
<1> QED BY <1>4, <1>5, <1>14, <1>15 DEF Table

LEMMA InitModelBegun == Begun(InitModel)
<1>1. InitModel \in Model /\ \A id \in Id : InitModel.legs[id] = NoLeg BY InitModelType
<1>2. \A id \in Id : InitModel.gen[id] # 0 BY DEF InitModel
<1>3. \A s \in Slot : InitModel.txns[s].kind = "NONE" BY DEF InitModel, NoTxn
<1>4. InitModel.mt = NoMt /\ InitModel.releases = <<>> BY DEF InitModel
<1>5. NoLeg.state = "FREE" BY DEF NoLeg
<1> QED BY <1>1, <1>2, <1>3, <1>4, <1>5 DEF Begun

LEMMA TalkingModelBegun ==
    ASSUME Id # {}
    PROVE  /\ Begun(TalkingModel)  /\ TalkingModel.token = 2
           /\ TalkingModel.legs[Min(Id)].dir = "MO"
<1> DEFINE x == Min(Id)
           leg == [slot |-> 1, state |-> "ACTIVE", dir |-> "MO", leaving |-> FALSE,
                   role |-> "ACTIVE", call |-> 1]
           txn == [NoTxn EXCEPT !.kind = "DIAL", !.token = 1, !.state = "SUCCEEDED",
                                !.leg = Ref(InitModel, x)]
           frame == [Idle EXCEPT !.state = "ACTIVE", !.id = x]
           u == InitModel
           L == [u.legs EXCEPT ![x] = leg]
           T == [u.txns EXCEPT ![1] = txn]
           n == [u EXCEPT !.shown = frame]
           o == [n EXCEPT !.token = 2]
           p == [o EXCEPT !.txns = T]
           v == [p EXCEPT !.legs = L]
<1>1. x \in Id /\ x # 0 BY CallModelAssumption, TalkingModelType
<1>2. TalkingModel = v BY DEF TalkingModel, InitModel
<1>3. Begun(u) /\ u \in Model BY InitModelBegun, InitModelType
<1>4. TalkingModel \in Model BY TalkingModelType
<1>5. /\ txn.kind = "DIAL"  /\ txn.token = 1  /\ txn.state = "SUCCEEDED"
      /\ txn.leg = Ref(InitModel, x)  /\ txn.tomb = FALSE  /\ txn.cleaned = FALSE
  BY DEF NoTxn
<1>6. Ref(InitModel, x) # NoRef BY <1>1 DEF Ref, NoRef
<1>7. LegFits(leg) /\ leg.dir = "MO" BY DEF LegFits
<1>8. u.legs \in [Id -> Leg] /\ u.txns \in [Slot -> Txn] BY <1>3 DEF Model
<1> HIDE DEF x, leg, txn, frame, u
<1>9. L[x] = leg /\ \A id \in Id \ {x} : L[id] = u.legs[id] BY <1>1, <1>8
<1>10. 1 \in Slot BY CallModelAssumption DEF Slot
<1>11. T[1] = txn /\ \A s \in Slot \ {1} : T[s] = u.txns[s] BY <1>8, <1>10
<1> HIDE DEF L, T
<1>13. v.gen = u.gen /\ v.mt = u.mt /\ v.releases = u.releases /\ v.token = 2
       /\ v.txns = T /\ v.legs = L
  BY <1>3 DEF Model
<1> HIDE DEF v, n, o, p
<1>14. \A id \in Id : v.gen[id] # 0 /\ (v.legs[id].state # "FREE" => LegFits(v.legs[id]))
  BY <1>3, <1>7, <1>9, <1>13 DEF Begun
<1>15. \A s \in Slot : v.txns[s].kind = "NONE" \/
          /\ s = 1  /\ v.txns[s].kind = "DIAL"  /\ v.txns[s].state = "SUCCEEDED"
          /\ v.txns[s].leg # NoRef  /\ ~v.txns[s].tomb  /\ ~v.txns[s].cleaned
          /\ v.txns[s].token # 0  /\ v.txns[s].token < v.token
  <2> SUFFICES ASSUME NEW s \in Slot, v.txns[s].kind # "NONE"
               PROVE  /\ s = 1  /\ v.txns[s].kind = "DIAL"  /\ v.txns[s].state = "SUCCEEDED"
                      /\ v.txns[s].leg # NoRef  /\ ~v.txns[s].tomb  /\ ~v.txns[s].cleaned
                      /\ v.txns[s].token # 0  /\ v.txns[s].token < v.token
    OBVIOUS
  <2>1. u.txns[s].kind = "NONE" \/ s = 1 BY <1>3 DEF Begun
  <2>2. s = 1 BY <1>11, <1>13, <2>1
  <2>3. v.txns[s] = txn BY <1>11, <1>13, <2>2
  <2> QED BY <1>5, <1>6, <1>13, <2>2, <2>3
<1>16. v.mt = NoMt /\ v.releases = <<>> BY <1>3, <1>13 DEF Begun
<1>17. Begun(v) BY <1>2, <1>4, <1>14, <1>15, <1>16 DEF Begun
<1> QED BY <1>2, <1>7, <1>9, <1>13, <1>17 DEF x

LEMMA InitDInv == Init => DInv
<1> SUFFICES ASSUME Init  PROVE DInv  OBVIOUS
<1>1. queue = <<>> /\ owed = <<>> BY DEF Init
<1>2. IInv BY InitIInv
<1>3. DOMAIN owed = {} BY <1>1
<1>4. Written BY <1>3 DEF Written
<1>5. Sent \subseteq {calls[c] : c \in DOMAIN calls} \ {0} BY <1>3 DEF Sent
<1>6. NoRow.state = "FREE" BY DEF NoRow
<1>7. CASE m = InitModel /\ net = [id \in Id |-> NoRow] /\ calls = <<>>
  <2>1. Begun(m) /\ InUse(m) = {} BY <1>7, InitModelBegun, InitModelType
  <2>2. DOMAIN calls = {} BY <1>7
  <2>3. Sided BY <2>1 DEF Sided
  <2>4. Sent = {} BY <1>5, <2>2
  <2>5. Table BY <1>1, <2>1, <2>3, <2>4, BegunTable
  <2>6. \A st : st # "FREE" => On(net, st) = {} BY <1>6, <1>7 DEF On
  <2>7. Busy(net) = {} BY <1>6, <1>7 DEF Busy
  <2>8. NetFit BY <2>6, <2>7 DEF NetFit
  <2> QED BY <1>2, <1>4, <2>5, <2>8 DEF DInv
<1>8. CASE /\ "talking" \in Starts  /\ m = TalkingModel  /\ calls = <<1>>
           /\ net = [id \in Id |-> IF id = Min(Id)
                                   THEN [state |-> "ACTIVE", dir |-> "MO", call |-> 1] ELSE NoRow]
  <2> DEFINE x == Min(Id)
             row == [state |-> "ACTIVE", dir |-> "MO", call |-> 1]
  <2>0. Id # {} BY <1>8, CallServiceAssumption
  <2>1. /\ x \in Id  /\ InUse(m) = {x}  /\ m.legs[x].call = 1  /\ m.legs[x].dir = "MO"
        /\ Begun(m)  /\ m.token = 2
    BY <1>8, <2>0, TalkingModelType, TalkingModelBegun
  <2>2. \A id \in Id : net[id] = IF id = x THEN row ELSE NoRow BY <1>8
  <2> HIDE DEF x
  <2>3. row.state = "ACTIVE" /\ row.dir = "MO" /\ row.call = 1 OBVIOUS
  <2> HIDE DEF row
  <2>4. DOMAIN calls = {1} /\ calls[1] = 1 BY <1>8
  <2>5. Side(1) = "MO" BY <2>4 DEF Side
  <2>6. Sided BY <2>1, <2>5 DEF Sided
  <2>7. Sent \subseteq {1} BY <1>5, <2>4
  <2>8. Table BY <1>1, <2>1, <2>6, <2>7, BegunTable
  <2>9. Busy(net) = {x} BY <1>6, <2>1, <2>2, <2>3 DEF Busy
  <2>10. net[x] = row BY <2>1, <2>2
  <2>11. \A st : On(net, st) \subseteq Busy(net) \/ st = "FREE" BY DEF On, Busy
  <2>12. \A st : st \notin {"ACTIVE", "FREE"} => On(net, st) = {}
    BY <2>3, <2>9, <2>10, <2>11 DEF On
  <2>13. /\ On(net, "ACTIVE") \subseteq {x}  /\ On(net, "DIALING") = {}
         /\ On(net, "HELD") = {}  /\ On(net, "WAITING") = {}  /\ On(net, "INCOMING") = {}
    BY <2>9, <2>11, <2>12
  <2>14. NetFit BY <2>3, <2>5, <2>9, <2>10, <2>13 DEF NetFit
  <2> QED BY <1>2, <1>4, <2>8, <2>14 DEF DInv
<1> QED BY <1>7, <1>8 DEF Init

----------------------------------------------------------------------------
(* The dials and the legs they take.                                       *)

LEMMA DInvKept ==
    ASSUME DInv, Next
    PROVE  DInv'
<1>1. Moved BY StepMoves DEF DInv
<1>2. IInv' BY <1>1, MovedKeeps DEF DInv
<1>3. Shifts \/ Lists BY StepIs
<1>4. Table' BY <1>1, <1>3, ShiftsKeep, ListsKeep
<1>5. NetFit' BY NetFitKept DEF DInv
<1>6. Written' BY <1>3, WrittenKept
<1> QED BY <1>2, <1>4, <1>5, <1>6 DEF DInv

LEMMA DInvStutters == DInv /\ UNCHANGED vars => DInv'
<1> SUFFICES ASSUME DInv, UNCHANGED vars  PROVE DInv'  OBVIOUS
<1>1. m' = m /\ queue' = queue /\ owed' = owed /\ net' = net /\ calls' = calls /\ lost' = lost
  BY DEF vars
<1>2. IInv' BY StutterKeeps DEF DInv
<1>3. Sent' = Sent BY <1>1 DEF Sent
<1>4. Sane(m', calls', Sent', queue', lost') BY <1>1, <1>3 DEF DInv, Table
<1>5. Orphans' BY <1>1 DEF DInv, Table, Orphans, Waited, Going, Busy
<1>6. Sided' BY <1>1 DEF DInv, Table, Sided, Side
<1>7. Table' BY <1>1, <1>4, <1>5, <1>6 DEF DInv, Table
<1>8. NetFit' BY <1>1, StillFits DEF DInv
<1>9. Written' BY <1>1 DEF DInv, Written
<1> QED BY <1>2, <1>7, <1>8, <1>9 DEF DInv

(* What the table says of its dials is true of the calls: who each leg is  *)
(* of, which dial waits for one, what the queue and the modem still hold   *)
(* (modem_call_model.c, bind_dial and the cancelled dials; CallService:    *)
(* every action).                                                          *)
THEOREM DInvHolds == Spec => []DInv
<1>1. DInv /\ [Next]_vars => DInv' BY DInvKept, DInvStutters
<1> QED BY <1>1, InitDInv, PTL DEF Spec

(* A dial that takes a leg takes that of its own call, or of a call whose  *)
(* dial is forgotten or has another leg (modem_call_model.c, bind_dial and *)
(* bind_tombstones): for any ids, slots, queue, requests and faults, of    *)
(* answers that come late or never and of listings that lack a row.        *)
THEOREM DialsTakeTheirCall == Spec => BindsOwnCall
<1>1. DInv /\ Next => \A s \in Slot : Binding(s)
  <2> SUFFICES ASSUME DInv, Next, NEW s \in Slot  PROVE Binding(s)  OBVIOUS
  <2>1. Moved BY StepMoves DEF DInv
  <2>2. Shifts \/ Lists BY StepIs
  <2> QED BY <2>1, <2>2, ShiftsBind, ListsBind
<1> DEFINE Bound == \A s \in Slot : LET t == m'.txns[s]  c == m'.legs[t.leg.id].call IN
         t.kind = "DIAL" /\ t.leg \notin {NoRef, m.txns[s].leg} /\ c # 0 =>
             \/ calls'[c] = t.token
             \/ /\ calls'[c] # 0
                /\ \A o \in SlotOf(m, calls'[c]) :
                      IF m.txns[o].leg = NoRef THEN m.txns[o].tomb /\ (t.tomb \/ c \in lost)
                      ELSE m.txns[o].leg # t.leg
<1>2. (\A s \in Slot : Binding(s)) => Bound BY DEF Binding
<1>3. DInv /\ [Next]_vars => [Bound]_vars BY <1>1, <1>2
<1> QED BY <1>3, DInvHolds, PTL DEF Spec, BindsOwnCall

=============================================================================
