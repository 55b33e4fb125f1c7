-------------------------- MODULE AudioGate_proofs --------------------------
(***************************************************************************)
(* Proofs about AudioGate, for a command queue of any length and any       *)
(* number of failures: the rail is never taken from under the buzzer, and  *)
(* a sound goes through a codec that plays it or that the phone knows to   *)
(* be down.                                                                *)
(***************************************************************************)
EXTENDS AudioGate, TLAPS

(* The codec is marked as down, or muted by something the phone overlooks. *)
Known == idled \/ chip.pending
Muffled == excused \cap {"route", "standby", "awake"} # {}

(* What sounds has been published, and a ring that is queued, taken or     *)
(* played holds the rail.                                                  *)
SoundInv ==
    /\ Sounds(tone, vibra, bridge) => active
    /\ \A i \in 1 .. Len(queue) : queue[i] = "ring" => owned
    /\ RailHeld

(* Parked plumbing is stopped and silent; stuck plumbing has an excuse.    *)
PlumbingInv ==
    /\ gated <=> dma = "stopped"
    /\ gated => tone = "none" /\ bridge = "no"
    /\ dma = "stuck" => "abort" \in excused

(* A codec without a clock, muted, or ready but told to idle.  The last    *)
(* conjunct is about a wake-up that finds nothing to write: it clears the  *)
(* flag of a codec that is up, or of one whose repair is pending.          *)
CodecInv ==
    /\ ~ mclk => Known
    /\ dac = "muted" => Known \/ Muffled
    /\ chip.ready /\ chip.idle => Known \/ Muffled
    /\ idled /\ ~ chip.idle /\ chip.synced => chip.pending


-----------------------------------------------------------------------------
(* The types, part by part.                                                *)
PhoneType ==
    /\ on \in BOOLEAN /\ enabled \in BOOLEAN /\ moved \in BOOLEAN /\ owned \in BOOLEAN
GateType ==
    /\ idled \in BOOLEAN /\ requested \in BOOLEAN /\ quiet \in {"no", "yes", "long"}
Dacs == {"live", "muted"}
CodecType ==
    mclk \in BOOLEAN /\ chip \in Chip /\ dac \in Dacs /\ naks \in 0 .. MaxNaks
QueueType == queue \in Seq(Commands) /\ Len(queue) <= QueueLen
PlumbingType ==
    /\ cmd \in Commands \cup {"none"}
    /\ gated \in BOOLEAN /\ dma \in {"live", "stopped", "stuck"} /\ aborts \in 0 .. MaxAborts
PlayType ==
    /\ tone \in {"none", "codec", "buzzer"} /\ vibra \in BOOLEAN
    /\ bridge \in {"no", "pending", "active"} /\ active \in BOOLEAN
HistType ==
    /\ excused \subseteq {"abort", "route", "standby", "awake"}
    /\ lapse \subseteq {"refused", "dropped", "unidle"}

Types ==
    /\ PhoneType /\ GateType /\ CodecType /\ QueueType /\ PlumbingType /\ PlayType
    /\ HistType /\ posts \in 0 .. MaxPosts

IInv == Types /\ SoundInv /\ PlumbingInv /\ CodecInv

LEMMA TypeParts == (TypeOK <=> Types) /\ (TypeOK' <=> Types')
BY DEF TypeOK, Types, PhoneType, GateType, CodecType, QueueType, PlumbingType, PlayType,
       HistType, Dacs

LEMMA TypeFrames ==
  ASSUME Types
  PROVE  /\ UNCHANGED <<on, enabled, moved, owned>> => PhoneType'
         /\ UNCHANGED <<idled, requested, quiet>> => GateType'
         /\ UNCHANGED <<codec, naks>> => CodecType'
         /\ UNCHANGED queue => QueueType'
         /\ UNCHANGED <<cmd, gated, dma, aborts>> => PlumbingType'
         /\ UNCHANGED play => PlayType'
         /\ UNCHANGED hist => HistType'
<1> USE DEF Types
<1>1. UNCHANGED <<on, enabled, moved, owned>> => PhoneType'
  BY DEF PhoneType
<1>2. UNCHANGED <<idled, requested, quiet>> => GateType'
  BY DEF GateType
<1>3. UNCHANGED <<codec, naks>> => CodecType'
  BY DEF CodecType, codec
<1>4. UNCHANGED queue => QueueType'
  BY DEF QueueType
<1>5. UNCHANGED <<cmd, gated, dma, aborts>> => PlumbingType'
  BY DEF PlumbingType
<1>6. UNCHANGED play => PlayType'
  BY DEF PlayType, play
<1>7. UNCHANGED hist => HistType'
  BY DEF HistType, hist
<1> QED
  BY <1>1, <1>2, <1>3, <1>4, <1>5, <1>6, <1>7, Zenon

-----------------------------------------------------------------------------
(* The queue: its length is bounded, and what it holds was pushed.         *)
LEMMA PushedType ==
  ASSUME NEW q \in Seq(Commands), Len(q) <= QueueLen, NEW c \in Commands
  PROVE  /\ Pushed(q, c) \in Seq(Commands) /\ Len(Pushed(q, c)) <= QueueLen
         /\ \A i \in 1 .. Len(Pushed(q, c)) :
              Pushed(q, c)[i] = c \/ \E j \in 1 .. Len(q) : q[j] = Pushed(q, c)[i]
<1>0. QueueLen \in Nat \ {0}
  BY AudioGateAssumption
<1>1. CASE Len(q) >= QueueLen
  <2>1. q # <<>>
    BY <1>0, <1>1
  <2>2. /\ Tail(q) \in Seq(Commands) /\ Len(Tail(q)) = Len(q) - 1
        /\ \A i \in 1 .. Len(q) - 1 : Tail(q)[i] = q[i + 1]
    BY <2>1
  <2>3. Pushed(q, c) = Append(Tail(q), c)
    BY <1>1 DEF Pushed
  <2> DEFINE r == Tail(q)
  <2>4. r \in Seq(Commands) /\ Len(r) = Len(q) - 1 /\ \A i \in 1 .. Len(q) - 1 : r[i] = q[i + 1]
    BY <2>2
  <2> HIDE DEF r
  <2>5. /\ Append(r, c) \in Seq(Commands) /\ Len(Append(r, c)) = Len(q)
        /\ \A i \in 1 .. Len(q) : Append(r, c)[i] = IF i = Len(q) THEN c ELSE r[i]
    BY <2>4
  <2>6. \A i \in 1 .. Len(q) : Append(r, c)[i] = c \/ \E j \in 1 .. Len(q) : q[j] = Append(r, c)[i]
    <3> SUFFICES ASSUME NEW i \in 1 .. Len(q), i # Len(q)
                 PROVE  \E j \in 1 .. Len(q) : q[j] = Append(r, c)[i]
      BY <2>5
    <3>1. i + 1 \in 1 .. Len(q) /\ i \in 1 .. Len(q) - 1
      OBVIOUS
    <3> QED
      BY <3>1, <2>4, <2>5
  <2> QED
    BY <2>3, <2>5, <2>6 DEF r
<1>2. CASE ~ (Len(q) >= QueueLen)
  <2>1. Pushed(q, c) = Append(q, c)
    BY <1>2 DEF Pushed
  <2>2. /\ Append(q, c) \in Seq(Commands) /\ Len(Append(q, c)) = Len(q) + 1
        /\ \A i \in 1 .. Len(q) + 1 : Append(q, c)[i] = IF i = Len(q) + 1 THEN c ELSE q[i]
    OBVIOUS
  <2> QED
    BY <1>0, <1>2, <2>1, <2>2
<1> QED
  BY <1>1, <1>2

(* The codec's operations: what each may leave behind.                     *)
Outcomes == [chip : Chip, dac : Dacs, ok : BOOLEAN, naks : 0 .. MaxNaks]

LEMMA WrittenFact ==
  ASSUME NEW c \in Chip, NEW n \in 0 .. MaxNaks, NEW level \in Dacs, NEW was \in Dacs,
         NEW o \in Written(c, n, level, was)
  PROVE  /\ o \in Outcomes
         /\ o.chip.idle = c.idle /\ o.chip.synced = c.synced
         /\ c.pending => o.chip.pending
         /\ o.chip.ready => c.ready
         /\ o.ok => o.chip = c /\ o.dac = level
         /\ ~ o.ok => o.dac \in {was, "muted"}
<1>0. MaxNaks \in Nat
  BY AudioGateAssumption
<1>1. PICK r \in Sequences(n) :
         o \in IF r = "ok" THEN {[chip |-> c, dac |-> level, ok |-> TRUE, naks |-> n]}
               ELSE { [chip |-> Noted(c, r), dac |-> d, ok |-> FALSE, naks |-> n + 1] :
                      d \in {was, "muted"} }
  BY Zenon DEF Written
<1>2. CASE r = "ok"
  <2>1. o = [chip |-> c, dac |-> level, ok |-> TRUE, naks |-> n]
    BY <1>1, <1>2
  <2> QED
    BY <2>1 DEF Outcomes
<1>3. CASE r # "ok"
  <2>1. n < MaxNaks /\ n + 1 \in 0 .. MaxNaks
    BY <1>0, <1>3 DEF Sequences
  <2>2. PICK d \in {was, "muted"} :
           o = [chip |-> Noted(c, r), dac |-> d, ok |-> FALSE, naks |-> n + 1]
    BY <1>1, <1>3
  <2>3. /\ Noted(c, r) \in Chip
        /\ Noted(c, r).idle = c.idle /\ Noted(c, r).synced = c.synced
        /\ c.pending => Noted(c, r).pending
        /\ Noted(c, r).ready => c.ready
    BY DEF Noted, Chip
  <2> QED
    BY <2>1, <2>2, <2>3 DEF Outcomes, Dacs
<1> QED
  BY <1>2, <1>3

LEMMA PlaybackIdleFact ==
  ASSUME NEW c \in Chip, NEW d \in Dacs, NEW n \in 0 .. MaxNaks, NEW idle \in BOOLEAN,
         NEW o \in PlaybackIdle(c, d, n, idle)
  PROVE  /\ o \in Outcomes
         /\ c.pending => o.chip.pending
         /\ o.chip.ready => o.chip.idle = idle
         /\ o.ok => o.chip.idle = idle
         /\ ~ o.ok => ~ o.chip.synced
         /\ o.ok => \/ o.chip = c /\ o.dac = d /\ c.idle = idle /\ c.synced
                    \/ o.dac = IF idle THEN "muted" ELSE "live"
<1>1. CASE c.idle = idle /\ c.synced
  <2>1. o = [chip |-> c, dac |-> d, ok |-> TRUE, naks |-> n]
    BY <1>1 DEF PlaybackIdle
  <2> QED
    BY <1>1, <2>1 DEF Outcomes
<1>2. CASE ~ (c.idle = idle /\ c.synced) /\ ~ c.ready
  <2>1. o = [chip |-> [c EXCEPT !.idle = idle, !.synced = FALSE], dac |-> d, ok |-> FALSE, naks |-> n]
    BY <1>2 DEF PlaybackIdle
  <2> QED
    BY <1>2, <2>1 DEF Outcomes, Chip
<1>3. CASE ~ (c.idle = idle /\ c.synced) /\ c.ready
  <2> DEFINE told == [c EXCEPT !.idle = idle]
             level == IF idle THEN "muted" ELSE "live"
  <2>1. PICK p \in Written(told, n, level, d) : o = [p EXCEPT !.chip.synced = p.ok]
    BY <1>3 DEF PlaybackIdle
  <2>2. told \in Chip /\ level \in Dacs /\ told.idle = idle /\ told.pending = c.pending
    BY DEF Chip, Dacs
  <2> HIDE DEF told, level
  <2>3. /\ p \in Outcomes /\ p.chip.idle = idle
        /\ c.pending => p.chip.pending
        /\ p.ok => p.dac = level
    BY <2>2, WrittenFact
  <2>4. /\ o \in Outcomes /\ o.chip.synced = p.ok /\ o.ok = p.ok /\ o.dac = p.dac
        /\ o.chip.idle = p.chip.idle /\ o.chip.pending = p.chip.pending
    BY <2>1, <2>3 DEF Outcomes, Chip
  <2> QED
    BY <2>3, <2>4 DEF level
<1> QED
  BY <1>1, <1>2, <1>3

(* A wake-up that works leaves a codec that plays, or had nothing to do.   *)
LEMMA WokenFact ==
  ASSUME NEW c \in Chip, NEW d \in Dacs, NEW n \in 0 .. MaxNaks,
         NEW o \in PlaybackIdle(c, d, n, FALSE)
  PROVE  /\ o \in Outcomes
         /\ c.pending => o.chip.pending
         /\ o.chip.ready \/ o.ok => ~ o.chip.idle
         /\ ~ o.ok => ~ o.chip.synced
         /\ o.ok => \/ o.chip = c /\ o.dac = d /\ ~ c.idle /\ c.synced
                    \/ o.dac = "live"
BY PlaybackIdleFact

LEMMA ChipInitFact ==
  ASSUME NEW c \in Chip, NEW d \in Dacs, NEW n \in 0 .. MaxNaks, NEW o \in ChipInit(c, d, n)
  PROVE  /\ o \in Outcomes
         /\ o.ok => o.chip.ready
         /\ c.ready => o.ok /\ o.chip = c /\ o.dac = d
         /\ ~ c.ready => ~ o.chip.idle
         /\ ~ o.ok => o.chip.pending /\ ~ o.chip.ready
<1>1. CASE c.ready
  <2>1. o = [chip |-> c, dac |-> d, ok |-> TRUE, naks |-> n]
    BY <1>1 DEF ChipInit
  <2> QED
    BY <1>1, <2>1 DEF Outcomes
<1>2. CASE ~ c.ready
  <2> DEFINE told == [c EXCEPT !.pending = TRUE, !.idle = FALSE]
  <2>1. PICK p \in Written(told, n, "live", d) :
           o = IF p.ok THEN [p EXCEPT !.chip.ready = TRUE, !.chip.pending = FALSE, !.chip.synced = TRUE]
                       ELSE p
    BY <1>2 DEF ChipInit
  <2>2. told \in Chip /\ told.pending /\ ~ told.idle /\ ~ told.ready
    BY <1>2 DEF Chip
  <2> HIDE DEF told
  <2>3. p \in Outcomes /\ ~ p.chip.idle /\ p.chip.pending /\ ~ p.chip.ready
    BY <2>2, WrittenFact DEF Dacs
  <2>4. CASE p.ok
    <3>1. o = [p EXCEPT !.chip.ready = TRUE, !.chip.pending = FALSE, !.chip.synced = TRUE]
      BY <2>1, <2>4
    <3> QED
      BY <1>2, <2>3, <2>4, <3>1 DEF Outcomes, Chip
  <2>5. CASE ~ p.ok
    BY <1>2, <2>1, <2>3, <2>5
  <2> QED
    BY <2>4, <2>5
<1> QED
  BY <1>1, <1>2

LEMMA RoutedFact ==
  ASSUME NEW c \in Chip, NEW d \in Dacs, NEW n \in 0 .. MaxNaks, NEW o \in Routed(c, d, n)
  PROVE  /\ o \in Outcomes
         /\ o.chip.idle = c.idle /\ o.chip.synced = c.synced
         /\ c.pending => o.chip.pending
         /\ o.chip.ready => c.ready
         /\ ~ c.ready => o.chip = c /\ o.dac = d
         /\ c.ready /\ c.idle => o.dac = "muted"
         /\ o.ok => c.ready /\ o.chip = c /\ o.dac = IF c.idle THEN "muted" ELSE "live"
<1>1. CASE ~ c.ready
  <2>1. o = [chip |-> c, dac |-> d, ok |-> FALSE, naks |-> n]
    BY <1>1 DEF Routed
  <2> QED
    BY <1>1, <2>1 DEF Outcomes
<1>2. CASE c.ready
  <2> DEFINE level == IF c.idle THEN "muted" ELSE "live"
  <2>1. o \in Written(c, n, level, level)
    BY <1>2 DEF Routed
  <2>2. level \in Dacs
    BY DEF Dacs
  <2> HIDE DEF level
  <2>3. /\ o \in Outcomes
        /\ o.chip.idle = c.idle /\ o.chip.synced = c.synced
        /\ c.pending => o.chip.pending
        /\ o.ok => o.chip = c /\ o.dac = level
        /\ ~ o.ok => o.dac \in {level, "muted"}
    BY <2>1, <2>2, WrittenFact
  <2> QED
    BY <1>2, <2>3 DEF level, Outcomes
<1> QED
  BY <1>1, <1>2

(* An init, and the route after one that worked.                           *)
LEMMA BringUpFact ==
  ASSUME NEW c \in Chip, NEW d \in Dacs, NEW n \in 0 .. MaxNaks, NEW o \in BringUp(c, d, n)
  PROVE  /\ o \in Outcomes
         /\ ~ o.ok => o.chip.pending /\ ~ o.chip.ready
         /\ c.ready /\ c.idle => o.dac = "muted"
         /\ o.ok /\ ~ (c.ready /\ c.idle) => ~ o.chip.idle
         /\ o.ok => o.chip.pending \/ o.dac = "live" \/ (c.ready /\ c.idle)
<1>1. PICK p \in ChipInit(c, d, n) : o \in IF p.ok THEN Reconciled(p) ELSE {p}
  BY Zenon DEF BringUp
<1>2. /\ p \in Outcomes
      /\ p.ok => p.chip.ready
      /\ c.ready => p.ok /\ p.chip = c /\ p.dac = d
      /\ ~ c.ready => ~ p.chip.idle
      /\ ~ p.ok => p.chip.pending /\ ~ p.chip.ready
  BY ChipInitFact
<1>3. CASE ~ p.ok
  BY <1>1, <1>2, <1>3
<1>4. CASE p.ok
  <2>1. PICK r \in Routed(p.chip, p.dac, p.naks) :
           o = [r EXCEPT !.chip.pending = r.chip.pending \/ ~ r.ok, !.ok = p.ok]
    BY <1>1, <1>4 DEF Reconciled
  <2>2. p.chip \in Chip /\ p.dac \in Dacs /\ p.naks \in 0 .. MaxNaks
    BY <1>2 DEF Outcomes
  <2>3. /\ r \in Outcomes /\ r.chip.idle = p.chip.idle
        /\ p.chip.ready /\ p.chip.idle => r.dac = "muted"
        /\ r.ok => r.dac = IF p.chip.idle THEN "muted" ELSE "live"
    BY <2>1, <2>2, RoutedFact
  <2>4. /\ o \in Outcomes /\ o.ok /\ o.dac = r.dac /\ o.chip.idle = r.chip.idle
        /\ o.chip.pending = (r.chip.pending \/ ~ r.ok)
    BY <1>4, <2>1, <2>3 DEF Outcomes, Chip
  <2> QED
    BY <1>2, <1>4, <2>3, <2>4
<1> QED
  BY <1>3, <1>4

LEMMA PostsFact ==
  ASSUME Types, posts < MaxPosts, posts' = posts + 1
  PROVE  posts' \in 0 .. MaxPosts
BY AudioGateAssumption DEF Types

LEMMA ApplyFact ==
  ASSUME NEW o \in Outcomes, NEW reasons, Apply(o, reasons)
  PROVE  /\ chip' = o.chip /\ chip' \in Chip /\ dac' = o.dac /\ dac' \in Dacs
         /\ naks' \in 0 .. MaxNaks
         /\ excused' \subseteq reasons
         /\ "abort" \in reasons => "abort" \in excused'
         /\ dac' = "muted" => excused' = reasons
BY DEF Apply, Outcomes, Dacs

-----------------------------------------------------------------------------
(* What a step that leaves a part alone does to its invariant.             *)
LEMMA SoundFrame ==
  ASSUME SoundInv, UNCHANGED <<queue, cmd, play>>, owned => owned'
  PROVE  SoundInv'
BY DEF SoundInv, RailHeld, Sounds, play

LEMMA PushedFrame ==
  ASSUME QueueType, SoundInv, NEW c \in Commands, queue' = Pushed(queue, c),
         UNCHANGED <<cmd, play>>, owned => owned', c = "ring" => owned'
  PROVE  SoundInv' /\ QueueType'
<1>1. /\ queue' \in Seq(Commands) /\ Len(queue') <= QueueLen
      /\ \A i \in 1 .. Len(queue') : queue'[i] = c \/ \E j \in 1 .. Len(queue) : queue[j] = queue'[i]
  BY PushedType DEF QueueType
<1>2. \A i \in 1 .. Len(queue') : queue'[i] = "ring" => owned'
  BY <1>1 DEF SoundInv
<1> QED
  BY <1>1, <1>2 DEF SoundInv, RailHeld, Sounds, play, QueueType

LEMMA PlumbingFrame ==
  ASSUME PlumbingInv, UNCHANGED core1, "abort" \in excused => "abort" \in excused'
  PROVE  PlumbingInv'
BY DEF PlumbingInv, core1, play

LEMMA CodecFrame ==
  ASSUME CodecInv, UNCHANGED <<idled, codec>>, Muffled => Muffled'
  PROVE  CodecInv'
BY DEF CodecInv, Known, codec

(* The prologue of a sound.                                                *)
LEMMA UnidledFact ==
  ASSUME Types, CodecInv, Unidled
  PROVE  /\ CodecInv' /\ GateType' /\ CodecType' /\ HistType'
         /\ "abort" \in excused => "abort" \in excused'
<1>0. requested' = FALSE /\ quiet' = "no"
  BY DEF Unidled
<1>1. CASE idled
  <2>1. PICK o \in PlaybackIdle(chip, dac, naks, FALSE) :
           /\ mclk' = TRUE /\ Apply(o, excused) /\ idled' = StillIdled(o)
           /\ lapse' = IF o.ok THEN {} ELSE {"unidle"}
    BY <1>1 DEF Unidled
  <2>2. chip \in Chip /\ dac \in Dacs /\ naks \in 0 .. MaxNaks
    BY DEF Types, CodecType
  <2>3. /\ o \in Outcomes
        /\ chip.pending => o.chip.pending
        /\ o.chip.ready => ~ o.chip.idle
        /\ o.ok => ~ o.chip.idle
        /\ ~ o.ok => ~ o.chip.synced
        /\ o.ok => \/ o.chip = chip /\ o.dac = dac /\ ~ chip.idle /\ chip.synced
                   \/ o.dac = "live"
    BY <2>1, <2>2, WokenFact
  <2>4. idled' = ~ o.ok /\ o.ok \in BOOLEAN
    BY <2>1, <2>3 DEF StillIdled, Outcomes
  <2>5. /\ chip' = o.chip /\ chip' \in Chip /\ dac' = o.dac /\ dac' \in Dacs
        /\ naks' \in 0 .. MaxNaks
        /\ excused' \subseteq excused
        /\ "abort" \in excused => "abort" \in excused'
    BY <2>1, <2>3, ApplyFact
  <2>6. CodecInv'
    BY <1>1, <2>1, <2>3, <2>4, <2>5 DEF CodecInv, Known
  <2>7. HistType' /\ GateType' /\ CodecType'
    BY <1>0, <2>1, <2>4, <2>5 DEF Types, HistType, GateType, CodecType
  <2> QED
    BY <2>5, <2>6, <2>7
<1>2. CASE ~ idled
  <2>1. lapse' = {} /\ UNCHANGED <<idled, codec, naks, excused>>
    BY <1>2 DEF Unidled
  <2>2. CodecInv'
    BY <2>1, CodecFrame DEF Muffled
  <2>3. HistType' /\ GateType' /\ CodecType'
    BY <1>0, <2>1, TypeFrames DEF Types, HistType, GateType
  <2> QED
    BY <2>1, <2>2, <2>3
<1> QED
  BY <1>1, <1>2 DEF Types, GateType

(* The codec is brought up, or put to standby.                             *)
LEMMA CodecUpFact ==
  ASSUME Types, CodecInv, NEW o \in BringUp(chip, dac, naks), CodecUp(o)
  PROVE  /\ CodecInv' /\ GateType' /\ CodecType'
         /\ excused' \subseteq {"abort", "route", "standby", "awake"}
         /\ "abort" \in excused => "abort" \in excused'
<1> DEFINE reasons == excused \cup IF chip.ready /\ chip.idle THEN {"awake"} ELSE {}
<1>1. chip \in Chip /\ dac \in Dacs /\ naks \in 0 .. MaxNaks
  BY DEF Types, CodecType
<1>2. /\ o \in Outcomes
      /\ ~ o.ok => o.chip.pending /\ ~ o.chip.ready
      /\ chip.ready /\ chip.idle => o.dac = "muted"
      /\ o.ok /\ ~ (chip.ready /\ chip.idle) => ~ o.chip.idle
      /\ o.ok => o.chip.pending \/ o.dac = "live" \/ (chip.ready /\ chip.idle)
  BY <1>1, BringUpFact
<1>3. Apply(o, reasons) /\ mclk' = o.ok /\ o.ok \in BOOLEAN
  BY <1>2 DEF CodecUp, Outcomes
<1>4. /\ reasons \subseteq {"abort", "route", "standby", "awake"} /\ excused \subseteq reasons
      /\ chip.ready /\ chip.idle => "awake" \in reasons
  BY DEF Types, HistType
<1> HIDE DEF reasons
<1>5. /\ chip' = o.chip /\ chip' \in Chip /\ dac' = o.dac /\ dac' \in Dacs
      /\ naks' \in 0 .. MaxNaks /\ excused' \subseteq reasons
      /\ "abort" \in reasons => "abort" \in excused'
      /\ dac' = "muted" => excused' = reasons
  BY <1>2, <1>3, ApplyFact
<1>6. o.ok => idled' = FALSE /\ GateType'
  BY DEF CodecUp, GateForgets, GateType
<1>7. ~ o.ok => UNCHANGED <<idled, requested, quiet>>
  BY DEF CodecUp
<1>8. chip.ready /\ chip.idle => Muffled'
  BY <1>2, <1>4, <1>5 DEF Muffled
<1>9. CodecInv'
  BY <1>2, <1>3, <1>5, <1>6, <1>8 DEF CodecInv, Known
<1>10. GateType' /\ CodecType'
  BY <1>3, <1>5, <1>6, <1>7, TypeFrames DEF CodecType
<1> QED
  BY <1>4, <1>5, <1>9, <1>10

LEMMA StandbyFact ==
  ASSUME Types, CodecInv, Standby, UNCHANGED <<idled, mclk>>
  PROVE  /\ CodecInv' /\ CodecType'
         /\ excused' \subseteq {"abort", "route", "standby", "awake"}
         /\ "abort" \in excused => "abort" \in excused'
<1>1. CASE chip.ready
  <2> DEFINE reasons == excused \cup {"standby"}
  <2>1. PICK o \in Written(chip, naks, "muted", dac) : Apply([o EXCEPT !.chip.ready = FALSE], reasons)
    BY <1>1 DEF Standby
  <2>2. chip \in Chip /\ dac \in Dacs /\ naks \in 0 .. MaxNaks /\ "muted" \in Dacs
    BY DEF Types, CodecType, Dacs
  <2>3. /\ o \in Outcomes /\ o.chip.idle = chip.idle /\ o.chip.synced = chip.synced
        /\ chip.pending => o.chip.pending
    BY <2>2, WrittenFact
  <2> DEFINE down == [o EXCEPT !.chip.ready = FALSE]
  <2>4. /\ down \in Outcomes /\ ~ down.chip.ready
        /\ down.chip.idle = chip.idle /\ down.chip.synced = chip.synced
        /\ chip.pending => down.chip.pending
    BY <2>3 DEF Outcomes, Chip
  <2>5. Apply(down, reasons)
    BY <2>1
  <2>6. reasons \subseteq {"abort", "route", "standby", "awake"} /\ excused \subseteq reasons
        /\ "standby" \in reasons
    BY DEF Types, HistType
  <2> HIDE DEF down, reasons
  <2>7. /\ chip' = down.chip /\ chip' \in Chip /\ dac' \in Dacs
        /\ naks' \in 0 .. MaxNaks /\ excused' \subseteq reasons
        /\ "abort" \in reasons => "abort" \in excused'
        /\ dac' = "muted" => excused' = reasons
    BY <2>4, <2>5, ApplyFact
  <2>8. dac' = "muted" => Muffled'
    BY <2>6, <2>7 DEF Muffled
  <2>9. CodecInv'
    BY <2>4, <2>7, <2>8 DEF CodecInv, Known
  <2>10. CodecType'
    BY <2>7 DEF Types, CodecType
  <2> QED
    BY <2>6, <2>7, <2>9, <2>10
<1>2. CASE ~ chip.ready
  <2>1. UNCHANGED <<chip, dac, naks, excused>>
    BY <1>2 DEF Standby
  <2>2. CodecInv' /\ CodecType'
    BY <2>1, CodecFrame, TypeFrames DEF codec, Muffled
  <2> QED
    BY <2>1, <2>2 DEF Types, HistType
<1> QED
  BY <1>1, <1>2

-----------------------------------------------------------------------------
LEMMA InitInvariant == Init => IInv
<1> SUFFICES ASSUME Init PROVE IInv
  OBVIOUS
<1>1. QueueType /\ posts \in 0 .. MaxPosts /\ naks \in 0 .. MaxNaks /\ aborts \in 0 .. MaxAborts
  BY AudioGateAssumption DEF Init, QueueType
<1>2. Types
  BY <1>1 DEF Init, Types, PhoneType, GateType, CodecType, PlumbingType, PlayType, HistType,
     Chip, Dacs
<1>3. SoundInv /\ PlumbingInv /\ CodecInv
  BY DEF Init, SoundInv, RailHeld, Sounds, PlumbingInv, CodecInv, Known, Muffled
<1> QED
  BY <1>2, <1>3 DEF IInv

LEMMA PostStep ==
  ASSUME IInv, NEW c \in {"click", "ring", "buzz", "stop"}, Post(c)
  PROVE  IInv'
<1> USE DEF IInv
<1>1. c \in Commands
  BY DEF Commands, Starters
<1>2. /\ CodecInv' /\ GateType' /\ CodecType' /\ HistType'
      /\ "abort" \in excused => "abort" \in excused'
  <2>1. CASE c \in Starters
    BY <2>1, UnidledFact DEF Post
  <2>2. CASE c \notin Starters
    <3>1. lapse' = lapse \cup Dropped /\ UNCHANGED <<idled, requested, quiet, codec, naks, excused>>
      BY <2>2 DEF Post
    <3>2. CodecInv'
      BY <3>1, CodecFrame DEF Muffled
    <3>3. GateType' /\ CodecType' /\ HistType'
      BY <3>1, TypeFrames DEF Types, HistType, Dropped
    <3> QED
      BY <3>1, <3>2, <3>3
  <2> QED
    BY <2>1, <2>2
<1>3. SoundInv' /\ QueueType'
  BY <1>1, PushedFrame DEF Post, core1, Types
<1>4. PlumbingInv'
  BY <1>2, PlumbingFrame DEF Post
<1>5. /\ PhoneType' /\ PlumbingType' /\ PlayType' /\ posts' \in 0 .. MaxPosts
  BY PostsFact, TypeFrames DEF Post, core1, Types, PhoneType
<1> QED
  BY <1>2, <1>3, <1>4, <1>5 DEF Types

LEMMA SetEnabledStep ==
  ASSUME IInv, NEW b \in BOOLEAN, SetEnabled(b)
  PROVE  IInv'
<1> USE DEF IInv
<1>1. /\ PhoneType' /\ PlumbingType' /\ PlayType' /\ posts' \in 0 .. MaxPosts
  BY PostsFact, TypeFrames DEF SetEnabled, core1, Types, PhoneType
<1>2. CASE enabled /\ ~ b
  <2>1. Unidled /\ queue' = Pushed(queue, "ungate")
    BY <1>2 DEF SetEnabled
  <2>2. /\ CodecInv' /\ GateType' /\ CodecType' /\ HistType'
        /\ "abort" \in excused => "abort" \in excused'
    BY <2>1, UnidledFact
  <2>3. SoundInv' /\ QueueType'
    BY <2>1, PushedFrame DEF SetEnabled, core1, Commands, Types
  <2>4. PlumbingInv'
    BY <2>2, PlumbingFrame DEF SetEnabled
  <2> QED
    BY <1>1, <2>2, <2>3, <2>4 DEF Types
<1>3. CASE ~ (enabled /\ ~ b)
  <2>1. requested' = FALSE /\ quiet' = "no" /\ UNCHANGED <<idled, codec, naks, hist, queue>>
    BY <1>3 DEF SetEnabled
  <2>2. CodecInv' /\ SoundInv' /\ PlumbingInv'
    BY <2>1, CodecFrame, SoundFrame, PlumbingFrame DEF SetEnabled, core1, hist, Muffled
  <2>3. CodecType' /\ HistType' /\ QueueType' /\ GateType'
    BY <2>1, TypeFrames DEF Types, GateType
  <2> QED
    BY <1>1, <2>2, <2>3 DEF Types
<1> QED
  BY <1>2, <1>3

LEMMA CallFollowStep ==
  ASSUME IInv, NEW c \in {"call", "hangup"}, CallFollow(c)
  PROVE  IInv'
<1> USE DEF IInv
<1>1. /\ PhoneType' /\ PlumbingType' /\ PlayType' /\ posts' \in 0 .. MaxPosts
  BY PostsFact, TypeFrames DEF CallFollow, core1, Types, PhoneType
<1>2. SoundInv' /\ QueueType'
  BY PushedFrame DEF CallFollow, core1, Commands, Starters, Types
<1>3. chip \in Chip /\ dac \in Dacs /\ naks \in 0 .. MaxNaks
  BY DEF Types, CodecType
<1> DEFINE After(o) == IF c = "call" /\ idled
                       THEN PlaybackIdle(o.chip, o.dac, o.naks, FALSE) ELSE {o}
           Reasons(o) == excused \cup IF o.ok \/ ~ chip.ready THEN {} ELSE {"route"}
           Followed(p) == IF c = "call"
                          THEN /\ idled' = (idled /\ StillIdled(p)) /\ mclk' = (mclk \/ idled)
                               /\ requested' = FALSE /\ quiet' = "no"
                               /\ lapse' = IF idled /\ ~ p.ok THEN {"unidle"} ELSE {}
                          ELSE /\ lapse' = lapse \cup Dropped
                               /\ UNCHANGED <<idled, mclk, requested, quiet>>
<1>4. PICK o \in Routed(chip, dac, naks) : \E p \in After(o) : Apply(p, Reasons(o)) /\ Followed(p)
  BY DEF CallFollow
<1>5. PICK p \in After(o) : Apply(p, Reasons(o)) /\ Followed(p)
  BY <1>4
<1>6. /\ o \in Outcomes
      /\ o.chip.idle = chip.idle /\ o.chip.synced = chip.synced
      /\ chip.pending => o.chip.pending
      /\ o.chip.ready => chip.ready
      /\ ~ chip.ready => o.chip = chip /\ o.dac = dac
      /\ o.ok => o.dac = IF chip.idle THEN "muted" ELSE "live"
      /\ chip.ready /\ chip.idle => o.dac = "muted"
      /\ o.chip \in Chip /\ o.dac \in Dacs /\ o.naks \in 0 .. MaxNaks /\ o.ok \in BOOLEAN
  BY <1>3, RoutedFact DEF Outcomes
<1>7. /\ Reasons(o) \subseteq {"abort", "route", "standby", "awake"}
      /\ excused \subseteq Reasons(o)
      /\ ~ o.ok /\ chip.ready => "route" \in Reasons(o)
  BY DEF Types, HistType
<1>8. CASE c = "call" /\ idled
  <2>1. /\ p \in Outcomes
        /\ o.chip.pending => p.chip.pending
        /\ p.chip.ready \/ p.ok => ~ p.chip.idle
        /\ ~ p.ok => ~ p.chip.synced
        /\ p.ok => \/ p.chip = o.chip /\ p.dac = o.dac /\ ~ o.chip.idle /\ o.chip.synced
                   \/ p.dac = "live"
    <3>1. p \in PlaybackIdle(o.chip, o.dac, o.naks, FALSE)
      BY <1>5, <1>8
    <3>2. o.chip \in Chip /\ o.dac \in Dacs /\ o.naks \in 0 .. MaxNaks
      BY <1>6
    <3> QED
      BY <3>1, <3>2, WokenFact, Zenon
  <2>2. /\ idled' = ~ p.ok /\ p.ok \in BOOLEAN /\ mclk' = TRUE
        /\ requested' = FALSE /\ quiet' = "no"
        /\ lapse' = IF ~ p.ok THEN {"unidle"} ELSE {}
    BY <1>5, <1>8, <2>1, <1>3 DEF StillIdled, Outcomes, Types, CodecType
  <2>3. Apply(p, Reasons(o))
    BY <1>5
  <2> HIDE DEF Reasons
  <2>4. /\ chip' = p.chip /\ chip' \in Chip /\ dac' = p.dac /\ dac' \in Dacs
        /\ naks' \in 0 .. MaxNaks /\ excused' \subseteq Reasons(o)
        /\ "abort" \in Reasons(o) => "abort" \in excused'
    BY <2>1, <2>3, ApplyFact
  <2>5. CodecInv'
    BY <1>6, <1>8, <2>1, <2>2, <2>4 DEF CodecInv, Known
  <2>6. GateType' /\ CodecType' /\ HistType'
    BY <1>7, <2>2, <2>4 DEF GateType, CodecType, HistType
  <2>7. PlumbingInv'
    BY <1>7, <2>4, PlumbingFrame DEF CallFollow
  <2> QED
    BY <1>1, <1>2, <2>5, <2>6, <2>7 DEF Types
<1>9. CASE ~ (c = "call" /\ idled)
  <2>1. p = o
    BY <1>5, <1>9
  <2>2. UNCHANGED <<idled, mclk>> /\ GateType'
    BY <1>5, <1>9 DEF Types, GateType, CodecType
  <2>3. lapse' \subseteq {"refused", "dropped", "unidle"}
    BY <1>5, <1>9 DEF Types, HistType, Dropped
  <2>4. Apply(o, Reasons(o))
    BY <1>5, <2>1
  <2> HIDE DEF Reasons
  <2>5. /\ chip' = o.chip /\ chip' \in Chip /\ dac' = o.dac /\ dac' \in Dacs
        /\ naks' \in 0 .. MaxNaks /\ excused' \subseteq Reasons(o)
        /\ "abort" \in Reasons(o) => "abort" \in excused'
        /\ dac' = "muted" => excused' = Reasons(o)
    BY <1>6, <2>4, ApplyFact
  <2>6. dac' = "muted" /\ Muffled => Muffled'
    BY <1>7, <2>5 DEF Muffled
  <2>7. chip.ready /\ ~ o.ok /\ dac' = "muted" => Muffled'
    BY <1>7, <2>5 DEF Muffled
  <2>8. CodecInv'
    <3>1. Known => Known'
      BY <1>6, <2>2, <2>5 DEF Known
    <3>2. dac' = "muted" => Known' \/ Muffled'
      BY <1>6, <2>5, <2>6, <2>7, <3>1 DEF CodecInv
    <3>3. chip'.ready /\ chip'.idle => Known' \/ Muffled'
      BY <1>6, <2>5, <3>2
    <3>4. /\ ~ mclk' => Known'
          /\ idled' /\ ~ chip'.idle /\ chip'.synced => chip'.pending
      BY <1>6, <2>2, <2>5, <3>1 DEF CodecInv
    <3> QED
      BY <3>2, <3>3, <3>4 DEF CodecInv
  <2>9. CodecType' /\ HistType'
    BY <1>7, <2>2, <2>3, <2>5 DEF CodecType, HistType, Types
  <2>10. PlumbingInv'
    BY <1>7, <2>5, PlumbingFrame DEF CallFollow
  <2> QED
    BY <1>1, <1>2, <2>2, <2>8, <2>9, <2>10 DEF Types
<1> QED
  BY <1>8, <1>9

LEMMA SwitchOnStep == IInv /\ SwitchOn => IInv'
<1> SUFFICES ASSUME IInv, SwitchOn PROVE IInv'
  OBVIOUS
<1> USE DEF IInv
<1>1. /\ CodecInv' /\ GateType' /\ CodecType'
      /\ excused' \subseteq {"abort", "route", "standby", "awake"}
      /\ "abort" \in excused => "abort" \in excused'
  BY CodecUpFact DEF SwitchOn
<1>2. SoundInv' /\ PlumbingInv' /\ QueueType' /\ PlumbingType' /\ PlayType'
  BY <1>1, SoundFrame, PlumbingFrame, TypeFrames DEF SwitchOn, core1
<1>3. PhoneType' /\ HistType' /\ posts' \in 0 .. MaxPosts
  BY <1>1, PostsFact DEF SwitchOn, Types, PhoneType, HistType
<1> QED
  BY <1>1, <1>2, <1>3 DEF Types

LEMMA ChirpStep == IInv /\ Chirp => IInv'
<1> SUFFICES ASSUME IInv, Chirp PROVE IInv'
  OBVIOUS
<1> USE DEF IInv
<1>1. PICK o \in BringUp(chip, dac, naks) :
         CodecUp(o) /\ queue' = IF o.ok THEN Pushed(queue, "click") ELSE queue
  BY DEF Chirp
<1>2. /\ CodecInv' /\ GateType' /\ CodecType'
      /\ excused' \subseteq {"abort", "route", "standby", "awake"}
      /\ "abort" \in excused => "abort" \in excused'
  BY <1>1, CodecUpFact
<1>3. UNCHANGED <<cmd, play, owned>>
  BY DEF Chirp, core1
<1>4. SoundInv' /\ QueueType'
  <2>1. CASE o.ok
    BY <1>1, <1>3, <2>1, PushedFrame DEF Commands, Starters, Types
  <2>2. CASE ~ o.ok
    BY <1>1, <1>3, <2>2, SoundFrame, TypeFrames
  <2> QED
    BY <2>1, <2>2
<1>5. PlumbingInv' /\ PlumbingType' /\ PlayType' /\ PhoneType'
  BY <1>2, PlumbingFrame, TypeFrames DEF Chirp, core1
<1>6. HistType' /\ posts' \in 0 .. MaxPosts
  BY <1>2, PostsFact DEF Chirp, Types, HistType, Dropped
<1> QED
  BY <1>2, <1>4, <1>5, <1>6 DEF Types

LEMMA SwitchOffStep == IInv /\ SwitchOff => IInv'
<1> SUFFICES ASSUME IInv, SwitchOff PROVE IInv'
  OBVIOUS
<1> USE DEF IInv
<1>1. /\ CodecInv' /\ CodecType'
      /\ excused' \subseteq {"abort", "route", "standby", "awake"}
      /\ "abort" \in excused => "abort" \in excused'
  BY StandbyFact DEF SwitchOff
<1>2. SoundInv' /\ QueueType'
  <2> DEFINE first == Pushed(queue, "stop")
  <2>1. /\ first \in Seq(Commands) /\ Len(first) <= QueueLen
        /\ \A i \in 1 .. Len(first) :
             first[i] = "stop" \/ \E j \in 1 .. Len(queue) : queue[j] = first[i]
    BY PushedType DEF Types, QueueType, Commands
  <2>2. queue' = Pushed(first, "hangup")
    BY DEF SwitchOff
  <2> HIDE DEF first
  <2>3. /\ queue' \in Seq(Commands) /\ Len(queue') <= QueueLen
        /\ \A i \in 1 .. Len(queue') :
             queue'[i] = "hangup" \/ \E j \in 1 .. Len(first) : first[j] = queue'[i]
    BY <2>1, <2>2, PushedType DEF Commands
  <2>4. \A i \in 1 .. Len(queue') : queue'[i] = "ring" => owned'
    BY <2>1, <2>3 DEF SwitchOff, SoundInv
  <2> QED
    BY <2>3, <2>4 DEF SwitchOff, core1, SoundInv, RailHeld, Sounds, play, QueueType
<1>3. PlumbingInv' /\ PlumbingType' /\ PlayType' /\ GateType'
  BY <1>1, PlumbingFrame, TypeFrames DEF SwitchOff, core1
<1>4. HistType' /\ posts' \in 0 .. MaxPosts /\ PhoneType'
  BY <1>1 DEF SwitchOff, Types, HistType, PhoneType
<1> QED
  BY <1>1, <1>2, <1>3, <1>4 DEF Types

LEMMA ChargeEndStep == IInv /\ ChargeEnd => IInv'
<1> SUFFICES ASSUME IInv, ChargeEnd PROVE IInv'
  OBVIOUS
<1> USE DEF IInv
<1>1. /\ CodecInv' /\ CodecType'
      /\ excused' \subseteq {"abort", "route", "standby", "awake"}
      /\ "abort" \in excused => "abort" \in excused'
  BY StandbyFact DEF ChargeEnd, core0
<1>2. /\ SoundInv' /\ PlumbingInv' /\ QueueType' /\ PlumbingType' /\ PlayType'
      /\ GateType' /\ PhoneType'
  BY <1>1, SoundFrame, PlumbingFrame, TypeFrames DEF ChargeEnd, core1, core0
<1>3. HistType' /\ posts' \in 0 .. MaxPosts
  BY <1>1 DEF ChargeEnd, Types, HistType
<1> QED
  BY <1>1, <1>2, <1>3 DEF Types

LEMMA RecoverStep == IInv /\ Recover => IInv'
<1> SUFFICES ASSUME IInv, Recover PROVE IInv'
  OBVIOUS
<1> USE DEF IInv
<1>1. chip \in Chip /\ dac \in Dacs /\ naks \in 0 .. MaxNaks
  BY DEF Types, CodecType
<1> DEFINE reasons == excused \cup IF chip.ready /\ chip.idle THEN {"awake"} ELSE {}
<1>2. /\ reasons \subseteq {"abort", "route", "standby", "awake"} /\ excused \subseteq reasons
      /\ excused \subseteq {"abort", "route", "standby", "awake"}
      /\ chip.ready /\ chip.idle => "awake" \in reasons
  BY DEF Types, HistType
<1>3. PICK o \in ChipInit(chip, dac, naks) :
         IF o.ok
         THEN \E p \in Routed(o.chip, o.dac, o.naks) :
                /\ Apply([p EXCEPT !.chip.pending = ~ p.ok], reasons)
                /\ mclk' = TRUE /\ GateForgets
         ELSE /\ Apply(o, excused)
              /\ mclk' = (bridge = "active" \/ active)
              /\ UNCHANGED <<idled, requested, quiet>>
  BY DEF Recover
<1> HIDE DEF reasons
<1>4. /\ o \in Outcomes
      /\ o.ok => o.chip.ready
      /\ chip.ready => o.ok /\ o.chip = chip /\ o.dac = dac
      /\ ~ chip.ready => ~ o.chip.idle
      /\ ~ o.ok => o.chip.pending /\ ~ o.chip.ready
  BY <1>1, ChipInitFact
<1>5. /\ CodecInv' /\ GateType' /\ CodecType'
      /\ excused' \subseteq {"abort", "route", "standby", "awake"}
      /\ "abort" \in excused => "abort" \in excused'
  <2>1. CASE o.ok
    <3>1. PICK p \in Routed(o.chip, o.dac, o.naks) :
             /\ Apply([p EXCEPT !.chip.pending = ~ p.ok], reasons)
             /\ mclk' = TRUE /\ GateForgets
      BY <1>3, <2>1
    <3>2. o.chip \in Chip /\ o.dac \in Dacs /\ o.naks \in 0 .. MaxNaks
      BY <1>4 DEF Outcomes
    <3>3. /\ p \in Outcomes /\ p.chip.idle = o.chip.idle
          /\ o.chip.ready /\ o.chip.idle => p.dac = "muted"
          /\ p.ok => p.dac = IF o.chip.idle THEN "muted" ELSE "live"
      BY <3>2, RoutedFact
    <3> DEFINE r == [p EXCEPT !.chip.pending = ~ p.ok]
    <3>4. /\ r \in Outcomes /\ r.dac = p.dac /\ r.chip.idle = p.chip.idle
          /\ r.chip.pending = ~ p.ok
      BY <3>3 DEF Outcomes, Chip
    <3>5. Apply(r, reasons)
      BY <3>1
    <3> HIDE DEF r
    <3>6. /\ chip' = r.chip /\ chip' \in Chip /\ dac' = r.dac /\ dac' \in Dacs
          /\ naks' \in 0 .. MaxNaks /\ excused' \subseteq reasons
          /\ "abort" \in reasons => "abort" \in excused'
          /\ dac' = "muted" => excused' = reasons
      BY <3>4, <3>5, ApplyFact
    <3>7. idled' = FALSE /\ mclk' = TRUE /\ GateType'
      BY <3>1 DEF GateForgets, GateType
    <3>8. chip.ready /\ chip.idle => Muffled'
      BY <1>2, <1>4, <2>1, <3>3, <3>4, <3>6 DEF Muffled
    <3>9. o.chip.idle => chip.ready /\ chip.idle
      BY <1>4
    <3>10. CodecInv'
      BY <3>3, <3>4, <3>6, <3>7, <3>8, <3>9 DEF CodecInv, Known
    <3> QED
      BY <1>2, <3>6, <3>7, <3>10 DEF CodecType
  <2>2. CASE ~ o.ok
    <3>1. /\ Apply(o, excused) /\ mclk' \in BOOLEAN
          /\ UNCHANGED <<idled, requested, quiet>>
      BY <1>3, <2>2 DEF Types, PlayType
    <3>2. /\ chip' = o.chip /\ chip' \in Chip /\ dac' \in Dacs
          /\ naks' \in 0 .. MaxNaks /\ excused' \subseteq excused
          /\ "abort" \in excused => "abort" \in excused'
      BY <1>4, <3>1, ApplyFact
    <3>3. CodecInv'
      BY <1>4, <2>2, <3>2 DEF CodecInv, Known
    <3> QED
      BY <1>2, <3>1, <3>2, <3>3, TypeFrames DEF CodecType
  <2> QED
    BY <2>1, <2>2
<1>6. /\ SoundInv' /\ PlumbingInv' /\ QueueType' /\ PlumbingType' /\ PlayType' /\ PhoneType'
  BY <1>5, SoundFrame, PlumbingFrame, TypeFrames DEF Recover, core1
<1>7. HistType' /\ posts' \in 0 .. MaxPosts
  BY <1>5 DEF Recover, Types, HistType
<1> QED
  BY <1>5, <1>6, <1>7 DEF Types

-----------------------------------------------------------------------------
(* Core 0's tick.  The rail is released only in silence, with nothing      *)
(* queued, so what is pushed in the same tick is all that is queued.       *)
LEMMA RailTickFact ==
  ASSUME Types, SoundInv, RailTick, UNCHANGED <<cmd, play>>,
         \/ UNCHANGED queue
         \/ queue' = Pushed(queue, "gate")
  PROVE  SoundInv' /\ QueueType' /\ owned' \in BOOLEAN
<1>1. "gate" \in Commands /\ owned \in BOOLEAN
  BY DEF Commands, Types, PhoneType
<1>2. CASE owned' = owned
  <2>1. CASE UNCHANGED queue
    BY <1>1, <1>2, <2>1, SoundFrame, TypeFrames
  <2>2. CASE queue' = Pushed(queue, "gate")
    BY <1>1, <1>2, <2>2, PushedFrame DEF Types
  <2> QED
    BY <2>1, <2>2
<1>3. CASE owned' # owned
  <2>1. MayRelease /\ owned' = FALSE
    BY <1>3 DEF RailTick
  <2>2. queue = <<>> /\ cmd = "none" /\ ~ active
    BY <2>1 DEF MayRelease
  <2>3. QueueType' /\ \A i \in 1 .. Len(queue') : queue'[i] = "ring" => owned'
    <3>1. CASE UNCHANGED queue
      BY <2>2, <3>1, TypeFrames
    <3>2. CASE queue' = Pushed(queue, "gate")
      <4>1. /\ queue' \in Seq(Commands) /\ Len(queue') <= QueueLen
            /\ \A i \in 1 .. Len(queue') :
                 queue'[i] = "gate" \/ \E j \in 1 .. Len(queue) : queue[j] = queue'[i]
        BY <1>1, <3>2, PushedType DEF Types, QueueType
      <4> QED
        BY <2>2, <4>1 DEF QueueType
    <3> QED
      BY <3>1, <3>2
  <2>4. tone' # "buzzer" /\ cmd' # "ring" /\ ~ Sounds(tone', vibra', bridge')
    BY <2>2 DEF SoundInv, Sounds, play
  <2> QED
    BY <2>1, <2>3, <2>4 DEF SoundInv, RailHeld
<1> QED
  BY <1>2, <1>3

LEMMA GateTickStep == IInv /\ GateTick => IInv'
<1> SUFFICES ASSUME IInv, GateTick PROVE IInv'
  OBVIOUS
<1> USE DEF IInv
<1>1. RailTick /\ UNCHANGED <<on, enabled, core1, aborts, posts>>
  BY DEF GateTick
<1>2. UNCHANGED queue \/ queue' = Pushed(queue, "gate")
  BY DEF GateTick, GateSounds, GateListens, GateRequests, GateRaced, GateCloses, GateWaits
<1>3. SoundInv' /\ QueueType' /\ owned' \in BOOLEAN
  BY <1>1, <1>2, RailTickFact DEF core1
<1>4. /\ CodecInv' /\ GateType' /\ CodecType' /\ HistType' /\ moved' \in BOOLEAN
      /\ "abort" \in excused => "abort" \in excused'
  <2>1. CASE GateCloses
    <3>1. PICK o \in PlaybackIdle(chip, dac, naks, TRUE) : Apply(o, excused \ {"awake"})
      BY <2>1 DEF GateCloses
    <3>2. chip \in Chip /\ dac \in Dacs /\ naks \in 0 .. MaxNaks
      BY DEF Types, CodecType
    <3>3. /\ o \in Outcomes
          /\ o.ok => o.chip.idle
          /\ ~ o.ok => ~ o.chip.synced
      BY <3>1, <3>2, PlaybackIdleFact
    <3>4. /\ chip' = o.chip /\ chip' \in Chip /\ dac' \in Dacs
          /\ naks' \in 0 .. MaxNaks /\ excused' \subseteq excused \ {"awake"}
          /\ "abort" \in excused \ {"awake"} => "abort" \in excused'
      BY <3>1, <3>3, ApplyFact
    <3>5. /\ mclk' = FALSE /\ idled' = TRUE /\ requested' = FALSE /\ lapse' = {}
          /\ UNCHANGED <<moved, quiet>>
      BY <2>1 DEF GateCloses
    <3>6. CodecInv'
      BY <3>3, <3>4, <3>5 DEF CodecInv, Known
    <3>7. GateType' /\ CodecType' /\ HistType' /\ moved' \in BOOLEAN
      BY <3>4, <3>5 DEF Types, PhoneType, GateType, CodecType, HistType
    <3> QED
      BY <3>4, <3>6, <3>7
  <2>2. CASE GateSounds \/ GateListens \/ GateRequests \/ GateRaced \/ GateWaits
    <3>1. UNCHANGED <<idled, codec, naks, excused>>
      BY <2>2 DEF GateSounds, GateListens, GateRequests, GateRaced, GateWaits, hist
    <3>2. CodecInv' /\ CodecType'
      BY <3>1, CodecFrame, TypeFrames DEF Muffled
    <3>3. GateType' /\ moved' \in BOOLEAN /\ lapse' \in {lapse, {}}
      BY <2>2, <3>1 DEF GateSounds, GateListens, GateRequests, GateRaced, GateWaits, hist,
         Types, GateType, PhoneType
    <3>4. HistType'
      BY <3>1, <3>3 DEF Types, HistType
    <3> QED
      BY <3>1, <3>2, <3>3, <3>4
  <2> QED
    BY <2>1, <2>2 DEF GateTick
<1>5. PlumbingInv'
  BY <1>1, <1>4, PlumbingFrame
<1>6. PlumbingType' /\ PlayType' /\ PhoneType' /\ posts' \in 0 .. MaxPosts
  BY <1>1, <1>3, <1>4, TypeFrames DEF core1, Types, PhoneType
<1> QED
  BY <1>3, <1>4, <1>5, <1>6 DEF Types

LEMMA QuietLongStep == IInv /\ QuietLong => IInv'
<1> SUFFICES ASSUME IInv, QuietLong PROVE IInv'
  OBVIOUS
<1> USE DEF IInv
<1>1. SoundInv' /\ PlumbingInv' /\ CodecInv'
  BY SoundFrame, PlumbingFrame, CodecFrame DEF QuietLong, core1, hist, Muffled
<1>2. /\ PhoneType' /\ CodecType' /\ QueueType' /\ PlumbingType' /\ PlayType' /\ HistType'
      /\ posts' \in 0 .. MaxPosts
  BY TypeFrames DEF QuietLong, core1, Types
<1>3. GateType'
  BY DEF QuietLong, Types, GateType
<1> QED
  BY <1>1, <1>2, <1>3 DEF Types

-----------------------------------------------------------------------------
(* Core 1.                                                                 *)
LEMMA PopStep == IInv /\ Pop => IInv'
<1> SUFFICES ASSUME IInv, Pop PROVE IInv'
  OBVIOUS
<1> USE DEF IInv
<1>1. queue \in Seq(Commands) /\ Len(queue) <= QueueLen /\ queue # <<>>
  BY DEF Pop, Types, QueueType
<1>2. /\ Tail(queue) \in Seq(Commands) /\ Len(Tail(queue)) = Len(queue) - 1
      /\ \A i \in 1 .. Len(queue) - 1 : Tail(queue)[i] = queue[i + 1]
      /\ Head(queue) \in Commands /\ Head(queue) = queue[1] /\ 1 \in 1 .. Len(queue)
  BY <1>1
<1>3. cmd' = Head(queue) /\ queue' = Tail(queue) /\ UNCHANGED <<core0, play>>
  BY DEF Pop
<1>4. QueueType'
  BY <1>1, <1>2, <1>3, AudioGateAssumption DEF QueueType
<1>5. SoundInv'
  <2>1. ASSUME NEW i \in 1 .. Len(queue'), queue'[i] = "ring" PROVE owned'
    <3>1. i \in 1 .. Len(queue) - 1 /\ i + 1 \in 1 .. Len(queue) /\ queue[i + 1] = "ring"
      BY <1>1, <1>2, <1>3, <2>1
    <3> QED
      BY <1>3, <3>1 DEF SoundInv, core0
  <2>2. cmd' = "ring" => owned'
    BY <1>2, <1>3 DEF SoundInv, core0
  <2> QED
    BY <1>3, <2>1, <2>2 DEF SoundInv, RailHeld, Sounds, play, core0
<1>6. PlumbingInv' /\ CodecInv'
  BY CodecFrame DEF Pop, PlumbingInv, core0, play, hist, Muffled
<1>7. PhoneType' /\ GateType' /\ CodecType' /\ PlayType' /\ HistType'
  BY TypeFrames DEF Pop, core0
<1>8. PlumbingType' /\ posts' \in 0 .. MaxPosts
  BY <1>2 DEF Pop, Types, PlumbingType
<1> QED
  BY <1>4, <1>5, <1>6, <1>7, <1>8 DEF Types

LEMMA DispatchSoundStep == IInv /\ DispatchSound => IInv'
<1> SUFFICES ASSUME IInv, DispatchSound PROVE IInv'
  OBVIOUS
<1> USE DEF IInv
<1>1. /\ cmd' = "none" /\ gated' = (gated /\ ~ Resumes)
      /\ dma' = IF Resumes THEN "live" ELSE dma
      /\ Play /\ active' = Sounds(tone', vibra', bridge')
      /\ UNCHANGED <<queue, owned, aborts, excused, posts>>
  BY DEF DispatchSound, hist
<1>2. PlayType'
  BY <1>1 DEF Types, PlayType, Play, PlayTone, Sounds
<1>3. tone' = "buzzer" => tone = "buzzer" \/ cmd = "ring"
  BY <1>1 DEF Play, PlayTone
<1>4. SoundInv'
  BY <1>1, <1>3 DEF SoundInv, RailHeld, Sounds
<1>5. PlumbingInv'
  <2>1. gated \in BOOLEAN /\ Resumes \in BOOLEAN
    BY DEF Types, PlumbingType, Resumes
  <2>2. CASE Resumes
    BY <1>1, <2>2, <2>1 DEF PlumbingInv
  <2>3. CASE ~ Resumes
    <3>1. gated => cmd \notin {"click", "ring", "call"}
      BY <2>3 DEF Resumes, Starters
    <3>2. gated => tone' = "none" /\ bridge' = "no"
      BY <1>1, <3>1 DEF Play, PlayTone, PlumbingInv
    <3> QED
      BY <1>1, <2>1, <2>3, <3>2 DEF PlumbingInv
  <2> QED
    BY <2>2, <2>3
<1>6. CodecInv' /\ QueueType' /\ GateType' /\ CodecType' /\ HistType'
  BY CodecFrame, TypeFrames DEF DispatchSound, hist, Muffled
<1>7. PlumbingType' /\ PhoneType' /\ posts' \in 0 .. MaxPosts
  BY DEF DispatchSound, Types, PlumbingType, PhoneType, Resumes
<1> QED
  BY <1>2, <1>4, <1>5, <1>6, <1>7 DEF Types

LEMMA DispatchUngateStep == IInv /\ DispatchUngate => IInv'
<1> SUFFICES ASSUME IInv, DispatchUngate PROVE IInv'
  OBVIOUS
<1> USE DEF IInv
<1>1. SoundInv'
  BY DEF DispatchUngate, SoundInv, RailHeld, Sounds, play
<1>2. PlumbingInv'
  BY DEF DispatchUngate, PlumbingInv, Resumes, play, hist
<1>3. CodecInv' /\ QueueType' /\ GateType' /\ CodecType' /\ HistType' /\ PlayType'
  BY CodecFrame, TypeFrames DEF DispatchUngate, hist, Muffled
<1>4. PlumbingType' /\ PhoneType' /\ posts' \in 0 .. MaxPosts
  BY DEF DispatchUngate, Types, PlumbingType, PhoneType, Resumes
<1> QED
  BY <1>1, <1>2, <1>3, <1>4 DEF Types

LEMMA DispatchGateStep == IInv /\ DispatchGate => IInv'
<1> SUFFICES ASSUME IInv, DispatchGate PROVE IInv'
  OBVIOUS
<1> USE DEF IInv
<1>1. SoundInv'
  BY DEF DispatchGate, SoundInv, RailHeld, Sounds, play, core0
<1>2. /\ PlumbingInv' /\ gated' \in BOOLEAN /\ dma' \in {"live", "stopped", "stuck"}
      /\ aborts' \in 0 .. MaxAborts
      /\ excused' \subseteq {"abort", "route", "standby", "awake"}
      /\ Muffled => Muffled'
  <2>1. CASE ~ gated /\ ~ active /\ bridge # "active"
    <3>1. Quiesced /\ gated' = (dma' = "stopped") /\ UNCHANGED <<tone, bridge>>
      BY <2>1 DEF DispatchGate, play
    <3>2. tone = "none" /\ bridge = "no"
      BY <2>1 DEF SoundInv, Sounds
    <3>3. aborts' \in 0 .. MaxAborts
      BY <3>1, AudioGateAssumption DEF Quiesced, Types, PlumbingType
    <3>4. /\ dma' \in {"stopped", "stuck"}
          /\ dma' = "stuck" => "abort" \in excused'
          /\ excused' \subseteq {"abort", "route", "standby", "awake"}
          /\ Muffled => Muffled'
      BY <3>1 DEF Quiesced, Types, HistType, Muffled
    <3> QED
      BY <3>1, <3>2, <3>3, <3>4 DEF PlumbingInv
  <2>2. CASE ~ (~ gated /\ ~ active /\ bridge # "active")
    BY <2>2 DEF DispatchGate, PlumbingInv, play, Types, PlumbingType, HistType, Muffled
  <2> QED
    BY <2>1, <2>2
<1>3. CodecInv'
  BY <1>2, CodecFrame DEF DispatchGate, core0
<1>4. PhoneType' /\ GateType' /\ CodecType' /\ QueueType' /\ PlayType'
  BY TypeFrames DEF DispatchGate, core0
<1>5. PlumbingType' /\ posts' \in 0 .. MaxPosts
  BY <1>2 DEF DispatchGate, Types, PlumbingType
<1>6. HistType'
  BY <1>2 DEF DispatchGate, Types, HistType
<1> QED
  BY <1>1, <1>2, <1>3, <1>4, <1>5, <1>6 DEF Types

LEMMA ServiceTickStep == IInv /\ ServiceTick => IInv'
<1> SUFFICES ASSUME IInv, ServiceTick PROVE IInv'
  OBVIOUS
<1> USE DEF IInv
<1>1. bridge' \in {"no", "pending", "active"}
  BY DEF ServiceTick, Types, PlayType
<1>2. SoundInv'
  BY DEF ServiceTick, SoundInv, RailHeld, core0
<1>3. bridge = "no" => bridge' = "no"
  BY DEF ServiceTick
<1>4. PlumbingInv'
  BY <1>3 DEF ServiceTick, PlumbingInv, hist
<1>5. CodecInv' /\ PhoneType' /\ GateType' /\ CodecType' /\ QueueType' /\ HistType'
  BY CodecFrame, TypeFrames DEF ServiceTick, core0, hist, Muffled
<1>6. PlumbingType' /\ PlayType' /\ posts' \in 0 .. MaxPosts
  BY <1>1 DEF ServiceTick, Types, PlumbingType, PlayType, Sounds
<1> QED
  BY <1>2, <1>4, <1>5, <1>6 DEF Types

(* The DMA's interrupt, and the flash's restart of it.                     *)
LEMMA ToneEndStep == IInv /\ ToneEnd => IInv'
<1> SUFFICES ASSUME IInv, ToneEnd PROVE IInv'
  OBVIOUS
<1> USE DEF IInv
<1>1. SoundInv' /\ PlumbingInv' /\ CodecInv'
  BY CodecFrame DEF ToneEnd, SoundInv, RailHeld, Sounds, PlumbingInv, core0, hist, Muffled
<1>2. PhoneType' /\ GateType' /\ CodecType' /\ QueueType' /\ PlumbingType' /\ HistType'
  BY TypeFrames DEF ToneEnd, core0
<1>3. PlayType' /\ posts' \in 0 .. MaxPosts
  BY DEF ToneEnd, Types, PlayType
<1> QED
  BY <1>1, <1>2, <1>3 DEF Types

LEMMA ParkStep == IInv /\ Park => IInv'
<1> SUFFICES ASSUME IInv, Park PROVE IInv'
  OBVIOUS
<1> USE DEF IInv
<1>1. SoundInv' /\ PlumbingInv' /\ CodecInv'
  BY CodecFrame DEF Park, SoundInv, RailHeld, Sounds, PlumbingInv, core0, play, Muffled
<1>2. PhoneType' /\ GateType' /\ CodecType' /\ QueueType' /\ PlayType'
  BY TypeFrames DEF Park, core0
<1>3. PlumbingType' /\ HistType' /\ posts' \in 0 .. MaxPosts
  BY DEF Park, Types, PlumbingType, HistType
<1> QED
  BY <1>1, <1>2, <1>3 DEF Types

LEMMA StutterStep == IInv /\ UNCHANGED vars => IInv'
<1> SUFFICES ASSUME IInv, UNCHANGED vars PROVE IInv'
  OBVIOUS
<1> USE DEF IInv
<1>1. SoundInv' /\ PlumbingInv' /\ CodecInv'
  BY SoundFrame, PlumbingFrame, CodecFrame DEF vars, core0, core1, hist, Muffled
<1>2. Types'
  BY TypeFrames DEF vars, core0, core1, Types
<1> QED
  BY <1>1, <1>2

-----------------------------------------------------------------------------
LEMMA InvariantHolds == Spec => []IInv
<1>1. IInv /\ [Next]_vars => IInv'
  <2> SUFFICES ASSUME IInv, [Next]_vars PROVE IInv'
    OBVIOUS
  <2>1. CASE User
    BY <2>1, PostStep, CallFollowStep, SetEnabledStep, SwitchOnStep, SwitchOffStep, ChirpStep,
       ChargeEndStep DEF User
  <2>2. CASE CoreOne
    BY <2>2, PopStep, DispatchSoundStep, DispatchUngateStep, DispatchGateStep, ServiceTickStep
       DEF CoreOne
  <2>3. CASE Recover \/ GateTick \/ QuietLong \/ ToneEnd \/ Park
    BY <2>3, RecoverStep, GateTickStep, QuietLongStep, ToneEndStep, ParkStep
  <2>4. CASE UNCHANGED vars
    BY <2>4, StutterStep
  <2> QED
    BY <2>1, <2>2, <2>3, <2>4 DEF Next
<1> QED
  BY <1>1, InitInvariant, PTL DEF Spec

(* While the buzzer plays, or core 1 holds the command that starts it, the *)
(* shared rail is not given back, however the posts, the drops of the      *)
(* queue, the two cores' ticks and the release interleave.                 *)
THEOREM RailIsHeld == Spec => []RailHeld
<1>1. IInv => RailHeld
  BY DEF IInv, SoundInv
<1> QED
  BY <1>1, InvariantHolds, PTL

(* A tone or a call that goes through the codec is heard, or the phone     *)
(* knows that the codec is down and will try again, or one of the listed   *)
(* excuses stands: whatever I2C sequences fail, and when they do.          *)
THEOREM SoundIsAudible == Spec => []Audible
<1>1. IInv => Audible
  <2> SUFFICES ASSUME IInv PROVE Audible
    OBVIOUS
  <2>1. TypeOK
    BY TypeParts DEF IInv
  <2>2. ASSUME ThroughCodec, ~ idled, ~ chip.pending, excused = {}
        PROVE  Heard
    <3>1. mclk /\ dac = "live"
      <4>1. ~ Known /\ ~ Muffled
        BY <2>2 DEF Known, Muffled
      <4> QED
        BY <4>1 DEF IInv, CodecInv, Types, CodecType, Dacs
    <3>2. ~ gated
      BY <2>2 DEF ThroughCodec, IInv, PlumbingInv
    <3>3. dma = "live"
      BY <2>2, <3>2 DEF IInv, PlumbingInv, Types, PlumbingType
    <3> QED
      BY <3>1, <3>3 DEF Heard
  <2> QED
    BY <2>1, <2>2 DEF Audible
<1> QED
  BY <1>1, InvariantHolds, PTL
=============================================================================
