---------------------- MODULE ChargeSupervisor_proofs ----------------------
(***************************************************************************)
(* Proofs about ChargeSupervisor, for any capacity and any number of        *)
(* faults, resets and insertions of the cable: a confirmed stop keeps the   *)
(* charger off, a FULL earns one pulse of /CE, a detach releases the latch, *)
(* and a FULL rests on a charge that the gauge counted.                     *)
(***************************************************************************)
EXTENDS ChargeSupervisor, TLAPS

(* A readback that is known is of the pin as it is.                        *)
CtlOK(c) == c \in Control /\ (c.read # "unknown" => c.read = Reading(c.ce))

(* A record the journal accepts.  Arm takes the FULL that it spends.       *)
RecOK(r) == r \in Record /\ Valid(r) /\ (r.latch = "rearm" => ~r.lastFull)

Latched(r) == r.latch \in {"full", "safety"}
Armed(r)   == r.latch = "rearm"
Spent(r)   == r.used /\ ~r.lastFull

(* The services w and the record d on flash: what is not queued is in the  *)
(* store, what is not dirty on flash; the supervisor's inhibit has a latch *)
(* that is on flash, or is being released; a maintenance has its latch.    *)
Journal(w, d) ==
    /\ w.unread => ~w.queued /\ ~w.rel /\ ~w.rest /\ w.maint = "idle"
    /\ w.unread \/ w.queued \/ w.unit = w.rec
    /\ w.dirty \/ d = w.unit

Inhibit(w, d) ==
    ~w.unread =>
        /\ "sup" \in w.ctl.owners =>
              \/ w.rec.latch = "none" /\ w.rel
              \/ Armed(w.rec)
              \/ Latched(w.rec) /\ Latched(w.unit) /\ Latched(d)
        /\ Armed(w.rec) => w.maint \in {"waitInhibit", "hold"}
        /\ w.maint = "hold" => Armed(w.rec) /\ Armed(w.unit) /\ Armed(d)
        /\ w.rest => w.maint = "idle"

Services0(w, d) ==
    /\ w \in Services /\ CtlOK(w.ctl)
    /\ RecOK(w.rec) /\ RecOK(w.unit) /\ RecOK(d)

Good(w, d) == Services0(w, d) /\ Journal(w, d) /\ Inhibit(w, d)

(* The supervisor's model x beside the services.                           *)
ModelInv(x, w) ==
    /\ x \in Model
    /\ w.unread \/ w.rest => x = NoModel
    /\ x.phase = "stopping" /\ w.maint = "idle" => Latched(w.rec)
    /\ ~x.phys /\ ~w.rest /\ ~w.unread /\ w.maint = "idle" =>
          w.rec.latch = "none" \/ w.failed

(* A confirmed stop is latched wherever a reset could look for it.         *)
StopInv(st, w, d) ==
    st => /\ "sup" \in w.ctl.owners /\ ~w.ctl.ce
          /\ Latched(w.unit) /\ Latched(d) /\ (w.unread \/ Latched(w.rec))

(* A FULL that was spent authorizes nothing more, on flash either.         *)
SpentInv(sp, x, w, d) ==
    /\ sp \in {"no", "yes"}
    /\ sp = "yes" => /\ Spent(w.unit) /\ Spent(d) /\ (w.unread \/ Spent(w.rec))
                     /\ w.maint = "idle" => ~x.full

(* The pack generations are fewer than the resets.                         *)
Behind(b, n) == IF b = None THEN n # 0 ELSE b # n
GaugeInv(k, n, e, res) ==
    /\ k \in Learner /\ e \in Packs /\ n \in Sessions /\ n <= res
    /\ e <= k.pack
    /\ k.pack + (IF Behind(k.bound, n) THEN 1 ELSE 0) <= res
    /\ k.bound # None => k.bound <= n

World ==
    /\ plug \in BOOLEAN /\ bq \in {"active", "full", "fault"}
    /\ acr \in Acr /\ looked \in BOOLEAN /\ stopped \in BOOLEAN
    /\ early \in BOOLEAN /\ lapsed \in BOOLEAN
    /\ faults \in 0..MaxFaults /\ resets \in 0..MaxResets /\ plugs \in 0..MaxPlugs

(* What the gauge owes to the bases that are in use.                       *)
Owing(d) == DOMAIN d \subseteq Basis /\ d \in [DOMAIN d -> Nat]

IInv ==
    /\ World /\ Good(s, media) /\ ModelInv(m, s)
    /\ StopInv(stopped, s, media) /\ SpentInv(spent, m, s, media)
    /\ GaugeInv(l, session, lm, resets) /\ Owing(due)
    /\ DetachReleases

-----------------------------------------------------------------------------
(* The arbiter of /CE.                                                     *)

(* The inhibit of "sup" with /CE raised.                                   *)
Off(c) == "sup" \in c.owners /\ ~c.ce

LEMMA ApplyTargetOK ==
  ASSUME NEW c \in Control, NEW io \in Io
  PROVE  LET d == ApplyTarget(c, io) IN
         CtlOK(d) /\ d.owners = c.owners /\ (Off(c) => Off(d))
BY DEF Control, Io, ApplyTarget, CtlOK, Requested, Reading, Off

LEMMA ControlPollOK ==
  ASSUME NEW c, CtlOK(c), NEW io \in Io
  PROVE  LET d == ControlPoll(c, io) IN
         CtlOK(d) /\ d.owners = c.owners /\ (Off(c) => Off(d))
<1> DEFINE e == [c EXCEPT !.read = IF io = "noRead" THEN "unknown" ELSE Reading(c.ce)]
<1>1. CtlOK(e) /\ e.owners = c.owners /\ e.ce = c.ce
  BY DEF CtlOK, Control, Reading
<1>2. LET d == ApplyTarget(e, io) IN CtlOK(d) /\ d.owners = e.owners /\ (Off(e) => Off(d))
  BY <1>1, ApplyTargetOK DEF CtlOK
<1> QED
  BY <1>1, <1>2 DEF ControlPoll, Off

(* What the request of an owner makes of the arbiter c.                    *)
Inhibited(c, who, inhibit, d) ==
    /\ CtlOK(d)
    /\ d.owners = IF inhibit THEN c.owners \cup {who} ELSE c.owners \ {who}
    /\ Off(c) /\ (who = "sup" => inhibit) => Off(d)

LEMMA SetInhibitOK ==
  \A c : \A io \in Io, who \in {"sup", "dbg"}, inhibit \in BOOLEAN :
      CtlOK(c) => Inhibited(c, who, inhibit, SetInhibit(c, who, inhibit, io))
<1> SUFFICES ASSUME NEW c, NEW io \in Io, NEW who \in {"sup", "dbg"},
                    NEW inhibit \in BOOLEAN, CtlOK(c)
             PROVE  Inhibited(c, who, inhibit, SetInhibit(c, who, inhibit, io))
  OBVIOUS
<1> DEFINE e == [c EXCEPT !.owners = IF inhibit THEN @ \cup {who} ELSE @ \ {who}]
<1>1. /\ CtlOK(e)
      /\ e.owners = IF inhibit THEN c.owners \cup {who} ELSE c.owners \ {who}
      /\ e.ce = c.ce
  BY DEF CtlOK, Control, Reading
<1>2. LET d == ApplyTarget(e, io) IN CtlOK(d) /\ d.owners = e.owners /\ (Off(e) => Off(d))
  BY <1>1, ApplyTargetOK DEF CtlOK
<1>3. SetInhibit(c, who, inhibit, io) = e \/ SetInhibit(c, who, inhibit, io) = ApplyTarget(e, io)
  BY DEF SetInhibit
<1>4. Off(c) /\ (who = "sup" => inhibit) => Off(e)
  BY <1>1 DEF Off
<1> QED
  BY <1>1, <1>2, <1>3, <1>4 DEF Inhibited

-----------------------------------------------------------------------------
(* The journal.                                                            *)

(* All but the control of /CE, and a release that is being retried.        *)
SameJournal(w, v) ==
    /\ v.rec = w.rec /\ v.queued = w.queued /\ v.unit = w.unit /\ v.dirty = w.dirty
    /\ v.rest = w.rest /\ v.maint = w.maint /\ v.unread = w.unread /\ v.failed = w.failed

LEMMA WithControl ==
  ASSUME NEW w, NEW d, Good(w, d), NEW c, CtlOK(c),
         c.owners = w.ctl.owners
  PROVE  LET v == [w EXCEPT !.ctl = c] IN
         Good(v, d) /\ SameJournal(w, v) /\ v.rel = w.rel /\ v.ctl = c
<1> DEFINE v == [w EXCEPT !.ctl = c]
<1>1. v \in Services /\ v.ctl = c /\ SameJournal(w, v) /\ v.rel = w.rel
  BY DEF Good, Services0, Services, SameJournal, CtlOK
<1>2. Services0(v, d) /\ Journal(v, d) /\ Inhibit(v, d)
  BY <1>1 DEF Good, Services0, Journal, Inhibit, SameJournal
<1> QED
  BY <1>1, <1>2 DEF Good

LEMMA TryPersistGood ==
  ASSUME NEW w, NEW d, Good(w, d), ~w.unread
  PROVE  LET v == TryPersist(w) IN
         /\ Good(v, d) /\ ~v.queued /\ v.unit = v.rec
         /\ v.rec = w.rec /\ v.ctl = w.ctl /\ v.rel = w.rel /\ v.rest = w.rest
         /\ v.maint = w.maint /\ v.unread = w.unread /\ v.failed = w.failed
<1> DEFINE v == TryPersist(w)
<1>1. v \in Services
  BY DEF Good, Services0, Services, TryPersist, RecOK
<1>2. /\ ~v.queued /\ v.unit = v.rec
      /\ v.rec = w.rec /\ v.ctl = w.ctl /\ v.rel = w.rel /\ v.rest = w.rest
      /\ v.maint = w.maint /\ v.unread = w.unread /\ v.failed = w.failed
  BY DEF Good, Services0, Services, TryPersist, RecOK, Journal
<1>3. v.unit = w.unit \/ v.unit = w.rec
  BY DEF Good, Services0, Services, TryPersist
<1>4. v.dirty \/ d = v.unit
  BY DEF Good, Services0, Services, TryPersist, Journal
<1>5. Services0(v, d) /\ Journal(v, d)
  BY <1>1, <1>2, <1>3, <1>4 DEF Good, Services0, Journal
<1>6. Inhibit(v, d)
  BY <1>2, <1>3 DEF Good, Inhibit
<1> QED
  BY <1>2, <1>5, <1>6 DEF Good

(* What service_control_preflight does to a journal that is whole.         *)
LEMMA PreflightGood ==
  ASSUME NEW w, NEW d, Good(w, d), ~w.unread, NEW io \in Io
  PROVE  LET v == ControlPreflight(w, io) IN
         /\ Good(v, d) /\ SameJournal(w, v) /\ (v.rel => w.rel)
         /\ "sup" \in v.ctl.owners => v.rec.latch # "none" \/ (~w.rel /\ v = w)
         /\ Off(w.ctl) /\ w.rec.latch # "none" => Off(v.ctl)
         /\ w.rel /\ w.rec.latch = "none" => "sup" \notin v.ctl.owners
<1> DEFINE inhibit == w.rec.latch # "none"
           c == SetInhibit(w.ctl, "sup", inhibit, io)
           v == ControlPreflight(w, io)
           there == /\ ("sup" \in w.ctl.owners) = inhibit
                    /\ Requested(w.ctl) = ~inhibit
                    /\ Confirmed(w.ctl)
           skip == IF inhibit THEN ~Durable(w) ELSE ~w.rel
           u == [w EXCEPT !.ctl = IF there THEN @ ELSE c,
                          !.rel = @ /\ ~((there \/ Confirmed(c)) /\ ~inhibit)]
<1>1. v = IF skip THEN w ELSE u
  BY DEF ControlPreflight
<1>2. w \in Services /\ w.ctl \in Control /\ CtlOK(w.ctl)
  BY DEF Good, Services0, Services
<1>3. /\ CtlOK(c)
      /\ c.owners = IF inhibit THEN w.ctl.owners \cup {"sup"} ELSE w.ctl.owners \ {"sup"}
      /\ Off(w.ctl) /\ inhibit => Off(c)
  <2>1. PICK b \in BOOLEAN : b = inhibit
    OBVIOUS
  <2>2. Inhibited(w.ctl, "sup", b, SetInhibit(w.ctl, "sup", b, io))
    BY <1>2, SetInhibitOK
  <2> QED
    BY <2>1, <2>2 DEF Inhibited
<1>4. CASE skip
  BY <1>1, <1>4 DEF SameJournal, Off, Good, Inhibit, Services0, Services
<1>5. CASE ~skip
  <2>1. v = u
    BY <1>1, <1>5
  <2> HIDE DEF v
  <2>2. u \in Services /\ SameJournal(w, u) /\ (u.rel => w.rel)
    <3>1. u.ctl \in Control
      BY <1>2, <1>3 DEF CtlOK, Services
    <3> QED
      BY <1>2, <1>3 DEF CtlOK, Services, SameJournal
  <2>3. u.ctl = IF there THEN w.ctl ELSE c
    BY <1>2 DEF Services
  <2>4. CtlOK(u.ctl) /\ (("sup" \in u.ctl.owners) = inhibit)
    BY <2>3, <1>2, <1>3
  <2>5. Off(w.ctl) /\ inhibit => Off(u.ctl)
    BY <2>3, <1>3
  <2>6. inhibit => ~w.queued /\ ~w.dirty
    BY <1>5 DEF Durable
  <2>7. Services0(u, d) /\ Journal(u, d)
    BY <2>2, <2>4 DEF Good, Services0, Journal, SameJournal
  <2>8. Inhibit(u, d)
    <3>1. inhibit => w.unit = w.rec /\ d = w.unit
      BY <2>6 DEF Good, Journal
    <3>2. inhibit => Armed(w.rec) \/ Latched(w.rec)
      BY DEF Good, Services0, RecOK, Record, Armed, Latched
    <3> QED
      BY <2>2, <2>4, <3>1, <3>2 DEF Good, Inhibit, SameJournal
  <2> QED
    BY <2>1, <2>2, <2>4, <2>5, <2>7, <2>8 DEF Good, SameJournal, v
<1> QED
  BY <1>4, <1>5

(* All but the record that is to be journalled.                            *)
SameServices(w, v) ==
    /\ v.ctl = w.ctl /\ v.unit = w.unit /\ v.dirty = w.dirty /\ v.rest = w.rest
    /\ v.unread = w.unread /\ (w.failed => v.failed)

LEMMA RequestPersistGood ==
  ASSUME NEW w, NEW d, Services0(w, d), Journal(w, d), ~w.unread,
         NEW r \in Record, Armed(r) => ~r.lastFull
  PROVE  LET v == RequestPersist(w, r) IN
         /\ Services0(v, d) /\ Journal(v, d) /\ SameServices(w, v)
         /\ v.rel = w.rel /\ v.maint = w.maint
         /\ v.rec = IF Valid(r) THEN r ELSE w.rec
         /\ Valid(r) \/ v.failed
<1> DEFINE v == RequestPersist(w, r)
<1>1. CASE Valid(r)
  <2> DEFINE u == [w EXCEPT !.rec = r, !.queued = TRUE]
  <2>1. v = u
    BY <1>1 DEF RequestPersist
  <2>2. u \in Services /\ SameServices(w, u) /\ u.rel = w.rel /\ u.maint = w.maint
        /\ u.rec = r /\ u.queued
    BY DEF Services0, Services, SameServices
  <2>3. Services0(u, d) /\ Journal(u, d)
    BY <1>1, <2>2 DEF Services0, Journal, RecOK, SameServices, Armed
  <2> QED
    BY <1>1, <2>1, <2>2, <2>3
<1>2. CASE ~Valid(r)
  <2> DEFINE u == [w EXCEPT !.failed = TRUE]
  <2>1. v = u
    BY <1>2 DEF RequestPersist
  <2>2. u \in Services /\ SameServices(w, u) /\ u.rel = w.rel /\ u.maint = w.maint
        /\ u.rec = w.rec /\ u.queued = w.queued /\ u.failed
    BY DEF Services0, Services, SameServices
  <2>3. Services0(u, d) /\ Journal(u, d)
    BY <2>2 DEF Services0, Journal, SameServices
  <2> QED
    BY <1>2, <2>1, <2>2, <2>3
<1> QED
  BY <1>1, <1>2

(* The terminal of a charge that the cable did not end keeps a latch, and  *)
(* takes a FULL only from the model.                                       *)
LEMMA TerminalGood ==
  ASSUME NEW w, NEW d, Services0(w, d), Journal(w, d), ~w.unread,
         NEW r \in Record, RecOK(w.rec), r.latch = w.rec.latch, ~Armed(r),
         NEW x \in Model, NEW last \in {"full", "bq", "safety", "detached", "other"}
  PROVE  LET v == Terminal(w, r, x, last) IN
         /\ Services0(v, d) /\ Journal(v, d) /\ SameServices(w, v)
         /\ v.rel = w.rel /\ v.maint = w.maint
         /\ v.rec = w.rec \/ v.rec.latch = IF last = "detached" THEN "none" ELSE r.latch
         /\ v.rec.latch = "none" \/ last # "detached" \/ v.failed
         /\ last # "detached" => v.rec.latch = w.rec.latch
         /\ r.used /\ ~r.lastFull /\ Spent(w.rec) /\ ~x.full /\ last # "detached" => Spent(v.rec)
<1> DEFINE kept == r.latch # "none" /\ last # "detached"
           prior == last = "bq" /\ x.basis = None /\ ~x.full /\ r.lastFull
           q == IF kept THEN [r EXCEPT !.basis = x.basis] ELSE Unlatched(r)
           p == [q EXCEPT !.last = IF prior THEN @ ELSE last,
                          !.lastFull = IF prior THEN @ ELSE x.full,
                          !.lastNow = prior => @,
                          !.used = @ /\ last # "detached" /\ ~x.full]
<1>1. q \in Record /\ q.latch = (IF kept THEN r.latch ELSE "none")
      /\ q.used = r.used /\ q.lastFull = r.lastFull
  BY DEF Record, Unlatched, Model
<1>2. p \in Record /\ p.latch = q.latch
      /\ p.lastFull = (IF prior THEN q.lastFull ELSE x.full)
      /\ p.used = (q.used /\ last # "detached" /\ ~x.full)
  <2> DEFINE la == IF prior THEN q.last ELSE last
             fu == IF prior THEN q.lastFull ELSE x.full
             no == prior => q.lastNow
             us == q.used /\ last # "detached" /\ ~x.full
  <2>1. p = [q EXCEPT !.last = la, !.lastFull = fu, !.lastNow = no, !.used = us]
    OBVIOUS
  <2>2. q.last \in {"none", "full", "bq", "safety", "detached", "other"}
        /\ q.lastFull \in BOOLEAN /\ q.lastNow \in BOOLEAN /\ q.used \in BOOLEAN
        /\ x.full \in BOOLEAN
    BY <1>1 DEF Record, Model
  <2>3. la \in {"none", "full", "bq", "safety", "detached", "other"}
        /\ fu \in BOOLEAN /\ no \in BOOLEAN /\ us \in BOOLEAN
    BY <2>2
  <2> HIDE DEF q, p, la, fu, no, us
  <2>4. p \in Record /\ p.latch = q.latch /\ p.lastFull = fu /\ p.used = us
    BY <1>1, <2>1, <2>3 DEF Record
  <2> QED
    BY <2>4 DEF fu, us
<1>3. ~Armed(p)
  BY <1>1, <1>2 DEF Armed
<1>4. Terminal(w, r, x, last) = RequestPersist(w, p)
  BY DEF Terminal
<1> HIDE DEF p, q
<1>5. LET v == RequestPersist(w, p) IN
         /\ Services0(v, d) /\ Journal(v, d) /\ SameServices(w, v)
         /\ v.rel = w.rel /\ v.maint = w.maint
         /\ v.rec = IF Valid(p) THEN p ELSE w.rec
         /\ Valid(p) \/ v.failed
  BY <1>2, <1>3, RequestPersistGood
<1>6. r.used /\ ~r.lastFull /\ ~x.full /\ last # "detached" => Spent(p)
  BY <1>1, <1>2 DEF Spent
<1> QED
  BY <1>1, <1>2, <1>4, <1>5, <1>6

-----------------------------------------------------------------------------
(* The supervisor's model.                                                 *)

(* An observation has its types.                                           *)
Seen(o) ==
    /\ o.plug \in BOOLEAN /\ o.ctl \in Control
    /\ o.acr \in Acr /\ o.session \in Sessions /\ o.pack \in Packs
    /\ o.target \in 0..Cap /\ o.known \in BOOLEAN /\ o.sure \in BOOLEAN

(* What the parts of battery_charge_supervisor_update have made of x so    *)
(* far: r, with the cable in.                                              *)
Made(x, r, o) ==
    /\ r.x \in Model /\ r.x.phys
    /\ \A e \in {"detached", "rejected", "restored", "restarted"} : e \notin r.out
    /\ "stop" \in r.out =>
          /\ r.x.phase = "stopping" /\ Enabled(o.ctl)
          /\ r.x.stop \in {"full", "safety"} /\ r.x.basis # None
    /\ "stopped" \in r.out => x.phase = "stopping" /\ Disabled(o.ctl)
    /\ r.x.phase = "stopping" => x.phase = "stopping" \/ "stop" \in r.out
    /\ "terminal" \in r.out => ~Live(r.x) /\ (r.x.full <=> "fullq" \in r.out)
    /\ "terminal" \notin r.out => "fullq" \notin r.out /\ (r.x.full => x.full)

LEMMA AttachMade ==
  ASSUME NEW x \in Model, NEW o
  PROVE  Made(x, Attach([x |-> x, out |-> {}], o), o)
<1>1. CASE x.phys
  BY <1>1 DEF Attach, Made
<1>2. CASE ~x.phys
  <2> DEFINE y == [NoModel EXCEPT !.phys = TRUE, !.phase = "qualifying",
                                 !.auth = o.ctl.owners = {} /\ o.ctl.read # "off"]
  <2>1. y \in Model /\ y.phys /\ y.phase = "qualifying" /\ ~y.full
    BY DEF Model, Phases, NoModel
  <2>2. Attach([x |-> x, out |-> {}], o) = [x |-> y, out |-> {"attached"}]
    BY <1>2 DEF Attach, Step
  <2> HIDE DEF y
  <2> QED
    BY <2>1, <2>2 DEF Made
<1> QED
  BY <1>1, <1>2

(* A part that acts on a live charge that is not about to stop.            *)
LEMMA MadeStep ==
  ASSUME NEW x \in Model, NEW r, NEW o, Made(x, r, o), "stop" \notin r.out,
         Live(r.x), NEW y \in Model, y.phys, NEW out,
         \A e \in {"detached", "rejected", "restored", "restarted"} : e \notin out,
         "stop" \in out =>
             /\ y.phase = "stopping" /\ Enabled(o.ctl)
             /\ y.stop \in {"full", "safety"} /\ y.basis # None,
         "stopped" \in out => x.phase = "stopping" /\ Disabled(o.ctl),
         y.phase = "stopping" => r.x.phase = "stopping" \/ "stop" \in out,
         "terminal" \in out => ~Live(y) /\ (y.full <=> "fullq" \in out),
         "terminal" \notin out => "fullq" \notin out /\ y.full = r.x.full
  PROVE  Made(x, Step(r, y, out), o)
<1> DEFINE q == Step(r, y, out)
<1>1. q.x = y /\ q.out = r.out \cup out
  BY DEF Step
<1>2. "terminal" \notin r.out /\ "fullq" \notin r.out /\ (r.x.full => x.full)
  BY DEF Made
<1>3. \A e \in {"detached", "rejected", "restored", "restarted"} : e \notin r.out
  BY DEF Made
<1>4. "stopped" \in r.out => x.phase = "stopping" /\ Disabled(o.ctl)
  BY DEF Made
<1>5. r.x.phase = "stopping" => x.phase = "stopping"
  BY DEF Made
<1> HIDE DEF q
<1>6. q.x \in Model /\ q.x.phys
  BY <1>1
<1>7. \A e \in {"detached", "rejected", "restored", "restarted"} : e \notin q.out
  BY <1>1, <1>3
<1>8. "stop" \in q.out =>
          /\ q.x.phase = "stopping" /\ Enabled(o.ctl)
          /\ q.x.stop \in {"full", "safety"} /\ q.x.basis # None
  BY <1>1
<1>9. "stopped" \in q.out => x.phase = "stopping" /\ Disabled(o.ctl)
  BY <1>1, <1>4
<1>10. q.x.phase = "stopping" => x.phase = "stopping" \/ "stop" \in q.out
  BY <1>1, <1>5
<1>11. "terminal" \in q.out => ~Live(q.x) /\ (q.x.full <=> "fullq" \in q.out)
  BY <1>1, <1>2
<1>12. "terminal" \notin q.out => "fullq" \notin q.out /\ (q.x.full => x.full)
  BY <1>1, <1>2
<1> QED
  BY <1>6, <1>7, <1>8, <1>9, <1>10, <1>11, <1>12 DEF Made, q

(* A part that leaves the phase as it is.                                  *)
LEMMA StayMade ==
  ASSUME NEW x \in Model, NEW r, NEW o, Made(x, r, o), "stop" \notin r.out,
         Live(r.x), NEW y \in Model,
         y.phys = r.x.phys, y.phase = r.x.phase, y.full = r.x.full
  PROVE  Made(x, Step(r, y, {}), o)
<1>1. y.phys
  BY DEF Made
<1> QED
  BY <1>1, MadeStep

LEMMA ContaminateMade ==
  ASSUME NEW x \in Model, NEW r, NEW o, Made(x, r, o), "stop" \notin r.out
  PROVE  Made(x, Contaminate(r, o), o)
<1> DEFINE y == [r.x EXCEPT !.auth = FALSE]
<1>1. Contaminate(r, o) = r \/ (Live(r.x) /\ Contaminate(r, o) = Step(r, y, {}))
  BY DEF Contaminate
<1>2. y \in Model /\ y.phys = r.x.phys /\ y.phase = r.x.phase /\ y.full = r.x.full
  BY DEF Made, Model
<1> HIDE DEF y
<1> QED
  BY <1>1, <1>2, StayMade

LEMMA EndedOK ==
  \A z \in Model, phase \in Phases, full \in BOOLEAN :
      LET e == Ended(z, phase, full) IN
      e \in Model /\ e.phys = z.phys /\ e.phase = phase /\ e.full = full
<1> SUFFICES ASSUME NEW z \in Model, NEW phase \in Phases, NEW full \in BOOLEAN
             PROVE  LET e == Ended(z, phase, full) IN
                    e \in Model /\ e.phys = z.phys /\ e.phase = phase /\ e.full = full
  OBVIOUS
<1> DEFINE y == [z EXCEPT !.phase = phase, !.full = full]
           x == [y EXCEPT !.auth = FALSE, !.cand = "none"]
           e == [x EXCEPT !.seen = FALSE, !.stop = "none"]
<1>1. y \in Model /\ y.phys = z.phys /\ y.phase = phase /\ y.full = full
  BY DEF Model
<1>2. Ended(z, phase, full) = e
  BY DEF Ended
<1> HIDE DEF y
<1>3. x \in Model /\ x.phys = y.phys /\ x.phase = y.phase /\ x.full = y.full
  BY <1>1 DEF Model
<1> HIDE DEF x
<1>4. e \in Model /\ e.phys = x.phys /\ e.phase = x.phase /\ e.full = x.full
  BY <1>3 DEF Model
<1> QED
  BY <1>1, <1>2, <1>3, <1>4

(* A part that ends a live charge.                                         *)
LEMMA EndMade ==
  ASSUME NEW x \in Model, NEW r, NEW o, Made(x, r, o), "stop" \notin r.out,
         Live(r.x), NEW full \in BOOLEAN, NEW out,
         NEW phase \in {"completeBq", "completeSw", "safety", "fault", "degraded"},
         \A e \in {"detached", "rejected", "restored", "restarted", "stop"} : e \notin out,
         "stopped" \in out => x.phase = "stopping" /\ Disabled(o.ctl),
         "terminal" \in out, full <=> "fullq" \in out
  PROVE  Made(x, Step(r, Ended(r.x, phase, full), out), o)
<1> DEFINE y == Ended(r.x, phase, full)
<1>1. r.x \in Model /\ r.x.phys
  BY DEF Made
<1>2. y \in Model /\ y.phys = r.x.phys /\ y.phase = phase /\ y.full = full
  <2>1. phase \in Phases
    BY DEF Phases
  <2> QED
    BY <1>1, <2>1, EndedOK
<1> HIDE DEF y
<1>3. ~Live(y) /\ y.phase # "stopping"
  BY <1>2 DEF Live
<1>4. Made(x, Step(r, y, out), o)
  BY <1>1, <1>2, <1>3, MadeStep
<1> QED
  BY <1>4 DEF y

LEMMA JudgeMade ==
  ASSUME NEW x \in Model, NEW r, NEW o, Made(x, r, o), "stop" \notin r.out
  PROVE  Made(x, Judge(r, o), o) /\ "stop" \notin Judge(r, o).out
<1>1. CASE Live(r.x) /\ o.status /\ o.charger = "fault"
  <2>1. Live(r.x)
    BY <1>1
  <2>2. CASE CoulombFull(r.x, o)
    <3>1. Judge(r, o) = Step(r, Ended(r.x, "completeBq", TRUE), {"terminal", "fullq"})
      BY <1>1, <2>2 DEF Judge
    <3>2. Made(x, Judge(r, o), o)
      BY <2>1, <3>1, EndMade
    <3> QED
      BY <3>1, <3>2 DEF Step
  <2>3. CASE ~CoulombFull(r.x, o)
    <3>1. Judge(r, o) = Step(r, Ended(r.x, "fault", FALSE), {"terminal"})
      BY <1>1, <2>3 DEF Judge
    <3>2. Made(x, Judge(r, o), o)
      BY <2>1, <3>1, EndMade
    <3> QED
      BY <3>1, <3>2 DEF Step
  <2> QED
    BY <2>2, <2>3
<1>2. CASE ~(Live(r.x) /\ o.status /\ o.charger = "fault")
  <2>1. \/ Judge(r, o) = r
        \/ r.x.phase = "charging"
           /\ Judge(r, o) = Step(r, Ended(r.x, "degraded", FALSE), {"terminal"})
    BY <1>2 DEF Judge
  <2>2. CASE Judge(r, o) = r
    BY <2>2
  <2>3. CASE r.x.phase = "charging"
             /\ Judge(r, o) = Step(r, Ended(r.x, "degraded", FALSE), {"terminal"})
    <3>1. Live(r.x)
      BY <2>3 DEF Live
    <3>2. Made(x, Judge(r, o), o)
      BY <3>1, <2>3, EndMade
    <3> QED
      BY <2>3, <3>2 DEF Step
  <2> QED
    BY <2>1, <2>2, <2>3
<1> QED
  BY <1>1, <1>2

LEMMA AdmitMade ==
  ASSUME NEW x \in Model, NEW r, NEW o, Seen(o), Made(x, r, o), "stop" \notin r.out
  PROVE  Made(x, Admit(r, o), o) /\ "stop" \notin Admit(r, o).out
<1> DEFINE b == [start |-> o.acr, session |-> o.session, pack |-> o.pack,
                 target |-> o.target, known |-> o.known, sure |-> o.sure]
           y == [r.x EXCEPT !.phase = "charging", !.basis = b]
<1>1. b \in Basis
  BY DEF Basis, Seen
<1>2. r.x \in Model /\ x.full \in BOOLEAN /\ r.x.full \in BOOLEAN
  BY DEF Made, Model
<1>3. y \in Model /\ y.phys = r.x.phys /\ y.phase = "charging" /\ y.full = r.x.full
  <2> HIDE DEF b
  <2> QED
    BY <1>1, <1>2 DEF Model, Phases
<1>4. \/ Admit(r, o) = r
      \/ r.x.phase = "qualifying" /\ Admit(r, o) = Step(r, y, {"admitted"})
  BY DEF Admit
<1> HIDE DEF y
<1>5. CASE Admit(r, o) = r
  BY <1>5
<1>6. CASE r.x.phase = "qualifying" /\ Admit(r, o) = Step(r, y, {"admitted"})
  <2>1. Live(r.x) /\ r.x.phys
    BY <1>6 DEF Live, Made
  <2>2. Made(x, Step(r, y, {"admitted"}), o)
    BY <1>3, <2>1, MadeStep
  <2> QED
    BY <1>6, <2>2 DEF Step
<1> QED
  BY <1>4, <1>5, <1>6

LEMMA DwellMade ==
  ASSUME NEW x \in Model, NEW r, NEW o, Made(x, r, o), "stop" \notin r.out
  PROVE  Made(x, Dwell(r, o), o) /\ "stop" \notin Dwell(r, o).out
<1> DEFINE full == CoulombFull(r.x, o)
<1>1. r.x \in Model
  BY DEF Made
<1>2. full \in BOOLEAN
  BY DEF CoulombFull
<1>3. \/ Dwell(r, o) = r
      \/ /\ Live(r.x)
         /\ \/ Dwell(r, o) = Step(r, [r.x EXCEPT !.cand = "bq"], {})
            \/ Dwell(r, o) = Step(r, [r.x EXCEPT !.cand = "none"], {})
            \/ Dwell(r, o) = Step(r, Ended(r.x, "completeBq", full),
                                  {"terminal", "bq"} \cup IF full THEN {"fullq"} ELSE {})
  BY DEF Dwell, Live
<1> HIDE DEF full
<1>4. CASE Dwell(r, o) = r
  BY <1>4
<1>5. ASSUME NEW c \in {"bq", "none"}, Live(r.x),
             Dwell(r, o) = Step(r, [r.x EXCEPT !.cand = c], {})
      PROVE  Made(x, Dwell(r, o), o) /\ "stop" \notin Dwell(r, o).out
  <2> DEFINE y == [r.x EXCEPT !.cand = c]
  <2>1. y \in Model /\ y.phys = r.x.phys /\ y.phase = r.x.phase /\ y.full = r.x.full
    BY <1>1 DEF Model
  <2> HIDE DEF y
  <2>2. Made(x, Step(r, y, {}), o)
    BY <1>5, <2>1, StayMade
  <2> QED
    BY <1>5, <2>2 DEF Step, y
<1>6. CASE /\ Live(r.x)
           /\ Dwell(r, o) = Step(r, Ended(r.x, "completeBq", full),
                              {"terminal", "bq"} \cup IF full THEN {"fullq"} ELSE {})
  <2> DEFINE out == {"terminal", "bq"} \cup IF full THEN {"fullq"} ELSE {}
  <2>1. /\ \A e \in {"detached", "rejected", "restored", "restarted", "stop"} : e \notin out
        /\ "stopped" \notin out /\ "terminal" \in out /\ (full <=> "fullq" \in out)
    BY <1>2
  <2> HIDE DEF out
  <2>3. Made(x, Step(r, Ended(r.x, "completeBq", full), out), o)
    BY <1>2, <1>6, <2>1, EndMade
  <2>4. "stop" \notin out
    BY <2>1
  <2> QED
    BY <1>6, <2>3, <2>4 DEF Step, out
<1> QED
  BY <1>3, <1>4, <1>5, <1>6

LEMMA StopMade ==
  ASSUME NEW x \in Model, NEW r, NEW o, Made(x, r, o), "stop" \notin r.out
  PROVE  Made(x, Stop(r, o), o)
<1> DEFINE hit == r.x.cand = "sw" \/ Net(r.x, o) >= r.x.basis.target
           y == [r.x EXCEPT !.cand = IF hit THEN "sw" ELSE @]
           f(st) == [y EXCEPT !.phase = "stopping", !.stop = st]
<1>1. r.x \in Model /\ x.full \in BOOLEAN /\ r.x.full \in BOOLEAN
  BY DEF Made, Model
<1>2. y \in Model /\ y.phys = r.x.phys /\ y.phase = r.x.phase /\ y.full = r.x.full
      /\ y.basis = r.x.basis
  BY <1>1 DEF Model
<1>3. \A st \in {"full", "safety"} :
        /\ f(st) \in Model /\ f(st).phys = r.x.phys /\ f(st).phase = "stopping"
        /\ f(st).stop = st /\ f(st).full = r.x.full /\ f(st).basis = r.x.basis
  <2> HIDE DEF y
  <2> QED
    BY <1>2 DEF Model, Phases
<1>4. \/ Stop(r, o) = r
      \/ Live(r.x) /\ Stop(r, o) = Step(r, y, {})
      \/ \E st \in {"full", "safety"} :
            /\ r.x.phase = "charging" /\ Unblocked(r.x, o)
            /\ Stop(r, o) = Step(r, f(st), {"stop"})
  BY DEF Stop, Live
<1> HIDE DEF hit, y, f
<1>5. CASE Stop(r, o) = r
  BY <1>5
<1>6. CASE Live(r.x) /\ Stop(r, o) = Step(r, y, {})
  BY <1>2, <1>6, StayMade
<1>7. ASSUME NEW st \in {"full", "safety"}, r.x.phase = "charging", Unblocked(r.x, o),
             Stop(r, o) = Step(r, f(st), {"stop"})
      PROVE  Made(x, Stop(r, o), o)
  <2>2. Enabled(o.ctl) /\ r.x.basis # None
    BY <1>7 DEF Unblocked
  <2>3. Live(r.x) /\ r.x.phys
    BY <1>7 DEF Made, Live
  <2> DEFINE z == f(st)
  <2>4. /\ z \in Model /\ z.phys = r.x.phys /\ z.phase = "stopping" /\ z.stop = st
        /\ z.full = r.x.full /\ z.basis = r.x.basis
    BY <1>3
  <2>5. Stop(r, o) = Step(r, z, {"stop"})
    BY <1>7
  <2> HIDE DEF z
  <2>6. Made(x, Step(r, z, {"stop"}), o)
    BY <2>2, <2>3, <2>4, MadeStep
  <2> QED
    BY <2>5, <2>6
<1> QED
  BY <1>4, <1>5, <1>6, <1>7

LEMMA ConfirmMade ==
  ASSUME NEW x \in Model, NEW r, NEW o, Made(x, r, o)
  PROVE  Made(x, Confirm(r, o), o)
<1> DEFINE full == r.x.stop = "full" /\ r.x.auth
           ph == IF r.x.stop = "full" THEN "completeSw" ELSE "safety"
           out == {"terminal", "stopped"} \cup IF full THEN {"fullq"} ELSE {}
<1>1. r.x \in Model
  BY DEF Made
<1>2. CASE r.x.phase # "stopping" \/ "sup" \notin o.ctl.owners
  BY <1>2 DEF Confirm
<1>3. CASE r.x.phase = "stopping" /\ "sup" \in o.ctl.owners
  <2>1. "stop" \notin r.out /\ Live(r.x) /\ x.phase = "stopping"
    BY <1>3 DEF Made, Live, Enabled, Requested
  <2>2. CASE o.ctl.read = "off"
    <3>1. Confirm(r, o) = Step(r, Ended(r.x, ph, full), out)
      BY <1>3, <2>2 DEF Confirm
    <3>2. full \in BOOLEAN /\ ph \in {"completeBq", "completeSw", "safety", "fault", "degraded"}
      OBVIOUS
    <3>3. /\ \A e \in {"detached", "rejected", "restored", "restarted", "stop"} : e \notin out
          /\ "terminal" \in out /\ (full <=> "fullq" \in out)
      OBVIOUS
    <3>4. x.phase = "stopping" /\ Disabled(o.ctl)
      BY <1>3, <2>1, <2>2 DEF Disabled
    <3> HIDE DEF full, ph, out
    <3> QED
      BY <2>1, <3>1, <3>2, <3>3, <3>4, EndMade
  <2>3. CASE o.ctl.read # "off"
    <3>1. \/ Confirm(r, o) = Step(r, Ended(r.x, "fault", FALSE), {"terminal"})
          \/ Confirm(r, o) = Step(r, [r.x EXCEPT !.seen = TRUE], {})
      BY <1>3, <2>3 DEF Confirm
    <3>2. CASE Confirm(r, o) = Step(r, Ended(r.x, "fault", FALSE), {"terminal"})
      BY <2>1, <3>2, EndMade
    <3>3. CASE Confirm(r, o) = Step(r, [r.x EXCEPT !.seen = TRUE], {})
      <4> DEFINE y == [r.x EXCEPT !.seen = TRUE]
      <4>1. y \in Model /\ y.phys = r.x.phys /\ y.phase = r.x.phase /\ y.full = r.x.full
        BY <1>1 DEF Model
      <4> HIDE DEF y
      <4>2. Made(x, Step(r, y, {}), o)
        BY <2>1, <4>1, StayMade
      <4> QED
        BY <3>3, <4>2 DEF y
    <3> QED
      BY <3>1, <3>2, <3>3
  <2> QED
    BY <2>2, <2>3
<1> QED
  BY <1>2, <1>3

(* What one update does: with the cable in, as Made says.                  *)
LEMMA UpdateMade ==
  ASSUME NEW x \in Model, NEW o, Seen(o), o.plug
  PROVE  Made(x, Update(x, o), o)
<1> DEFINE a == Attach([x |-> x, out |-> {}], o)
           b == Contaminate(a, o)
           c == Judge(b, o)
           d == Admit(c, o)
           e == Dwell(d, o)
<1>1. Update(x, o) = Confirm(Stop(e, o), o)
  BY DEF Update
<1>2. Made(x, a, o) /\ "stop" \notin a.out
  BY AttachMade DEF Attach, Step
<1> HIDE DEF a
<1>3. Made(x, b, o) /\ "stop" \notin b.out
  BY <1>2, ContaminateMade DEF Contaminate, Step
<1> HIDE DEF b
<1>4. Made(x, c, o) /\ "stop" \notin c.out
  BY <1>3, JudgeMade
<1> HIDE DEF c
<1>5. Made(x, d, o) /\ "stop" \notin d.out
  BY <1>4, AdmitMade
<1> HIDE DEF d
<1>6. Made(x, e, o) /\ "stop" \notin e.out
  BY <1>5, DwellMade
<1> HIDE DEF e
<1>7. Made(x, Stop(e, o), o)
  BY <1>6, StopMade
<1> QED
  BY <1>1, <1>7, ConfirmMade

-----------------------------------------------------------------------------
(* What a turn journals.                                                   *)

(* The services between two turns of the model, at rest: no maintenance,   *)
(* no release that a latch does not ask for.                               *)
Idle(w, d) ==
    /\ Services0(w, d) /\ Journal(w, d) /\ ~w.unread /\ ~w.rest
    /\ w.maint = "idle" /\ ~Armed(w.rec)
    /\ "sup" \in w.ctl.owners => Latched(w.rec) /\ Latched(w.unit) /\ Latched(d)

(* A change of the record that is to be journalled, from w to v.           *)
Requested0(w, v, d) ==
    Services0(v, d) /\ Journal(v, d) /\ SameServices(w, v)

LEMMA RequestedGood ==
  ASSUME NEW w, NEW d, Idle(w, d), NEW v, Requested0(w, v, d),
         (v.maint = "idle" /\ ~Armed(v.rec)) \/ v.maint = "waitInhibit",
         Latched(w.rec) => v.rec.latch # "none" \/ v.rel
  PROVE  Good(v, d)
<1>1. v.rec.latch = "none" \/ Armed(v.rec) \/ Latched(v.rec)
  BY DEF Requested0, Services0, RecOK, Record, Armed, Latched
<1>2. Inhibit(v, d)
  BY <1>1 DEF Idle, Requested0, SameServices, Inhibit
<1> QED
  BY <1>2 DEF Good, Requested0

LEMMA ArmGood ==
  ASSUME NEW w, NEW d, Services0(w, d), Journal(w, d), ~w.unread
  PROVE  LET v == Arm(w) IN
         /\ Requested0(w, v, d) /\ v.rel = w.rel /\ v.maint = "waitInhibit"
         /\ v.rec = w.rec \/ Armed(v.rec)
<1> DEFINE r == [w.rec EXCEPT !.basis = None, !.latch = "rearm",
                              !.used = TRUE, !.lastFull = FALSE]
           u == RequestPersist(w, r)
           v == [u EXCEPT !.maint = "waitInhibit"]
<1>1. r \in Record /\ Armed(r) /\ ~r.lastFull
  BY DEF Services0, RecOK, Record, Armed
<1>2. Arm(w) = v
  BY DEF Arm
<1> HIDE DEF r
<1>3. /\ Services0(u, d) /\ Journal(u, d) /\ SameServices(w, u)
      /\ u.rel = w.rel /\ u.rec = IF Valid(r) THEN r ELSE w.rec
  BY <1>1, RequestPersistGood
<1> HIDE DEF u
<1>4. /\ v \in Services /\ SameServices(u, v) /\ v.rel = u.rel /\ v.rec = u.rec
      /\ v.queued = u.queued /\ v.maint = "waitInhibit"
  BY <1>3 DEF Services0, Services, SameServices
<1> HIDE DEF v
<1>5. Services0(v, d) /\ Journal(v, d) /\ SameServices(w, v)
  BY <1>3, <1>4 DEF Services0, Journal, SameServices
<1> QED
  BY <1>1, <1>2, <1>3, <1>4, <1>5 DEF Requested0

(* The end of the cable: no latch is left that the journal does not refuse *)
(* to drop, and one that was there is to be released.                      *)
LEMMA DetachGood ==
  ASSUME NEW w, NEW d, Idle(w, d), NEW x \in Model
  PROVE  LET v == Detach(w, x) IN
         /\ Requested0(w, v, d) /\ v.maint = "idle" /\ ~Armed(v.rec)
         /\ v.rec.latch = "none" \/ v.failed
         /\ v.rel = (w.rel \/ w.rec.latch # "none")
<1> DEFINE r == w.rec
           completed == r.latch # "none" /\ r.last = r.latch /\ r.lastNow
           active == r.basis # None \/ (Live(x) /\ x.basis # None)
           c == [Unlatched(r) EXCEPT !.used = FALSE]
           a == IF completed THEN RequestPersist(w, c)
                ELSE IF active THEN Terminal(w, r, x, "detached") ELSE w
           n == [a.rec EXCEPT !.used = FALSE]
           b == IF a.rec.used THEN RequestPersist(a, n) ELSE a
           v == [b EXCEPT !.rel = @ \/ r.latch # "none"]
<1>1. Detach(w, x) = v
  BY DEF Detach
<1>2. Services0(w, d) /\ Journal(w, d) /\ ~w.unread /\ w.rec \in Record /\ RecOK(w.rec)
      /\ ~Armed(r) /\ w.maint = "idle"
  BY DEF Idle, Services0, RecOK
<1>3. Requested0(w, a, d) /\ a.rel = w.rel /\ a.maint = "idle" /\ ~Armed(a.rec)
      /\ (a.rec.latch = "none" \/ a.failed)
  <2>1. CASE completed
    <3>1. c \in Record /\ c.latch = "none" /\ Valid(c)
      BY <1>2, <2>1 DEF RecOK, Record, Valid, Unlatched
    <3> HIDE DEF c
    <3>2. /\ Services0(RequestPersist(w, c), d) /\ Journal(RequestPersist(w, c), d)
          /\ SameServices(w, RequestPersist(w, c))
          /\ RequestPersist(w, c).rel = w.rel /\ RequestPersist(w, c).maint = w.maint
          /\ RequestPersist(w, c).rec = c
      BY <1>2, <3>1, RequestPersistGood DEF Armed
    <3> QED
      BY <1>2, <2>1, <3>1, <3>2 DEF Requested0, Armed
  <2>2. CASE ~completed /\ active
    <3>1. LET t == Terminal(w, r, x, "detached") IN
          /\ Services0(t, d) /\ Journal(t, d) /\ SameServices(w, t)
          /\ t.rel = w.rel /\ t.maint = w.maint
          /\ t.rec = w.rec \/ t.rec.latch = "none"
          /\ t.rec.latch = "none" \/ t.failed
      BY <1>2, TerminalGood
    <3> QED
      BY <1>2, <2>2, <3>1 DEF Requested0, Armed
  <2>3. CASE ~completed /\ ~active
    <3>1. r.latch = "none"
      BY <1>2, <2>3 DEF RecOK, Valid, Record, Armed
    <3> QED
      BY <1>2, <2>3, <3>1 DEF Requested0, SameServices
  <2> QED
    BY <2>1, <2>2, <2>3
<1> HIDE DEF a
<1>4. Requested0(w, b, d) /\ b.rel = w.rel /\ b.maint = "idle" /\ ~Armed(b.rec)
      /\ (b.rec.latch = "none" \/ b.failed)
  <2>1. CASE a.rec.used
    <3>1. n \in Record /\ n.latch = a.rec.latch /\ ~Armed(n)
      BY <1>3 DEF Requested0, Services0, RecOK, Record, Armed
    <3> HIDE DEF n
    <3>2. Services0(a, d) /\ Journal(a, d) /\ ~a.unread
      BY <1>2, <1>3 DEF Requested0, SameServices
    <3>3. LET p == RequestPersist(a, n) IN
          /\ Services0(p, d) /\ Journal(p, d) /\ SameServices(a, p)
          /\ p.rel = a.rel /\ p.maint = a.maint
          /\ p.rec = IF Valid(n) THEN n ELSE a.rec
      BY <3>1, <3>2, RequestPersistGood
    <3> QED
      BY <1>3, <2>1, <3>1, <3>3 DEF Requested0, SameServices, Armed
  <2>2. CASE ~a.rec.used
    BY <1>3, <2>2
  <2> QED
    BY <2>1, <2>2
<1> HIDE DEF b
<1>5. /\ v \in Services /\ SameServices(b, v) /\ v.rel = (b.rel \/ r.latch # "none")
      /\ v.rec = b.rec /\ v.queued = b.queued /\ v.maint = b.maint
  BY <1>4 DEF Requested0, Services0, Services, SameServices
<1> HIDE DEF v
<1>6. Services0(v, d) /\ Journal(v, d) /\ SameServices(w, v)
  BY <1>2, <1>4, <1>5 DEF Requested0, Services0, Journal, SameServices
<1> QED
  BY <1>1, <1>4, <1>5, <1>6 DEF Requested0, SameServices

(* What the results of a turn say of the model y it made, of one that was  *)
(* x, for a journal w.                                                     *)
Told(w, x, y, out, o) ==
    /\ x \in Model /\ y \in Model /\ o.ctl = w.ctl
    /\ "stop" \in out =>
          /\ "sup" \notin w.ctl.owners /\ y.stop \in {"full", "safety"}
          /\ y.basis # None /\ "detached" \notin out
    /\ "terminal" \in out /\ "detached" \notin out => (y.full <=> "fullq" \in out)
    /\ out = {} => (y.full => x.full)

(* The record that a turn asks for.                                        *)
Asked(w, v, y, out) ==
    /\ "stop" \in out => Latched(v.rec)
    /\ "detached" \notin out =>
          /\ v.rel = w.rel
          /\ Latched(w.rec) => Latched(v.rec) \/ Armed(v.rec)
          /\ Latched(v.rec) => Latched(w.rec) \/ "stop" \in out
    /\ "detached" \in out =>
          /\ v.rec.latch = "none" \/ v.failed
          /\ v.rel = (w.rel \/ w.rec.latch # "none") /\ v.maint = "idle"

(* What was latched stays latched, and what was spent stays spent, unless  *)
(* a maintenance has begun, or a FULL has come, or the cable is out.       *)
SettleDoes(w, v, x, y, out) ==
    /\ SameServices(w, v) /\ Asked(w, v, y, out)
    /\ (v.maint = "idle" /\ ~Armed(v.rec)) \/ v.maint = "waitInhibit"
    /\ "detached" \notin out /\ "fullq" \notin out /\ Spent(w.rec) /\ ~x.full =>
          Spent(v.rec) /\ ~Armed(v.rec)

LEMMA SettleGood ==
  ASSUME NEW w, NEW d, Idle(w, d), NEW x, NEW y, NEW out, NEW o,
         Told(w, x, y, out, o)
  PROVE  LET v == Settle(w, x, y, out, o) IN
         Requested0(w, v, d) /\ SettleDoes(w, v, x, y, out)
<1> DEFINE r == [w.rec EXCEPT !.lastNow = @ /\ "attached" \notin out]
           ended == Terminal(w, r, y, LastOf(y.phase))
           v == Settle(w, x, y, out, o)
<1>1. /\ Services0(w, d) /\ Journal(w, d) /\ ~w.unread /\ w.maint = "idle"
      /\ RecOK(w.rec) /\ w.rec \in Record /\ ~Armed(w.rec)
      /\ x \in Model /\ y \in Model
  BY DEF Idle, Services0, RecOK, Told
<1>2. /\ r \in Record /\ r.latch = w.rec.latch /\ r.used = w.rec.used
      /\ r.lastFull = w.rec.lastFull /\ r.basis = w.rec.basis /\ r.last = w.rec.last
      /\ ~Armed(r)
  BY <1>1 DEF Record, Armed
<1> HIDE DEF r
<1>3. ASSUME NEW b \in Basis \cup {None}, NEW la \in {w.rec.latch, "full", "safety"},
             "detached" \notin out
      PROVE  LET q == [r EXCEPT !.basis = b, !.latch = la]
                 p == RequestPersist(w, q)
             IN  /\ Requested0(w, p, d) /\ p.rel = w.rel /\ p.maint = "idle" /\ ~Armed(p.rec)
                 /\ p.rec.latch = w.rec.latch \/ p.rec.latch = la
                 /\ Spent(w.rec) => Spent(p.rec)
                 /\ la # w.rec.latch /\ b # None => p.rec.latch = la
                 /\ la # "none" /\ b # None => p.rec.latch = la
  <2> DEFINE q == [r EXCEPT !.basis = b, !.latch = la]
             p == RequestPersist(w, q)
  <2>1. /\ q \in Record /\ q.latch = la /\ q.basis = b /\ ~Armed(q)
        /\ q.used = w.rec.used /\ q.lastFull = w.rec.lastFull /\ q.last = w.rec.last
    BY <1>1, <1>2 DEF Record, Armed
  <2> HIDE DEF q
  <2>2. /\ Services0(p, d) /\ Journal(p, d) /\ SameServices(w, p)
        /\ p.rel = w.rel /\ p.maint = w.maint /\ p.rec = IF Valid(q) THEN q ELSE w.rec
    BY <1>1, <2>1, RequestPersistGood
  <2>3. b # None => Valid(q)
    BY <1>1, <2>1 DEF RecOK, Valid, Armed
  <2> HIDE DEF p
  <2> QED
    BY <1>1, <2>1, <2>2, <2>3 DEF Requested0, Spent, Armed, p, q
<1>4. CASE "stop" \in out
  <2>1. /\ y.stop \in {"full", "safety"} /\ y.basis # None /\ "detached" \notin out
        /\ y.basis \in Basis \cup {None}
    BY <1>4 DEF Told, Model
  <2>2. v = RequestPersist(w, [r EXCEPT !.basis = y.basis, !.latch = y.stop])
    BY <1>4 DEF Settle, r
  <2> HIDE DEF v
  <2>3. /\ Requested0(w, v, d) /\ v.rel = w.rel /\ v.maint = "idle" /\ ~Armed(v.rec)
        /\ v.rec.latch = y.stop /\ (Spent(w.rec) => Spent(v.rec))
    <3> DEFINE b == y.basis
               la == y.stop
    <3>1. /\ b \in Basis \cup {None} /\ la \in {w.rec.latch, "full", "safety"}
          /\ la # "none" /\ b # None
      BY <2>1
    <3> HIDE DEF b, la
    <3>2. LET p == RequestPersist(w, [r EXCEPT !.basis = b, !.latch = la])
             IN  /\ Requested0(w, p, d) /\ p.rel = w.rel /\ p.maint = "idle" /\ ~Armed(p.rec)
                 /\ Spent(w.rec) => Spent(p.rec)
                 /\ p.rec.latch = la
      BY <1>3, <2>1, <3>1
    <3> QED
      BY <2>2, <3>2 DEF b, la
  <2> QED
    BY <1>4, <2>1, <2>3 DEF SettleDoes, Asked, Latched, v, Requested0
<1>5. CASE "stop" \notin out /\ "detached" \in out
  <2>1. v = Detach(w, x)
    BY <1>5 DEF Settle
  <2> HIDE DEF v
  <2>2. /\ Requested0(w, v, d) /\ v.maint = "idle" /\ ~Armed(v.rec)
        /\ v.rec.latch = "none" \/ v.failed
        /\ v.rel = (w.rel \/ w.rec.latch # "none")
    BY <1>1, <2>1, DetachGood
  <2> QED
    BY <1>5, <2>2 DEF SettleDoes, Asked, v, Requested0
<1>6. CASE "stop" \notin out /\ "detached" \notin out /\ "rejected" \in out /\ w.rec.latch # "none"
  <2>1. v = w
    BY <1>6 DEF Settle
  <2> QED
    BY <1>1, <1>6, <2>1 DEF SettleDoes, Asked, Requested0, SameServices
<1>7. CASE /\ "stop" \notin out /\ "detached" \notin out
           /\ ~("rejected" \in out /\ w.rec.latch # "none") /\ "terminal" \in out
  <2>1. v = IF RecoveryReady(w, out, o) THEN Arm(ended) ELSE ended
    BY <1>7 DEF Settle, r
  <2>2. LastOf(y.phase) \in {"full", "bq", "safety", "other"}
    BY DEF LastOf
  <2>3. y.full <=> "fullq" \in out
    BY <1>7 DEF Told
  <2>4. LET e == ended IN
        /\ Services0(e, d) /\ Journal(e, d) /\ SameServices(w, e)
        /\ e.rel = w.rel /\ e.maint = w.maint /\ e.rec.latch = w.rec.latch
        /\ Spent(w.rec) /\ ~y.full => Spent(e.rec)
    <3> DEFINE la == LastOf(y.phase)
    <3>1. la \in {"full", "bq", "safety", "detached", "other"} /\ la # "detached"
      BY <2>2
    <3> HIDE DEF la
    <3>2. LET e == Terminal(w, r, y, la) IN
          /\ Services0(e, d) /\ Journal(e, d) /\ SameServices(w, e)
          /\ e.rel = w.rel /\ e.maint = w.maint
          /\ la # "detached" => e.rec.latch = w.rec.latch
          /\ r.used /\ ~r.lastFull /\ Spent(w.rec) /\ ~y.full /\ la # "detached" => Spent(e.rec)
      BY <1>1, <1>2, <3>1, TerminalGood
    <3> QED
      BY <1>2, <3>1, <3>2 DEF Spent, la
  <2> HIDE DEF v, ended
  <2>5. CASE RecoveryReady(w, out, o)
    <3>1. Requested0(ended, Arm(ended), d) /\ Arm(ended).rel = ended.rel
          /\ Arm(ended).maint = "waitInhibit"
          /\ (Arm(ended).rec = ended.rec \/ Armed(Arm(ended).rec))
      BY <1>1, <2>4, ArmGood DEF SameServices
    <3>2. w.rec.latch = "none" /\ ~Spent(w.rec)
      BY <2>5 DEF RecoveryReady, Spent
    <3> QED
      BY <1>7, <2>1, <2>4, <2>5, <3>1, <3>2
         DEF SettleDoes, Asked, Requested0, SameServices, Latched, Armed, v
  <2>6. CASE ~RecoveryReady(w, out, o)
    BY <1>1, <1>7, <2>1, <2>3, <2>4, <2>6
       DEF SettleDoes, Asked, Requested0, SameServices, Latched, Armed, v
  <2> QED
    BY <2>5, <2>6
<1>8. CASE /\ "stop" \notin out /\ "detached" \notin out
           /\ ~("rejected" \in out /\ w.rec.latch # "none") /\ "terminal" \notin out
           /\ out \cap {"admitted", "attached"} # {}
  <2>1. PICK b \in Basis \cup {None} : v = RequestPersist(w, [r EXCEPT !.basis = b])
    BY <1>1, <1>8 DEF Settle, r, Model
  <2>2. [r EXCEPT !.basis = b] = [r EXCEPT !.basis = b, !.latch = w.rec.latch]
    BY <1>2 DEF Record
  <2> HIDE DEF v
  <2>3. /\ Requested0(w, v, d) /\ v.rel = w.rel /\ v.maint = "idle" /\ ~Armed(v.rec)
        /\ v.rec.latch = w.rec.latch /\ (Spent(w.rec) => Spent(v.rec))
    BY <1>3, <1>8, <2>1, <2>2
  <2> QED
    BY <1>8, <2>3 DEF SettleDoes, Asked, Latched, v, Requested0
<1>9. CASE /\ "stop" \notin out /\ "detached" \notin out
           /\ ~("rejected" \in out /\ w.rec.latch # "none") /\ "terminal" \notin out
           /\ out \cap {"admitted", "attached"} = {}
  <2>1. v = IF MaintenanceReady(w, y, out, o) THEN Arm(w) ELSE w
    BY <1>9 DEF Settle
  <2>2. CASE MaintenanceReady(w, y, out, o)
    <3>1. out = {} /\ (y.full \/ w.rec.lastFull)
      BY <2>2 DEF MaintenanceReady
    <3>2. x.full \/ ~Spent(w.rec)
      BY <3>1 DEF Told, Spent
    <3>3. Requested0(w, Arm(w), d) /\ Arm(w).rel = w.rel /\ Arm(w).maint = "waitInhibit"
          /\ (Arm(w).rec = w.rec \/ Armed(Arm(w).rec))
      BY <1>1, ArmGood
    <3> QED
      BY <1>9, <2>1, <2>2, <3>2, <3>3
         DEF SettleDoes, Asked, Requested0, SameServices, Latched, Armed
  <2>3. CASE ~MaintenanceReady(w, y, out, o)
    BY <1>1, <1>9, <2>1, <2>3 DEF SettleDoes, Asked, Requested0, SameServices
  <2> QED
    BY <2>2, <2>3
<1> QED
  BY <1>4, <1>5, <1>6, <1>7, <1>8, <1>9

-----------------------------------------------------------------------------
(* The beginning and the end of a turn.                                    *)

(* What TryPersist and a preflight make of the services w: everything is   *)
(* in the store, and the inhibit has a latch.                              *)
Stored(w, v) ==
    /\ v.rec = w.rec /\ v.rest = w.rest /\ v.maint = w.maint
    /\ v.unread = w.unread /\ v.failed = w.failed
    /\ ~v.queued /\ v.unit = v.rec /\ (v.rel => w.rel)
    /\ "sup" \in v.ctl.owners => v.rec.latch # "none"
    /\ Off(w.ctl) /\ w.rec.latch # "none" => Off(v.ctl)

LEMMA StoredGood ==
  ASSUME NEW w, NEW d, Good(w, d), ~w.unread, NEW io \in Io
  PROVE  /\ Good(ControlPreflight(TryPersist(w), io), d)
         /\ Stored(w, ControlPreflight(TryPersist(w), io))
<1> DEFINE u == TryPersist(w)
           v == ControlPreflight(u, io)
<1>1. /\ Good(u, d) /\ ~u.queued /\ u.unit = u.rec
      /\ u.rec = w.rec /\ u.ctl = w.ctl /\ u.rel = w.rel /\ u.rest = w.rest
      /\ u.maint = w.maint /\ u.unread = w.unread /\ u.failed = w.failed
  BY TryPersistGood
<1> HIDE DEF u
<1>2. /\ Good(v, d) /\ SameJournal(u, v) /\ (v.rel => u.rel)
      /\ "sup" \in v.ctl.owners => v.rec.latch # "none" \/ (~u.rel /\ v = u)
      /\ Off(u.ctl) /\ u.rec.latch # "none" => Off(v.ctl)
  BY <1>1, PreflightGood
<1> HIDE DEF v
<1>3. "sup" \in v.ctl.owners => v.rec.latch # "none"
  BY <1>1, <1>2 DEF Good, Inhibit, Latched, Armed
<1>4. Stored(w, v)
  BY <1>1, <1>2, <1>3 DEF Stored, SameJournal
<1> QED
  BY <1>2, <1>4 DEF u, v

(* The second's readback of /CE takes nothing from the journal.            *)
LEMMA PolledGood ==
  ASSUME Good(s, media), NEW t \in Turns
  PROVE  LET w == Polled(s, t) IN
         /\ Good(w, media) /\ SameJournal(s, w) /\ w.rel = s.rel
         /\ w.ctl.owners = s.ctl.owners /\ (Off(s.ctl) => Off(w.ctl))
<1> DEFINE c == ControlPoll(s.ctl, t.io)
           w == [s EXCEPT !.ctl = c]
<1>1. CASE t.poll
  <2>1. t.io \in Io /\ CtlOK(s.ctl)
    BY DEF Turns, Good, Services0
  <2>2. CtlOK(c) /\ c.owners = s.ctl.owners /\ (Off(s.ctl) => Off(c))
    BY <2>1, ControlPollOK
  <2>3. Polled(s, t) = w
    BY <1>1 DEF Polled
  <2> HIDE DEF c
  <2>4. Good(w, media) /\ SameJournal(s, w) /\ w.rel = s.rel /\ w.ctl = c
    BY <2>2, WithControl
  <2> QED
    BY <2>2, <2>3, <2>4
<1>2. CASE ~t.poll
  BY <1>2 DEF Polled, SameJournal
<1> QED
  BY <1>1, <1>2

LEMMA BeginGood ==
  ASSUME Good(s, media), ~s.unread, NEW t \in Turns
  PROVE  Good(Begin(t), media) /\ Stored(s, Begin(t))
<1> DEFINE w == Polled(s, t)
           v == ControlPreflight(TryPersist(w), t.io)
<1>1. t.io \in Io
  BY DEF Turns
<1>2. /\ Good(w, media) /\ SameJournal(s, w) /\ w.rel = s.rel
      /\ w.ctl.owners = s.ctl.owners /\ (Off(s.ctl) => Off(w.ctl))
  BY PolledGood
<1>3. Begin(t) = v
  BY DEF Begin
<1> HIDE DEF w
<1>4. ~w.unread
  BY <1>2 DEF SameJournal
<1>5. Good(v, media) /\ Stored(w, v)
  BY <1>1, <1>2, <1>4, StoredGood
<1> HIDE DEF v
<1>6. Stored(s, v)
  BY <1>2, <1>5 DEF Stored, SameJournal
<1> QED
  BY <1>3, <1>5, <1>6

LEMMA JournalledGood ==
  ASSUME NEW w, NEW d, Good(w, d), ~w.unread, NEW io \in Io
  PROVE  Good(Journalled(w, io), d) /\ Stored(w, Journalled(w, io))
<1> DEFINE u == TryPersist(w)
<1>1. /\ Good(u, d) /\ ~u.queued /\ u.unit = u.rec
      /\ u.rec = w.rec /\ u.ctl = w.ctl /\ u.rel = w.rel /\ u.rest = w.rest
      /\ u.maint = w.maint /\ u.unread = w.unread /\ u.failed = w.failed
  BY TryPersistGood
<1>2. CASE u.rel
  BY <1>2, StoredGood DEF Journalled
<1>3. CASE ~u.rel
  <2>1. Journalled(w, io) = u
    BY <1>3 DEF Journalled
  <2> HIDE DEF u
  <2>2. "sup" \in u.ctl.owners => u.rec.latch # "none"
    BY <1>1, <1>3 DEF Good, Inhibit, Latched, Armed
  <2> QED
    BY <1>1, <2>1, <2>2 DEF Stored
<1> QED
  BY <1>2, <1>3

(* The battery floor drops the latch and lets go of /CE.                   *)
Floored(w, v) ==
    /\ v.unread = w.unread /\ v.unit = w.unit
    /\ w.failed => v.failed
    /\ \/ v = w /\ (w.unread \/ w.rec.latch = "none")
       \/ ~w.unread /\ ~v.rest /\ v.maint = "waitRelease" /\ v.rec.latch = "none"
          /\ (Spent(w.rec) => Spent(v.rec))

LEMMA FloorGood ==
  ASSUME NEW w, NEW d, Good(w, d), NEW io \in Io
  PROVE  Good(FloorRelease(w, io), d) /\ Floored(w, FloorRelease(w, io))
<1> DEFINE needed == ~w.unread /\ (w.rec.latch # "none" \/ "sup" \in w.ctl.owners \/ w.rel)
           r == Unlatched(w.rec)
           v == IF w.rel /\ w.rec.latch = "none" THEN w ELSE RequestPersist(w, r)
           u == [v EXCEPT !.rest = FALSE, !.rel = TRUE, !.maint = "waitRelease"]
<1>1. CASE ~needed
  <2>1. FloorRelease(w, io) = w
    BY <1>1 DEF FloorRelease
  <2> QED
    BY <1>1, <2>1 DEF Floored
<1>2. CASE needed
  <2>1. FloorRelease(w, io) = ControlPreflight(u, io)
    BY <1>2 DEF FloorRelease
  <2>2. Services0(w, d) /\ Journal(w, d) /\ ~w.unread /\ RecOK(w.rec) /\ w.rec \in Record
    BY <1>2 DEF Good, Services0, RecOK
  <2>3. /\ r \in Record /\ r.latch = "none" /\ Valid(r) /\ ~Armed(r)
        /\ Spent(w.rec) => Spent(r)
    BY <2>2 DEF Unlatched, RecOK, Record, Valid, Armed, Spent
  <2> HIDE DEF r
  <2>4. /\ Services0(v, d) /\ Journal(v, d) /\ SameServices(w, v)
        /\ v.rec.latch = "none" /\ (Spent(w.rec) => Spent(v.rec))
    <3>1. CASE w.rel /\ w.rec.latch = "none"
      BY <2>2, <3>1 DEF SameServices
    <3>2. CASE ~(w.rel /\ w.rec.latch = "none")
      <4>1. LET p == RequestPersist(w, r) IN
            /\ Services0(p, d) /\ Journal(p, d) /\ SameServices(w, p)
            /\ p.rec = IF Valid(r) THEN r ELSE w.rec
        BY <2>2, <2>3, RequestPersistGood
      <4> QED
        BY <2>3, <3>2, <4>1
    <3> QED
      BY <3>1, <3>2
  <2> HIDE DEF v
  <2>5. /\ u \in Services /\ u.ctl = v.ctl /\ u.rec = v.rec /\ u.queued = v.queued
        /\ u.unit = v.unit /\ u.dirty = v.dirty /\ u.unread = v.unread
        /\ u.failed = v.failed /\ ~u.rest /\ u.rel /\ u.maint = "waitRelease"
    BY <2>4 DEF Services0, Services
  <2> HIDE DEF u
  <2>6. Good(u, d) /\ ~u.unread
    BY <2>2, <2>4, <2>5 DEF Good, Services0, Journal, Inhibit, SameServices, Armed
  <2>7. Good(ControlPreflight(u, io), d) /\ SameJournal(u, ControlPreflight(u, io))
    BY <2>6, PreflightGood
  <2> QED
    BY <2>1, <2>2, <2>4, <2>5, <2>7 DEF Floored, SameJournal, SameServices
<1> QED
  BY <1>1, <1>2

-----------------------------------------------------------------------------
(* The observation and the learner.                                        *)

LEMMA ObserveSeen ==
  ASSUME GaugeInv(l, session, lm, resets), acr \in Acr, plug \in BOOLEAN,
         resets \in 0..MaxResets, NEW t \in Turns, Possible(t),
         NEW w, w.ctl \in Control
  PROVE  LET o == Observe(w, t) IN
         /\ Seen(o) /\ o.plug = plug /\ o.ctl = w.ctl
         /\ o.sample \in BOOLEAN /\ o.status \in BOOLEAN /\ o.lost = (t.ev = "lost")
         /\ o.session = session + (IF o.lost THEN 1 ELSE 0)
         /\ o.lost => resets < MaxResets
<1> DEFINE o == Observe(w, t)
           lost == t.ev = "lost"
           now == session + IF lost THEN 1 ELSE 0
<1>1. /\ o.plug = plug /\ o.ctl = w.ctl /\ o.sample = (t.ev \in {"ok", "nostat"})
      /\ o.status = (t.ev # "nostat") /\ o.lost = lost /\ o.session = now
      /\ o.acr = (IF lost THEN 0 ELSE acr) /\ o.pack = l.pack
      /\ o.target = t.target /\ o.known = t.known /\ o.sure = t.sure
  BY DEF Observe
<1> HIDE DEF o
<1>2. lost => resets < MaxResets
  BY DEF Possible
<1>3. now \in Sessions
  BY <1>2, BudgetAssumption DEF GaugeInv, Sessions
<1>4. l \in Learner
  BY DEF GaugeInv
<1>6. o.target \in 0..Cap /\ o.known \in BOOLEAN /\ o.sure \in BOOLEAN
  BY <1>1 DEF Turns
<1>7. o.acr \in Acr /\ o.pack \in Packs
  BY <1>1, <1>4, BudgetAssumption DEF Acr, Learner
<1>8. Seen(o)
  BY <1>1, <1>3, <1>6, <1>7 DEF Seen
<1>9. o.sample \in BOOLEAN /\ o.status \in BOOLEAN /\ o.lost = lost
  BY <1>1
<1>10. o.session = session + (IF lost THEN 1 ELSE 0)
  BY <1>1
<1> QED
  BY <1>1, <1>2, <1>8, <1>9, <1>10 DEF o

LEMMA LearnGood ==
  ASSUME GaugeInv(l, session, lm, resets), resets \in 0..MaxResets,
         NEW o, o.session \in Sessions, NEW n \in {0, 1}, o.session = session + n
  PROVE  /\ GaugeInv(Learn(o), o.session, lm, resets + n)
         /\ GaugeInv(Learn(o), o.session, Learn(o).pack, resets + n)
<1> DEFINE same == IF l.bound = None THEN o.session = 0 ELSE l.bound = o.session
           p == IF same THEN l.pack ELSE l.pack + 1
<1>1. Learn(o).bound = o.session /\ Learn(o).pack = p /\ Learn(o) = [bound |-> o.session, pack |-> p]
  BY DEF Learn
<1>2. /\ l.pack \in Packs /\ l.pack \in Int /\ lm \in Packs /\ lm \in Int /\ lm <= l.pack
      /\ session \in Sessions /\ session \in Int /\ session <= resets /\ l.bound \in Sessions \cup {None}
      /\ l.pack + (IF Behind(l.bound, session) THEN 1 ELSE 0) <= resets
      /\ l.bound # None => l.bound <= session
  BY BudgetAssumption DEF GaugeInv, Learner, Packs, Sessions
<1>3. p \in Packs /\ p <= resets + n /\ lm <= p /\ p \in Int
  <2>1. CASE n = 1
    BY <1>2, <2>1, BudgetAssumption DEF Behind, Packs
  <2>2. CASE n = 0
    BY <1>2, <2>2, BudgetAssumption DEF Behind, Packs
  <2> QED
    BY <2>1, <2>2
<1>4. ~Behind(o.session, o.session)
  BY NoneAssumption, BudgetAssumption DEF Behind, Sessions
<1>5. o.session <= resets + n
  BY <1>2, BudgetAssumption
<1> HIDE DEF p
<1>6. Learn(o) \in Learner
  BY <1>1, <1>3 DEF Learner
<1> QED
  BY <1>1, <1>2, <1>3, <1>4, <1>5, <1>6 DEF GaugeInv, Sessions


LEMMA FaultsNat == \A t \in Turns : Faults(t) \in Nat
BY DEF Faults

-----------------------------------------------------------------------------
(* The turns.                                                              *)

LEMMA ChoicesAreTurns == \A t \in Choices : t \in Turns
<1> DEFINE more == faults < MaxFaults
           over == m.phase \in {"completeBq", "completeSw"}
           starts == /\ plug /\ bq = "active" /\ ~s.unread /\ ~s.rest
                     /\ m.phase \in {"detached", "qualifying"} \/ s.maint = "waitRelease"
           ends == m.phase \in {"charging", "stopping"} \/ s.rest
           E == {"ok"} \cup (IF more THEN {"blind"} ELSE {})
                       \cup (IF more /\ plug THEN {"nostat"} ELSE {})
                       \cup (IF resets < MaxResets THEN {"lost"} ELSE {})
           I == IF more THEN Io ELSE {"ok"}
           T == IF starts THEN 0..Cap ELSE {Cap}
<1>1. E \subseteq {"ok", "blind", "nostat", "lost"} /\ I \subseteq Io /\ T \subseteq 0..Cap
  BY CapAssumption DEF Io
<1> DEFINE A1 == Either(~Confirmed(s.ctl) \/ more, TRUE)
           A2 == Either(m.cand = "bq" \/ m.seen \/ s.maint = "hold", TRUE)
           A3 == Either(over, TRUE)
           A4 == Either(plug /\ ~s.unread, FALSE)
           A5 == Either(plug /\ more /\ ends, TRUE)
           A6 == Either(starts, TRUE)
           A7 == Either(over \/ m.cand = "bq", FALSE)
<1>3. /\ A1 \subseteq BOOLEAN /\ A2 \subseteq BOOLEAN /\ A3 \subseteq BOOLEAN
      /\ A4 \subseteq BOOLEAN /\ A5 \subseteq BOOLEAN /\ A6 \subseteq BOOLEAN
      /\ A7 \subseteq BOOLEAN
  BY DEF Either
<1>4. Choices = [ev : E, io : I, poll : A1, late : A2, sag : A3, low : A4, flush : A5,
                 target : T, known : A6, sure : A6, below : A7]
  BY DEF Choices
<1> HIDE DEF E, I, T, A1, A2, A3, A4, A5, A6, A7
<1> SUFFICES ASSUME NEW t \in Choices PROVE t \in Turns
  OBVIOUS
<1>5. /\ t.ev \in E /\ t.io \in I /\ t.poll \in A1 /\ t.late \in A2 /\ t.sag \in A3
      /\ t.low \in A4 /\ t.flush \in A5 /\ t.target \in T /\ t.known \in A6
      /\ t.sure \in A6 /\ t.below \in A7
  BY <1>4
<1>6. t = [ev |-> t.ev, io |-> t.io, poll |-> t.poll, late |-> t.late, sag |-> t.sag,
           low |-> t.low, flush |-> t.flush, target |-> t.target, known |-> t.known,
           sure |-> t.sure, below |-> t.below]
  BY <1>4
<1> QED
  BY <1>1, <1>3, <1>5, <1>6 DEF Turns

(* A turn that takes the FULL of the pack anew, or the cable out.          *)
Anew(out) ==
    "detached" \in out \/ ("fullq" \in out /\ ~("restored" \in out /\ s.rec.lastFull))

\* A stop in force after the results of a turn, for a journal w.
Held(w, out) ==
    /\ stopped \/ "stopped" \in out
    /\ "detached" \notin out /\ ~(Armed(w.rec) /\ ~Armed(s.rec))

(* What a turn has to leave to the learner and the battery floor.          *)
Ready0(w, y, out) ==
    /\ Good(w, media) /\ ModelInv(y, w)
    /\ w.unread = s.unread /\ (w.unread => out = {})
    /\ StopInv(Held(w, out), w, media)
    /\ spent = "yes" /\ ~Anew(out) =>
          SpentInv("yes", y, w, media) /\ (Armed(w.rec) => Armed(s.rec))
    /\ ~plug /\ ~w.unread /\ ~w.failed =>
          w.rec.latch = "none" /\ ("sup" \in w.ctl.owners => w.rel)

LEMMA FinishKept ==
  ASSUME IInv, NEW t \in Turns, Possible(t), NEW c, c.ctl \in Control,
         NEW w, NEW y, NEW out, Ready0(w, y, out),
         Finish(w, y, out, Observe(c, t), t)
  PROVE  IInv'
<1> DEFINE o == Observe(c, t)
           flushed == "fullq" \in out /\ o.plug /\ o.sample /\ t.flush
           low == /\ t.low /\ o.sample /\ o.plug
                  /\ ~(o.sample /\ o.status /\ o.charger = "active" /\ Enabled(w.ctl))
           d == IF flushed THEN [w EXCEPT !.dirty = FALSE] ELSE w
           v == IF low THEN FloorRelease(d, t.io) ELSE d
           armed == v.rec.latch = "rearm" /\ s.rec.latch # "rearm"
           held == v.maint = "hold"
           n == IF o.lost THEN 1 ELSE 0
<1>1. /\ Seen(o) /\ o.plug = plug /\ o.ctl = c.ctl
      /\ o.sample \in BOOLEAN /\ o.status \in BOOLEAN
      /\ o.session = session + n /\ (o.lost => resets < MaxResets)
  BY ObserveSeen DEF IInv, World
<1>2. /\ s' = v
      /\ m' = IF Live(y) THEN y ELSE [y EXCEPT !.basis = None]
      /\ l' = Learn(o)
      /\ media' = IF flushed THEN w.unit ELSE media
      /\ lm' = IF flushed THEN l'.pack ELSE lm
      /\ bq' = IF plug /\ v.ctl.ce THEN bq ELSE "active"
      /\ acr' = o.acr /\ session' = o.session
      /\ looked' = TRUE
      /\ stopped' = (/\ stopped \/ "stopped" \in out
                     /\ "detached" \notin out /\ ~armed /\ ~(low /\ ~w.unread))
      /\ spent' = IF Anew(out) THEN "no"
                  ELSE CASE armed /\ spent = "yes" -> "twice"
                         [] held /\ spent = "no"   -> "yes"
                         [] OTHER                  -> spent
      /\ due' = [b \in {m'.basis, v.rec.basis, v.unit.basis, media'.basis} \ {None} |->
                    Owed(b)]
      /\ early' \in BOOLEAN /\ lapsed' \in BOOLEAN
      /\ faults' = faults + Faults(t)
      /\ resets' = resets + n
      /\ plug' = plug /\ plugs' = plugs
  BY DEF Finish, Anew, IInv, World
<1>3. /\ World /\ Good(s, media) /\ GaugeInv(l, session, lm, resets)
      /\ spent \in {"no", "yes"}
  BY DEF IInv, SpentInv
<1>4. /\ Good(w, media) /\ ModelInv(y, w) /\ w \in Services
      /\ w.unread = s.unread /\ (w.unread => out = {})
  BY DEF Ready0, Good, Services0
<1>5. n \in {0, 1} /\ resets + n \in 0..MaxResets
  BY <1>1, <1>3, BudgetAssumption DEF World
<1>6. GaugeInv(l', session', lm', resets')
  <2>1. o.session \in Sessions
    BY <1>1 DEF Seen
  <2> HIDE DEF o, n
  <2>2. /\ GaugeInv(Learn(o), o.session, lm, resets + n)
        /\ GaugeInv(Learn(o), o.session, Learn(o).pack, resets + n)
    BY <1>1, <1>3, <1>5, <2>1, LearnGood DEF World
  <2> QED
    BY <1>2, <2>2
<1>7. World'
  <2>1. faults' \in 0..MaxFaults
    BY <1>2, <1>3, FaultsNat, BudgetAssumption DEF Possible, World
  <2>2. stopped' \in BOOLEAN
    BY <1>2
  <2>3. acr' \in Acr
    BY <1>1, <1>2 DEF Seen
  <2> HIDE DEF o, v, n
  <2> QED
    BY <1>2, <1>3, <1>5, <2>1, <2>2, <2>3 DEF World
<1>8. /\ Good(d, media') /\ d.rec = w.rec /\ d.unit = w.unit /\ d.ctl = w.ctl
      /\ d.rel = w.rel /\ d.maint = w.maint /\ d.rest = w.rest
      /\ d.unread = w.unread /\ d.failed = w.failed
      /\ (media' = media \/ media' = w.unit)
  <2>1. CASE flushed
    <3> DEFINE e == [w EXCEPT !.dirty = FALSE]
    <3>1. /\ e \in Services /\ e.rec = w.rec /\ e.unit = w.unit /\ e.ctl = w.ctl
          /\ e.rel = w.rel /\ e.maint = w.maint /\ e.rest = w.rest /\ e.queued = w.queued
          /\ e.unread = w.unread /\ e.failed = w.failed /\ ~e.dirty
      BY <1>4 DEF Services
    <3> HIDE DEF e
    <3>2. media' = w.unit
      BY <1>2, <2>1
    <3>3. Good(e, w.unit)
      BY <1>4, <3>1 DEF Good, Services0, Journal, Inhibit
    <3> QED
      BY <2>1, <3>1, <3>2, <3>3 DEF e
  <2>2. CASE ~flushed
    BY <1>2, <1>4, <2>2
  <2> QED
    BY <2>1, <2>2
<1> HIDE DEF d
<1>9. /\ Good(v, media') /\ (v = d \/ (low /\ Floored(d, v)))
      /\ (low => Floored(d, v))
  <2>1. t.io \in Io
    BY DEF Turns
  <2> QED
    BY <1>8, <2>1, FloorGood
<1> HIDE DEF v, low
<1>10. /\ v.unread = w.unread /\ v.unit = w.unit /\ (w.failed => v.failed)
       /\ v.rec.latch = w.rec.latch \/ v.rec.latch = "none"
       /\ Spent(w.rec) => Spent(v.rec)
       /\ v = d \/ (~w.unread /\ ~v.rest /\ v.maint = "waitRelease" /\ low)
  BY <1>8, <1>9 DEF Floored
<1>11. ModelInv(m', s')
  <2> DEFINE z == [y EXCEPT !.basis = None]
  <2>1. z \in Model /\ z.phys = y.phys /\ z.phase = y.phase
    BY <1>4 DEF ModelInv, Model
  <2>2. y = NoModel => ~Live(y) /\ z = NoModel
    <3>1. NoModel.phase = "detached" /\ NoModel.basis = None
      BY DEF NoModel
    <3>2. \A x \in Model : x.basis = None => [x EXCEPT !.basis = None] = x
      BY DEF Model
    <3>3. NoModel \in Model
      BY DEF NoModel, Model, Phases
    <3> QED
      BY <3>1, <3>2, <3>3 DEF Live
  <2> HIDE DEF z
  <2>3. m' \in Model /\ m'.phys = y.phys /\ m'.phase = y.phase /\ (y = NoModel => m' = NoModel)
    BY <1>2, <1>4, <2>1, <2>2 DEF ModelInv, z
  <2>4. ModelInv(m', d)
    BY <1>4, <1>8, <2>3 DEF ModelInv
  <2> QED
    BY <1>2, <1>8, <1>10, <2>3, <2>4 DEF ModelInv
<1>12. StopInv(stopped', s', media')
  <2> SUFFICES ASSUME stopped' PROVE StopInv(TRUE, v, media')
    BY <1>2 DEF StopInv
  <2>1. ~(low /\ ~w.unread) /\ ~armed
    BY <1>2
  <2>2. v = d
    BY <1>10, <2>1
  <2>3. Held(w, out)
    BY <1>2, <1>8, <2>2 DEF Held, Armed
  <2>4. StopInv(TRUE, w, media)
    BY <2>3 DEF Ready0, StopInv
  <2> QED
    BY <1>8, <2>2, <2>4 DEF StopInv
<1>13. SpentInv(spent', m', s', media')
  <2>1. CASE Anew(out)
    BY <1>2, <2>1 DEF SpentInv
  <2>2. CASE ~Anew(out) /\ spent = "yes"
    <3>1. SpentInv("yes", y, w, media) /\ (Armed(w.rec) => Armed(s.rec))
      BY <2>2 DEF Ready0
    <3>2. ~armed
      BY <1>10, <3>1 DEF Armed
    <3>3. spent' = "yes"
      BY <1>2, <2>2, <3>2
    <3>4. m'.full = y.full
      BY <1>2, <1>4 DEF ModelInv, Model
    <3>5. Spent(v.unit) /\ Spent(media') /\ (v.unread \/ Spent(v.rec))
      BY <1>8, <1>10, <3>1 DEF SpentInv
    <3>6. v.maint = "idle" => ~m'.full
      BY <1>8, <1>10, <3>1, <3>4 DEF SpentInv
    <3> QED
      BY <1>2, <3>3, <3>5, <3>6 DEF SpentInv
  <2>3. CASE ~Anew(out) /\ spent = "no" /\ ~held
    BY <1>2, <2>3 DEF SpentInv
  <2>4. CASE ~Anew(out) /\ spent = "no" /\ held
    <3>1. ~v.unread /\ Armed(v.rec) /\ Armed(v.unit) /\ Armed(media')
      BY <1>9, <2>4 DEF Good, Journal, Inhibit
    <3>2. Spent(v.rec) /\ Spent(v.unit) /\ Spent(media')
      BY <1>9, <3>1 DEF Good, Services0, RecOK, Valid, Armed, Spent
    <3>3. spent' = "yes"
      BY <1>2, <2>4
    <3> QED
      BY <1>2, <2>4, <3>2, <3>3 DEF SpentInv
  <2> QED
    BY <1>3, <2>1, <2>2, <2>3, <2>4
<1>15. Owing(due')
  <2>1. Good(v, media') /\ ModelInv(m', s')
    BY <1>9, <1>11
  <2>2. /\ m'.basis \in Basis \cup {None} /\ v.rec.basis \in Basis \cup {None}
        /\ v.unit.basis \in Basis \cup {None} /\ media'.basis \in Basis \cup {None}
    BY <2>1 DEF Good, Services0, RecOK, Record, ModelInv, Model
  <2> DEFINE D == {m'.basis, v.rec.basis, v.unit.basis, media'.basis} \ {None}
  <2>3. D \subseteq Basis
    BY <2>2
  <2>4. \A b \in Basis : Owed(b) \in Nat
    BY CapAssumption DEF Owed, Basis, IInv, Owing
  <2>5. due' = [b \in D |-> Owed(b)]
    BY <1>2
  <2> HIDE DEF D
  <2> QED
    BY <2>3, <2>4, <2>5 DEF Owing
<1>14. DetachReleases'
  <2> SUFFICES ASSUME ~plug, ~v.unread, ~v.failed
      PROVE  v.rec.latch = "none" /\ ("sup" \in v.ctl.owners => v.rel)
    BY <1>2 DEF DetachReleases
  <2>1. v = d
    BY <1>1, <1>10 DEF low
  <2>2. ~w.unread /\ ~w.failed
    BY <1>8, <2>1
  <2> QED
    BY <1>8, <2>1, <2>2 DEF Ready0
<1> HIDE DEF o, n
<1> QED
  BY <1>2, <1>6, <1>7, <1>9, <1>11, <1>12, <1>13, <1>14, <1>15 DEF IInv

(* The record at boot could not be read: the charger stays inhibited.      *)
LEMMA RefusedKept ==
  ASSUME IInv, NEW t \in Turns, Possible(t), RefusedTurn(t)
  PROVE  IInv'
<1> DEFINE q == Polled(s, t)
           p == q.ctl
           c == SetInhibit(p, "sup", TRUE, t.io)
           w == [q EXCEPT !.ctl = c]
<1>1. t.io \in Io /\ s \in Services /\ Good(s, media) /\ s.unread
  BY DEF Turns, IInv, Good, Services0, RefusedTurn
<1>2. /\ Good(q, media) /\ SameJournal(s, q) /\ q.rel = s.rel /\ q \in Services
      /\ CtlOK(p) /\ p.owners = s.ctl.owners /\ (Off(s.ctl) => Off(p))
  BY <1>1, PolledGood DEF Good, Services0
<1> HIDE DEF p
<1>3. CtlOK(c) /\ "sup" \in c.owners /\ (Off(p) => Off(c))
  <2>1. PICK b \in BOOLEAN : b = TRUE
    OBVIOUS
  <2>2. Inhibited(p, "sup", b, SetInhibit(p, "sup", b, t.io))
    BY <1>1, <1>2, SetInhibitOK
  <2> QED
    BY <2>1, <2>2 DEF Inhibited
<1>4. Finish(w, m, {}, Observe(w, t), t)
  BY DEF RefusedTurn, p
<1> HIDE DEF c, q
<1>5. w \in Services /\ w.ctl = c /\ SameJournal(s, w) /\ w.rel = s.rel
  BY <1>2, <1>3 DEF Services, SameJournal, CtlOK
<1> HIDE DEF w
<1>6. Good(w, media)
  BY <1>1, <1>3, <1>5 DEF Good, Services0, Journal, Inhibit, SameJournal
<1>7. ModelInv(m, w)
  BY <1>1, <1>5 DEF IInv, ModelInv, NoModel, SameJournal
<1>8. StopInv(Held(w, {}), w, media)
  BY <1>1, <1>2, <1>3, <1>5 DEF IInv, StopInv, Held, SameJournal, Off
<1>9. spent = "yes" => SpentInv("yes", m, w, media) /\ (Armed(w.rec) => Armed(s.rec))
  BY <1>1, <1>5 DEF IInv, SpentInv, SameJournal
<1>10. Ready0(w, m, {})
  BY <1>1, <1>5, <1>6, <1>7, <1>8, <1>9 DEF Ready0, SameJournal
<1>11. w.ctl \in Control
  BY <1>3, <1>5 DEF CtlOK
<1> QED
  BY <1>4, <1>10, <1>11, FinishKept

(* A journal that lets go of /CE.                                          *)
LetGo(w, r, k) == [RequestPersist(w, r) EXCEPT !.rel = TRUE, !.maint = k]

LEMMA LetGoGood ==
  ASSUME NEW w, NEW d, Good(w, d), ~w.unread, ~w.rest,
         NEW r \in Record, Valid(r), r.latch = "none", NEW k \in {"idle", "waitRelease"}
  PROVE  /\ Good(LetGo(w, r, k), d) /\ SameServices(w, LetGo(w, r, k))
         /\ LetGo(w, r, k).rec = r /\ LetGo(w, r, k).rel /\ LetGo(w, r, k).maint = k
<1> DEFINE v == RequestPersist(w, r)
           u == [v EXCEPT !.rel = TRUE, !.maint = k]
<1>1. Services0(w, d) /\ Journal(w, d) /\ ~Armed(r)
  BY DEF Good, Armed
<1>2. /\ Services0(v, d) /\ Journal(v, d) /\ SameServices(w, v) /\ v.rec = r
  BY <1>1, RequestPersistGood
<1> HIDE DEF v
<1>3. /\ u \in Services /\ u.ctl = v.ctl /\ u.rec = v.rec /\ u.queued = v.queued
      /\ u.unit = v.unit /\ u.dirty = v.dirty /\ u.unread = v.unread /\ u.rest = v.rest
      /\ u.failed = v.failed /\ u.rel /\ u.maint = k
  BY <1>2 DEF Services0, Services
<1> HIDE DEF u
<1>4. Good(u, d)
  BY <1>1, <1>2, <1>3 DEF Good, Services0, Journal, Inhibit, SameServices, Armed
<1>5. LetGo(w, r, k) = u
  BY DEF LetGo, u, v
<1> QED
  BY <1>2, <1>3, <1>4, <1>5 DEF SameServices

(* A step of the maintenance: it goes on as long as the cable is in.       *)
LEMMA MaintenanceGood ==
  ASSUME NEW w, Good(w, media), ~w.unread, ~w.rest, w.maint # "idle",
         NEW t \in Turns, plug \in BOOLEAN
  PROVE  LET v == MaintenanceStep(w, t) IN
         /\ Good(v, media) /\ v.unread = w.unread /\ v.rest = w.rest
         /\ w.failed => v.failed
         /\ v.rec.latch \in {"none", w.rec.latch}
         /\ ~plug => v.rec.latch = "none" /\ v.rel /\ v.maint = "idle"
         /\ plug => /\ v.maint # "idle" /\ (Spent(w.rec) => Spent(v.rec))
                    /\ Latched(w.rec) => v = w
<1> DEFINE v == MaintenanceStep(w, t)
<1>1. /\ w.rec \in Record /\ RecOK(w.rec) /\ Valid(w.rec) /\ t.io \in Io
      /\ w \in Services /\ w.maint \in {"waitInhibit", "hold", "waitRelease"}
  BY DEF Good, Services0, Services, RecOK, Turns
<1>2. CASE ~plug
  <2> DEFINE r == [Unlatched(w.rec) EXCEPT !.used = FALSE]
  <2>1. r \in Record /\ Valid(r) /\ r.latch = "none"
    BY <1>1 DEF Unlatched, Record, Valid
  <2>2. v = LetGo(w, r, "idle")
    BY <1>2 DEF MaintenanceStep, LetGo
  <2> HIDE DEF r, v
  <2>3. /\ Good(v, media) /\ SameServices(w, v)
        /\ v.rec = r /\ v.rel /\ v.maint = "idle"
    BY <2>1, <2>2, LetGoGood
  <2> QED
    BY <1>2, <2>1, <2>3 DEF SameServices, v
<1>3. CASE plug /\ w.maint = "waitInhibit"
  <2> DEFINE k == IF Durable(w) /\ w.rec.latch = "rearm" /\ Disabled(w.ctl)
                  THEN "hold" ELSE w.maint
  <2>1. v = [w EXCEPT !.maint = k]
    BY <1>3 DEF MaintenanceStep
  <2>2. k \in {"waitInhibit", "hold"}
        /\ (k = "hold" => Durable(w) /\ w.rec.latch = "rearm")
        /\ (w.rec.latch # "rearm" => k = w.maint)
    BY <1>3
  <2> HIDE DEF k, v
  <2>3. /\ v \in Services /\ v.maint = k /\ v.ctl = w.ctl /\ v.rec = w.rec
        /\ v.queued = w.queued /\ v.unit = w.unit /\ v.dirty = w.dirty /\ v.rel = w.rel
        /\ v.rest = w.rest /\ v.unread = w.unread /\ v.failed = w.failed
        /\ (k = w.maint => v = w)
    BY <1>1, <2>1, <2>2 DEF Services
  <2>4. k = "hold" => Armed(w.rec) /\ w.unit = w.rec /\ media = w.unit
    BY <2>2 DEF Good, Journal, Durable, Armed
  <2>5. Good(v, media)
    BY <2>2, <2>3, <2>4 DEF Good, Services0, Journal, Inhibit
  <2> QED
    BY <1>3, <2>2, <2>3, <2>5 DEF Latched, v
<1>4. CASE plug /\ w.maint = "hold" /\ ~Disabled(w.ctl)
  <2>1. v = [w EXCEPT !.maint = "waitInhibit"]
    BY <1>4 DEF MaintenanceStep
  <2> HIDE DEF v
  <2>2. /\ v \in Services /\ v.maint = "waitInhibit" /\ v.ctl = w.ctl /\ v.rec = w.rec
        /\ v.queued = w.queued /\ v.unit = w.unit /\ v.dirty = w.dirty /\ v.rel = w.rel
        /\ v.rest = w.rest /\ v.unread = w.unread /\ v.failed = w.failed
    BY <1>1, <2>1 DEF Services
  <2>3. Good(v, media) /\ ~Latched(w.rec)
    BY <1>4, <2>2 DEF Good, Services0, Journal, Inhibit, Armed, Latched
  <2> QED
    BY <1>4, <2>2, <2>3 DEF v
<1>5. CASE plug /\ w.maint = "hold" /\ Disabled(w.ctl) /\ t.late
  <2> DEFINE r == [w.rec EXCEPT !.latch = "none"]
             u == LetGo(w, r, "waitRelease")
  <2>1. Armed(w.rec) /\ ~Latched(w.rec)
    BY <1>5 DEF Good, Inhibit, Armed, Latched
  <2>2. r \in Record /\ Valid(r) /\ r.latch = "none" /\ (Spent(w.rec) => Spent(r))
    BY <1>1, <2>1 DEF Record, Valid, Spent, Armed
  <2>3. v = ControlPreflight(u, t.io)
    BY <1>5 DEF MaintenanceStep, LetGo
  <2> HIDE DEF r, v
  <2>4. /\ Good(u, media) /\ SameServices(w, u)
        /\ u.rec = r /\ u.rel /\ u.maint = "waitRelease"
    BY <2>2, LetGoGood
  <2> HIDE DEF u
  <2>5. Good(v, media) /\ SameJournal(u, v)
    BY <1>1, <2>3, <2>4, PreflightGood DEF SameServices
  <2> QED
    BY <1>5, <2>1, <2>2, <2>4, <2>5 DEF SameServices, SameJournal, v
<1>6. CASE plug /\ \/ w.maint = "waitRelease"
                   \/ w.maint = "hold" /\ Disabled(w.ctl) /\ ~t.late
  <2>1. v = w
    BY <1>6 DEF MaintenanceStep
  <2> QED
    BY <1>1, <1>6, <2>1
<1> QED
  BY <1>1, <1>2, <1>3, <1>4, <1>5, <1>6

LEMMA NoModelOK == NoModel \in Model /\ NoModel.phase = "detached" /\ ~NoModel.phys /\ ~NoModel.full
BY DEF NoModel, Model, Phases

LEMMA MaintenanceKept ==
  ASSUME IInv, NEW t \in Turns, Possible(t), MaintenanceTurn(t)
  PROVE  IInv'
<1> DEFINE c == Begin(t)
           v == MaintenanceStep(c, t)
           w == TryPersist(v)
           y == IF plug THEN m ELSE NoModel
           out == IF plug THEN {} ELSE {"detached", "terminal"}
<1>1. ~s.unread /\ s.maint # "idle" /\ Finish(w, y, out, Observe(c, t), t)
  BY DEF MaintenanceTurn
<1>2. Good(s, media) /\ plug \in BOOLEAN /\ m \in Model /\ ~s.rest
  BY <1>1 DEF IInv, World, ModelInv, Good, Inhibit
<1>3. Good(c, media) /\ Stored(s, c)
  BY <1>1, <1>2, BeginGood
<1> HIDE DEF c
<1>4. c.ctl \in Control
  BY <1>3 DEF Good, Services0, CtlOK
<1>5. /\ c.rec = s.rec /\ ~c.rest /\ c.maint # "idle" /\ ~c.unread
      /\ Off(s.ctl) /\ s.rec.latch # "none" => Off(c.ctl)
  BY <1>1, <1>2, <1>3 DEF Stored
<1>6. /\ Good(v, media) /\ v.unread = c.unread /\ v.rest = c.rest
      /\ v.rec.latch \in {"none", c.rec.latch}
      /\ ~plug => v.rec.latch = "none" /\ v.rel /\ v.maint = "idle"
      /\ plug => /\ v.maint # "idle" /\ (Spent(c.rec) => Spent(v.rec))
                 /\ Latched(c.rec) => v = c
  BY <1>2, <1>3, <1>5, MaintenanceGood
<1> HIDE DEF v
<1>7. /\ Good(w, media) /\ w.unit = w.rec
      /\ w.rec = v.rec /\ w.ctl = v.ctl /\ w.rel = v.rel /\ w.rest = v.rest
      /\ w.maint = v.maint /\ w.unread = v.unread
  BY <1>5, <1>6, TryPersistGood
<1> HIDE DEF w
<1>8. ModelInv(y, w)
  BY <1>2, <1>5, <1>6, <1>7, NoModelOK DEF ModelInv
<1>9. StopInv(Held(w, out), w, media)
  <2> SUFFICES ASSUME Held(w, out) PROVE StopInv(TRUE, w, media)
    BY DEF StopInv
  <2>1. plug /\ stopped
    BY DEF Held
  <2>2. Off(s.ctl) /\ Latched(s.rec) /\ Latched(media)
    BY <1>1, <2>1 DEF IInv, StopInv, Off
  <2>3. Latched(c.rec) /\ Off(c.ctl)
    BY <1>5, <2>2 DEF Latched
  <2>4. v = c
    BY <1>6, <2>1, <2>3
  <2> QED
    BY <1>7, <2>2, <2>3, <2>4 DEF StopInv, Off
<1>10. ASSUME spent = "yes", ~Anew(out)
       PROVE  SpentInv("yes", y, w, media) /\ (Armed(w.rec) => Armed(s.rec))
  <2>1. plug
    BY <1>10 DEF Anew
  <2>2. Spent(media) /\ Spent(s.rec)
    BY <1>1, <1>10 DEF IInv, SpentInv
  <2> QED
    BY <1>5, <1>6, <1>7, <2>1, <2>2 DEF SpentInv, Armed
<1> HIDE DEF y, out
<1>11. ~w.unread /\ (~plug => w.rec.latch = "none" /\ w.rel)
  BY <1>5, <1>6, <1>7
<1>12. w.unread = s.unread
  BY <1>1, <1>2, <1>7, <1>11 DEF Good, Services0, Services
<1>13. Ready0(w, y, out)
  BY <1>7, <1>8, <1>9, <1>10, <1>11, <1>12 DEF Ready0
<1> QED
  BY <1>1, <1>4, <1>13, FinishKept

(* The journal as a turn of the model takes it up from the services as     *)
(* they were.                                                              *)
Taken(w) ==
    /\ Idle(w, media) /\ ~s.unread /\ w.rec = s.rec
    /\ Off(s.ctl) /\ s.rec.latch # "none" => Off(w.ctl)

LEMMA TurnKept ==
  ASSUME IInv, NEW t \in Turns, Possible(t), NEW c, NEW w, c.ctl = w.ctl, Taken(w),
         NEW x, NEW y, NEW out, Told(w, x, y, out, Observe(c, t)),
         y.phase = "stopping" => Latched(w.rec) \/ "stop" \in out,
         y.phase = "stopping" => "detached" \notin out,
         "stopped" \in out => Disabled(w.ctl),
         spent = "yes" => ~x.full,
         y.full => x.full \/ "fullq" \in out,
         ~y.phys => "stop" \notin out,
         ~y.phys => "detached" \in out \/ w.rec.latch = "none" \/ w.failed,
         ~plug => ~y.phys /\ ("detached" \in out \/ out = {}),
         Finish(Journalled(Settle(w, x, y, out, Observe(c, t)), t.io), y, out,
                Observe(c, t), t)
  PROVE  IInv'
<1> DEFINE o == Observe(c, t)
           u == Settle(w, x, y, out, o)
           v == Journalled(u, t.io)
<1>1. t.io \in Io /\ IInv /\ w.ctl \in Control /\ y \in Model
  BY DEF Turns, Taken, Idle, Services0, CtlOK, Told
<1>2. Requested0(w, u, media) /\ SettleDoes(w, u, x, y, out)
  BY SettleGood DEF Taken
<1> HIDE DEF o
<1>3. Finish(v, y, out, Observe(c, t), t)
  BY DEF o
<1> HIDE DEF u
<1>4. Good(u, media)
  <2>1. Latched(w.rec) => u.rec.latch # "none" \/ u.rel
    BY <1>2 DEF SettleDoes, Asked, Latched, Armed
  <2> QED
    BY <1>2, <2>1, RequestedGood DEF SettleDoes, Taken
<1>5. ~u.unread /\ ~u.rest /\ u.ctl = w.ctl
  BY <1>2 DEF SettleDoes, SameServices, Taken, Idle
<1>6. Good(v, media) /\ Stored(u, v)
  BY <1>1, <1>4, <1>5, JournalledGood
<1> HIDE DEF v
<1>7. /\ v.rec = u.rec /\ v.unit = u.rec /\ v.maint = u.maint /\ ~v.unread /\ ~v.rest
      /\ v.failed = u.failed /\ (Off(u.ctl) /\ u.rec.latch # "none" => Off(v.ctl))
      /\ "sup" \in v.ctl.owners => v.rec.latch # "none"
  BY <1>5, <1>6 DEF Stored
<1>8. /\ ~s.unread /\ w.rec = s.rec /\ ~Armed(w.rec) /\ CtlOK(w.ctl)
      /\ Off(s.ctl) /\ s.rec.latch # "none" => Off(w.ctl)
      /\ "sup" \in w.ctl.owners => Latched(w.rec) /\ Latched(media)
  BY DEF Taken, Idle, Services0
<1>9. /\ w.failed => u.failed
      /\ "stop" \in out => Latched(u.rec)
      /\ "detached" \notin out =>
            /\ Latched(w.rec) => Latched(u.rec) \/ Armed(u.rec)
            /\ Latched(u.rec) => Latched(w.rec) \/ "stop" \in out
      /\ "detached" \in out => u.rec.latch = "none" \/ u.failed
      /\ (u.maint = "idle" /\ ~Armed(u.rec)) \/ u.maint = "waitInhibit"
      /\ "detached" \notin out /\ "fullq" \notin out /\ Spent(w.rec) /\ ~x.full =>
            Spent(u.rec) /\ ~Armed(u.rec)
  BY <1>2 DEF SettleDoes, SameServices, Asked
<1>10. u.rec.latch = "none" \/ Armed(u.rec) \/ Latched(u.rec)
  BY <1>4 DEF Good, Services0, RecOK, Record, Armed, Latched
<1>11. ModelInv(y, v)
  <2>1. y.phase = "stopping" /\ v.maint = "idle" => Latched(v.rec)
    BY <1>7, <1>9
  <2>2. ~y.phys /\ v.maint = "idle" => v.rec.latch = "none" \/ v.failed
    BY <1>7, <1>8, <1>9, <1>10 DEF Latched
  <2> QED
    BY <1>1, <1>7, <2>1, <2>2 DEF ModelInv
<1>12. StopInv(Held(v, out), v, media)
  <2> SUFFICES ASSUME Held(v, out) PROVE StopInv(TRUE, v, media)
    BY DEF StopInv
  <2>1. "detached" \notin out /\ ~Armed(u.rec) /\ (stopped \/ "stopped" \in out)
    BY <1>7, <1>8 DEF Held
  <2>2. Off(w.ctl) /\ Latched(w.rec) /\ Latched(media)
    <3>1. CASE stopped
      BY <1>8, <3>1 DEF IInv, StopInv, Off, Latched
    <3>2. CASE "stopped" \in out
      BY <1>8, <3>2 DEF Disabled, CtlOK, Off, Reading
    <3> QED
      BY <2>1, <3>1, <3>2
  <2>3. Latched(u.rec)
    BY <1>9, <2>1, <2>2
  <2>4. Off(v.ctl)
    BY <1>5, <1>7, <2>2, <2>3 DEF Latched
  <2> QED
    BY <1>7, <2>2, <2>3, <2>4 DEF StopInv, Off
<1>13. ASSUME spent = "yes", ~Anew(out)
       PROVE  SpentInv("yes", y, v, media) /\ (Armed(v.rec) => Armed(s.rec))
  <2>1. Spent(media) /\ Spent(s.rec)
    BY <1>8, <1>13 DEF IInv, SpentInv
  <2>2. "detached" \notin out /\ "fullq" \notin out
    BY <1>13, <2>1 DEF Anew, Spent
  <2>3. Spent(u.rec) /\ ~Armed(u.rec) /\ ~y.full
    BY <1>8, <1>9, <1>13, <2>1, <2>2
  <2> QED
    BY <1>7, <2>1, <2>3 DEF SpentInv
<1>14. ~plug /\ ~v.failed => v.rec.latch = "none"
  <2> SUFFICES ASSUME ~plug, ~v.failed PROVE u.rec.latch = "none"
    BY <1>7
  <2>1. CASE "detached" \in out
    BY <1>7, <1>9, <2>1
  <2>2. CASE out = {}
    <3>1. u = w
      BY <2>2 DEF u, Settle, MaintenanceReady, o, Observe
    <3> QED
      BY <1>7, <1>9, <2>2, <3>1
  <2> QED
    BY <2>1, <2>2
<1>15. v.unread = s.unread
  BY <1>6, <1>7, <1>8 DEF IInv, Good, Services0, Services
<1>16. Ready0(v, y, out)
  BY <1>6, <1>7, <1>11, <1>12, <1>13, <1>14, <1>15 DEF Ready0
<1> QED
  BY <1>1, <1>3, <1>16, FinishKept

(* Between two turns of the model the journal is at rest.                  *)
LEMMA TakenUp ==
  ASSUME NEW b, Good(b, media), Stored(s, b), ~s.unread, ~Armed(b.rec), NEW w \in Services,
         w.ctl = b.ctl, w.rec = b.rec, w.queued = b.queued, w.unit = b.unit,
         w.dirty = b.dirty, w.rel = b.rel, w.unread = b.unread,
         ~w.rest, w.maint = "idle"
  PROVE  Taken(w)
<1>1. Services0(w, media) /\ Journal(w, media) /\ ~w.unread /\ ~Armed(w.rec)
  BY DEF Good, Services0, Journal, Stored
<1>2. ASSUME "sup" \in w.ctl.owners
      PROVE  Latched(w.rec) /\ Latched(w.unit) /\ Latched(media)
  BY <1>1, <1>2 DEF Good, Inhibit, Stored
<1>3. w.rec = s.rec /\ (Off(s.ctl) /\ s.rec.latch # "none" => Off(w.ctl))
  BY DEF Stored
<1> QED
  BY <1>1, <1>2, <1>3 DEF Taken, Idle

(* What is restored of a charge, with the cable in.                        *)
LEMMA RestoreMade ==
  ASSUME NEW w, w.rec \in Record, ~Armed(w.rec), NEW o, o.ctl = w.ctl
  PROVE  LET r == Restore(w.rec, o) IN
         /\ Told(w, NoModel, r.x, r.out, o) /\ r.x.phys
         /\ r.x.phase = "stopping" => Latched(w.rec)
         /\ r.x.full => "fullq" \in r.out
         /\ \A e \in {"stop", "stopped", "detached"} : e \notin r.out
<1> DEFINE r == w.rec
           matches == /\ IF r.latch # "none" THEN Disabled(o.ctl)
                         ELSE Enabled(o.ctl) /\ o.charger \in {"active", "full"}
                      /\ OnBasis(r.basis, o)
           over == r.latch # "none" /\ r.last = r.latch /\ r.lastNow
           x == [NoModel EXCEPT !.phys = TRUE, !.basis = r.basis, !.auth = TRUE]
           z == Restore(r, o)
<1>1. CASE ~matches
  <2> DEFINE y == Ended([NoModel EXCEPT !.phys = TRUE], "degraded", FALSE)
  <2>1. y \in Model /\ y.phys /\ y.phase = "degraded" /\ ~y.full
    BY DEF Ended, NoModel, Model, Phases
  <2>2. z.x = y /\ z.out = {"terminal", "rejected"}
    BY <1>1 DEF Restore
  <2> HIDE DEF z, y
  <2> QED
    BY <2>1, <2>2, NoModelOK DEF Told, z
<1>2. CASE matches /\ over
  <2> DEFINE k == IF r.latch = "full" THEN "completeSw" ELSE "safety"
             y == Ended(x, k, r.latch = "full")
  <2>1. y \in Model /\ y.phys /\ y.phase = k /\ (y.full <=> r.latch = "full")
    BY DEF Ended, NoModel, Model, Phases, Record
  <2>2. z.x = y /\ z.out = {"restored"} \cup IF r.latch = "full" THEN {"fullq"} ELSE {}
    BY <1>2 DEF Restore
  <2> HIDE DEF z, y
  <2> QED
    BY <2>1, <2>2, NoModelOK DEF Told, z
<1>3. CASE matches /\ ~over
  <2> DEFINE y == [x EXCEPT !.phase = IF r.latch = "none" THEN "charging" ELSE "stopping",
                            !.stop = r.latch, !.seen = r.latch # "none",
                            !.cand = IF r.latch = "full" THEN "sw" ELSE "none"]
  <2>1. r.latch \in {"none", "full", "safety"} /\ r.basis \in Basis \cup {None}
    BY DEF Record, Armed
  <2>2. y \in Model /\ y.phys /\ ~y.full /\ (y.phase = "stopping" => r.latch # "none")
    BY <2>1 DEF NoModel, Model, Phases
  <2>3. z.x = y /\ z.out = {"restored"}
    BY <1>3 DEF Restore
  <2> HIDE DEF z, y
  <2> QED
    BY <2>1, <2>2, <2>3, NoModelOK DEF Told, Latched, z
<1> QED
  BY <1>1, <1>2, <1>3

LEMMA RestoreKept ==
  ASSUME IInv, NEW t \in Turns, Possible(t), RestoreTurn(t)
  PROVE  IInv'
<1> DEFINE b == Begin(t)
           w == [b EXCEPT !.rest = FALSE]
           o == Observe(w, t)
           r == IF plug THEN Restore(w.rec, o)
                ELSE [x |-> m, out |-> {"detached", "terminal"}]
           ready == o.status /\ o.sample /\ o.ctl.read # "unknown"
<1>1. /\ ~s.unread /\ s.maint = "idle" /\ s.rest
      /\ IF plug /\ ~ready THEN Finish(Journalled(b, t.io), m, {}, o, t)
         ELSE Finish(Journalled(Settle(w, m, r.x, r.out, o), t.io), r.x, r.out, o, t)
  BY DEF RestoreTurn
<1> HIDE DEF b
<1>2. /\ Good(s, media) /\ m = NoModel /\ m \in Model /\ t.io \in Io
  BY <1>1 DEF IInv, ModelInv, Turns
<1>3. Good(b, media) /\ Stored(s, b)
  BY <1>1, <1>2, BeginGood DEF b
<1>4. /\ b \in Services /\ ~b.unread /\ b.rest /\ b.maint = "idle" /\ b.rec = s.rec
      /\ ~Armed(b.rec)
      /\ Off(s.ctl) /\ s.rec.latch # "none" => Off(b.ctl)
  BY <1>1, <1>3 DEF Good, Services0, Inhibit, Stored
<1>5. /\ w \in Services /\ w.ctl = b.ctl /\ w.rec = b.rec /\ w.queued = b.queued
      /\ w.unit = b.unit /\ w.dirty = b.dirty /\ w.rel = b.rel /\ w.unread = b.unread
      /\ ~w.rest /\ w.maint = "idle"
  BY <1>4 DEF Services
<1> HIDE DEF w
<1>6. o.ctl = w.ctl /\ w.ctl \in Control /\ w.rec \in Record /\ ~Armed(w.rec)
  BY <1>4, <1>5 DEF Observe, Services
<1>7. Taken(w)
  BY <1>1, <1>3, <1>4, <1>5, TakenUp
<1>8. CASE plug /\ ~ready
  <2> DEFINE v == Journalled(b, t.io)
  <2>1. Finish(v, m, {}, Observe(w, t), t)
    BY <1>1, <1>8
  <2>2. Good(v, media) /\ Stored(b, v)
    BY <1>2, <1>3, <1>4, JournalledGood
  <2> HIDE DEF v
  <2>3. /\ v.rec = s.rec /\ v.unit = s.rec /\ ~v.unread /\ v.rest /\ v.maint = "idle"
        /\ Off(b.ctl) /\ s.rec.latch # "none" => Off(v.ctl)
    BY <1>4, <2>2 DEF Stored
  <2>4. ModelInv(m, v)
    BY <1>2, <2>3, NoModelOK DEF ModelInv
  <2>5. StopInv(Held(v, {}), v, media)
    BY <1>1, <1>4, <2>3 DEF IInv, StopInv, Held, Off, Latched
  <2>6. spent = "yes" => SpentInv("yes", m, v, media) /\ (Armed(v.rec) => Armed(s.rec))
    BY <1>1, <1>2, <2>3, NoModelOK DEF IInv, SpentInv
  <2>7. v.unread = s.unread
    BY <1>1, <1>2, <2>2, <2>3 DEF Good, Services0, Services
  <2>8. Ready0(v, m, {})
    BY <1>8, <2>2, <2>3, <2>4, <2>5, <2>6, <2>7 DEF Ready0
  <2> QED
    BY <1>6, <2>1, <2>8, FinishKept
<1>9. CASE ~plug
  <2> DEFINE out == {"detached", "terminal"}
  <2>1. Finish(Journalled(Settle(w, m, m, out, Observe(w, t)), t.io), m, out,
               Observe(w, t), t)
    BY <1>1, <1>9
  <2>2. Told(w, m, m, out, Observe(w, t))
    BY <1>2, <1>6 DEF Told
  <2> HIDE DEF o
  <2> QED
    BY <1>2, <1>7, <1>9, <2>1, <2>2, NoModelOK, TurnKept
<1>10. CASE plug /\ ready
  <2> DEFINE z == Restore(w.rec, Observe(w, t))
  <2>1. Finish(Journalled(Settle(w, m, z.x, z.out, Observe(w, t)), t.io), z.x, z.out,
               Observe(w, t), t)
    BY <1>1, <1>10
  <2>2. /\ Told(w, NoModel, z.x, z.out, Observe(w, t)) /\ z.x.phys
        /\ z.x.phase = "stopping" => Latched(w.rec)
        /\ z.x.full => "fullq" \in z.out
        /\ \A e \in {"stop", "stopped", "detached"} : e \notin z.out
    BY <1>6, RestoreMade
  <2> HIDE DEF o, z
  <2>3. Told(w, m, z.x, z.out, Observe(w, t))
    BY <1>2, <2>2
  <2> QED
    BY <1>2, <1>7, <1>10, <2>1, <2>2, <2>3, NoModelOK, TurnKept
<1> QED
  BY <1>8, <1>9, <1>10

LEMMA ModelKept ==
  ASSUME IInv, NEW t \in Turns, Possible(t), ModelTurn(t)
  PROVE  IInv'
<1> DEFINE b == Begin(t)
           again == RearmDone(b)
           x == IF again THEN NoModel ELSE m
           o == Observe(b, t)
           r == Update(x, o)
           out == r.out \cup IF again THEN {"restarted"} ELSE {}
           w == [b EXCEPT !.maint = "idle"]
<1>1. /\ ~s.unread /\ ~s.rest /\ (s.maint = "idle" \/ again)
      /\ Finish(Journalled(Settle(w, x, r.x, out, o), t.io), r.x, out, o, t)
  BY DEF ModelTurn
<1> HIDE DEF b
<1>2. Good(s, media) /\ m \in Model /\ plug \in BOOLEAN
  BY DEF IInv, ModelInv, World
<1>3. Good(b, media) /\ Stored(s, b)
  BY <1>1, <1>2, BeginGood DEF b
<1>4. /\ b \in Services /\ ~b.unread /\ ~b.rest /\ b.maint = s.maint /\ b.rec = s.rec
      /\ b.failed = s.failed
  BY <1>1, <1>3 DEF Good, Services0, Stored
<1>5. ~Armed(b.rec)
  BY <1>1, <1>3, <1>4 DEF Good, Inhibit, RearmDone, Armed
<1>6. /\ w \in Services /\ w.ctl = b.ctl /\ w.rec = b.rec /\ w.queued = b.queued
      /\ w.unit = b.unit /\ w.dirty = b.dirty /\ w.rel = b.rel /\ w.unread = b.unread
      /\ ~w.rest /\ w.maint = "idle" /\ w.failed = b.failed
  BY <1>4 DEF Services
<1> HIDE DEF w
<1>7. o.ctl = w.ctl /\ o.plug = plug /\ b.ctl \in Control
  BY <1>4, <1>6 DEF Observe, Services
<1>8. Taken(w)
  BY <1>1, <1>3, <1>5, <1>6, TakenUp
<1>9. x \in Model /\ (spent = "yes" => ~x.full) /\ (x.phase = "stopping" => Latched(w.rec))
  BY <1>1, <1>2, <1>4, <1>6, NoModelOK DEF IInv, SpentInv, ModelInv
<1>10. CASE plug
  <2>1. Seen(o)
    BY <1>7, ObserveSeen DEF IInv, World
  <2>2. Made(x, r, o)
    BY <1>7, <1>9, <1>10, <2>1, UpdateMade
  <2> HIDE DEF x, o, r, again
  <2>3. /\ \A e \in {"stop", "stopped", "terminal", "fullq"} : e \in out <=> e \in r.out
        /\ "detached" \notin out /\ (out = {} => r.out = {})
    BY <2>2 DEF Made
  <2> HIDE DEF out
  <2>4. Told(w, x, r.x, out, o)
    BY <1>7, <1>9, <2>2, <2>3 DEF Told, Made, Enabled, Requested
  <2>5. /\ r.x.phase = "stopping" => Latched(w.rec) \/ "stop" \in out
        /\ "stopped" \in out => Disabled(w.ctl)
        /\ r.x.full => x.full \/ "fullq" \in out
        /\ r.x.phys
    BY <1>7, <1>9, <2>2, <2>3 DEF Made
  <2> DEFINE y == r.x
  <2>6. Finish(Journalled(Settle(w, x, y, out, Observe(b, t)), t.io), y, out,
               Observe(b, t), t)
    BY <1>1 DEF o
  <2>7. /\ Told(w, x, y, out, Observe(b, t))
        /\ y.phase = "stopping" => Latched(w.rec) \/ "stop" \in out
        /\ "stopped" \in out => Disabled(w.ctl)
        /\ y.full => x.full \/ "fullq" \in out
        /\ y.phys
    BY <2>4, <2>5 DEF o
  <2> HIDE DEF y
  <2> QED
    BY <1>6, <1>8, <1>9, <1>10, <2>3, <2>6, <2>7, TurnKept
<1>11. CASE ~plug /\ m.phys
  <2>1. ~again /\ s.maint = "idle"
    BY <1>1, <1>11 DEF RearmDone
  <2>2. x = m /\ r.x = NoModel /\ out = {"detached", "terminal"}
    BY <1>7, <1>11, <2>1 DEF Update, Step
  <2> HIDE DEF x, r, out
  <2>3. Told(w, x, NoModel, out, o)
    BY <1>7, <1>9, <2>2, NoModelOK DEF Told
  <2> QED
    BY <1>1, <1>6, <1>8, <1>9, <1>11, <2>2, <2>3, NoModelOK, TurnKept
<1>12. CASE ~plug /\ ~m.phys
  <2>1. ~again /\ s.maint = "idle"
    BY <1>1, <1>12 DEF RearmDone
  <2>2. x = m /\ r.x = m /\ out = {}
    BY <1>7, <1>12, <2>1 DEF Update
  <2> HIDE DEF x, r, out
  <2>3. Told(w, x, m, out, o)
    BY <1>2, <1>7, <1>9, <2>2 DEF Told
  <2>4. w.rec.latch = "none" \/ w.failed
    BY <1>1, <1>4, <1>6, <1>12, <2>1 DEF IInv, ModelInv
  <2> QED
    BY <1>1, <1>6, <1>8, <1>9, <1>12, <2>2, <2>3, <2>4, TurnKept
<1> QED
  BY <1>2, <1>10, <1>11, <1>12

-----------------------------------------------------------------------------
(* The store, the pack, the cable and the processor.                       *)

LEMMA NoRecordOK == RecOK(NoRecord) /\ NoRecord.latch = "none" /\ ~Spent(NoRecord)
BY DEF RecOK, NoRecord, Record, Valid, Spent

LEMMA InitKept == Init => IInv
<1> SUFFICES ASSUME Init PROVE IInv
  OBVIOUS
<1>1. /\ s \in Services /\ CtlOK(s.ctl) /\ s.ctl.owners = {} /\ s.rec = NoRecord
      /\ s.unit = NoRecord /\ ~s.rel /\ ~s.rest /\ ~s.queued /\ s.maint = "idle"
      /\ ~s.unread /\ media = NoRecord
  BY NoRecordOK DEF Init, Services, Control, CtlOK, Reading, RecOK
<1>2. Good(s, media)
  BY <1>1, NoRecordOK DEF Good, Services0, Journal, Inhibit, Armed
<1>3. ModelInv(m, s)
  BY <1>1, NoModelOK, NoRecordOK DEF Init, ModelInv
<1>4. StopInv(stopped, s, media) /\ SpentInv(spent, m, s, media)
  BY DEF Init, StopInv, SpentInv
<1>5. GaugeInv(l, session, lm, resets)
  <2>1. lm \in Packs /\ l \in Learner
    BY BudgetAssumption DEF Init, Packs, Learner, Sessions
  <2>2. 0 \in Sessions /\ 0 # None
    BY BudgetAssumption, NoneAssumption DEF Sessions
  <2> QED
    BY <2>1, <2>2 DEF Init, GaugeInv, Behind
<1>6. World
  <2>1. acr \in Acr /\ faults \in 0..MaxFaults
        /\ resets \in 0..MaxResets /\ plugs \in 0..MaxPlugs
    BY BudgetAssumption DEF Init, Acr
  <2>2. /\ plug \in BOOLEAN /\ bq \in {"active", "full", "fault"} /\ looked \in BOOLEAN
        /\ stopped \in BOOLEAN /\ early \in BOOLEAN /\ lapsed \in BOOLEAN
    BY DEF Init
  <2> QED
    BY <2>1, <2>2 DEF World
<1>8. Owing(due)
  BY DEF Init, Owing
<1>7. DetachReleases
  BY <1>1, NoRecordOK DEF DetachReleases
<1> QED
  BY <1>2, <1>3, <1>4, <1>5, <1>6, <1>7, <1>8 DEF IInv

(* A step that leaves the services, the learner and their records alone.   *)
LEMMA PackKept ==
  ASSUME IInv, UNCHANGED <<s, m, l, flash, session, resets, stopped, spent>>,
         World', Owing(due'), looked' => UNCHANGED <<plug, looked>>
  PROVE  IInv'
<1>1. s' = s /\ m' = m /\ l' = l /\ media' = media /\ lm' = lm /\ session' = session
      /\ resets' = resets /\ stopped' = stopped /\ spent' = spent
  BY DEF flash
<1>2. DetachReleases'
  BY <1>1 DEF IInv, DetachReleases
<1> QED
  BY <1>1, <1>2 DEF IInv

LEMMA CommitKept == IInv /\ Commit => IInv'
<1> SUFFICES ASSUME IInv, Commit PROVE IInv'
  OBVIOUS
<1>1. /\ s' = [s EXCEPT !.dirty = FALSE] /\ media' = s.unit
      /\ UNCHANGED <<plug, bq, acr, session, m, l, lm, looked, stopped, spent,
                     due, early, lapsed, faults, resets, plugs>>
  BY DEF Commit, pack, history, count, budgets
<1>2. Good(s, media) /\ s \in Services
  BY DEF IInv, Good, Services0
<1>3. /\ s' \in Services /\ s'.ctl = s.ctl /\ s'.rec = s.rec /\ s'.unit = s.unit
      /\ s'.rel = s.rel /\ s'.maint = s.maint /\ s'.rest = s.rest /\ s'.queued = s.queued
      /\ s'.unread = s.unread /\ s'.failed = s.failed /\ ~s'.dirty
  BY <1>1, <1>2 DEF Services
<1>4. Good(s', media')
  BY <1>1, <1>2, <1>3 DEF Good, Services0, Journal, Inhibit
<1>5. ModelInv(m, s')
  BY <1>3 DEF IInv, ModelInv
<1>6. StopInv(stopped, s', media') /\ SpentInv(spent, m, s', media')
  BY <1>1, <1>3 DEF IInv, StopInv, SpentInv
<1>7. DetachReleases' /\ World' /\ GaugeInv(l', session', lm', resets')
  BY <1>1, <1>3 DEF IInv, DetachReleases, World
<1> QED
  BY <1>1, <1>4, <1>5, <1>6, <1>7 DEF IInv

LEMMA CommitLearnerKept == IInv /\ CommitLearner => IInv'
<1> SUFFICES ASSUME IInv, CommitLearner PROVE IInv'
  OBVIOUS
<1>1. /\ lm' = l.pack
      /\ UNCHANGED <<plug, bq, acr, session, s, m, l, media, looked, stopped,
                     spent, due, early, lapsed, faults, resets, plugs>>
  BY DEF CommitLearner, pack, history, count, budgets
<1>2. GaugeInv(l, session, lm', resets)
  BY <1>1, BudgetAssumption DEF IInv, GaugeInv, Learner, Packs
<1> QED
  BY <1>1, <1>2 DEF IInv, World, DetachReleases

LEMMA PackStepKept ==
  IInv /\ (\/ \E unit \in {1, -1} : Count(unit)
           \/ Plug \/ Unplug \/ \E stat \in {"full", "fault"} : BqEnds(stat)) => IInv'
<1> SUFFICES ASSUME IInv PROVE
      (\/ \E unit \in {1, -1} : Count(unit)
       \/ Plug \/ Unplug \/ \E stat \in {"full", "fault"} : BqEnds(stat)) => IInv'
  OBVIOUS
<1>1. World /\ Owing(due)
  BY DEF IInv
<1>2. ASSUME NEW unit \in {1, -1}, Count(unit) PROVE IInv'
  <2>1. World'
    <3>1. UNCHANGED <<plug, bq, looked, stopped, early, lapsed, faults, resets, plugs>>
          /\ acr' \in Acr
      BY <1>2 DEF Count, budgets
    <3> QED
      BY <1>1, <3>1 DEF World
  <2>2. Owing(due')
    <3> DEFINE D == DOMAIN due
    <3>1. due' = [b \in D |-> IF due[b] = 0 THEN 0 ELSE due[b] - unit]
      BY <1>2 DEF Count
    <3>2. D \subseteq Basis /\ \A b \in D : due[b] \in Nat
      BY <1>1 DEF Owing
    <3>3. \A b \in D : (IF due[b] = 0 THEN 0 ELSE due[b] - unit) \in Nat
      BY <3>2
    <3> HIDE DEF D
    <3> QED
      BY <3>1, <3>2, <3>3 DEF Owing
  <2> QED
    BY <1>2, <2>1, <2>2, PackKept DEF Count, flash, budgets
<1>4. ASSUME Plug PROVE IInv'
  <2>1. World'
    <3>1. plugs' \in 0..MaxPlugs
      BY <1>1, <1>4, BudgetAssumption DEF Plug, World
    <3>2. plug' \in BOOLEAN /\ looked' \in BOOLEAN
      BY <1>4 DEF Plug
    <3>3. UNCHANGED <<bq, acr, stopped, early, lapsed, faults, resets>>
      BY <1>4 DEF Plug, count
    <3> QED
      BY <1>1, <3>1, <3>2, <3>3 DEF World
  <2> QED
    BY <1>1, <1>4, <2>1, PackKept DEF Plug, flash, count
<1>5. ASSUME Unplug PROVE IInv'
  <2>1. World'
    BY <1>1, <1>5 DEF Unplug, World, budgets, count
  <2> QED
    BY <1>1, <1>5, <2>1, PackKept DEF Unplug, flash, budgets, count
<1>6. ASSUME NEW stat \in {"full", "fault"}, BqEnds(stat) PROVE IInv'
  <2>1. World'
    <3>1. faults' \in 0..MaxFaults
      BY <1>1, <1>6, BudgetAssumption DEF BqEnds, World
    <3>2. bq' \in {"active", "full", "fault"}
      BY <1>6 DEF BqEnds
    <3>3. UNCHANGED <<plug, acr, looked, stopped, early, lapsed, resets, plugs>>
      BY <1>6 DEF BqEnds, history, count
    <3> QED
      BY <1>1, <3>1, <3>2, <3>3 DEF World
  <2> QED
    BY <1>1, <1>6, <2>1, PackKept DEF BqEnds, flash, history, count
<1> QED
  BY <1>2, <1>4, <1>5, <1>6


LEMMA DebugKept == \A inhibit \in BOOLEAN : IInv /\ Debug(inhibit) => IInv'
<1> SUFFICES ASSUME NEW inhibit \in BOOLEAN, IInv, Debug(inhibit) PROVE IInv'
  OBVIOUS
<1> DEFINE c == SetInhibit(s.ctl, "dbg", inhibit, "ok")
<1>1. /\ s' = [s EXCEPT !.ctl = c]
      /\ faults' = faults + (IF inhibit THEN 1 ELSE 0) /\ (inhibit => faults < MaxFaults)
      /\ bq' = (IF plug /\ s'.ctl.ce THEN bq ELSE "active")
      /\ UNCHANGED <<plug, acr, session, m, l, media, lm, looked, stopped, spent,
                     due, early, lapsed, resets, plugs>>
  BY DEF Debug, flash, history, count
<1>2. Good(s, media) /\ s \in Services /\ CtlOK(s.ctl)
  BY DEF IInv, Good, Services0
<1>3. CtlOK(c) /\ ("sup" \in c.owners <=> "sup" \in s.ctl.owners) /\ (Off(s.ctl) => Off(c))
  <2>1. "ok" \in Io
    BY DEF Io
  <2>2. Inhibited(s.ctl, "dbg", inhibit, c)
    BY <1>2, <2>1, SetInhibitOK
  <2> QED
    BY <2>2 DEF Inhibited
<1> HIDE DEF c
<1>4. s' \in Services /\ s'.ctl = c /\ SameJournal(s, s') /\ s'.rel = s.rel
  BY <1>1, <1>2, <1>3 DEF Services, SameJournal, CtlOK
<1>5. Good(s', media)
  BY <1>2, <1>3, <1>4 DEF Good, Services0, Journal, Inhibit, SameJournal
<1>6. ModelInv(m, s')
  BY <1>4 DEF IInv, ModelInv, SameJournal
<1>7. StopInv(stopped, s', media) /\ SpentInv(spent, m, s', media)
  BY <1>3, <1>4 DEF IInv, StopInv, SpentInv, SameJournal, Off
<1>8. World'
  BY <1>1, BudgetAssumption DEF IInv, World
<1>9. DetachReleases' /\ GaugeInv(l', session', lm', resets') /\ Owing(due')
  <2>1. "sup" \in s'.ctl.owners <=> "sup" \in s.ctl.owners
    BY <1>3, <1>4
  <2> QED
    BY <1>1, <1>4, <2>1 DEF IInv, DetachReleases, SameJournal
<1> QED
  BY <1>1, <1>5, <1>6, <1>7, <1>8, <1>9 DEF IInv

LEMMA ResetKept ==
  ASSUME IInv, NEW por \in BOOLEAN, NEW io \in Io, NEW bad \in BOOLEAN, Reset(por, io, bad)
  PROVE  IInv'
<1> DEFINE cost == (IF io = "ok" THEN 0 ELSE 1) + IF bad THEN 1 ELSE 0
           ow == IF media.latch # "none" \/ bad THEN {"sup"} ELSE {}
           ce0 == ~por /\ s.ctl.ce
           c == [owners |-> ow, read |-> "unknown", ce |-> ce0]
           rearm == ~bad /\ media.latch = "rearm"
           rest0 == ~bad /\ ~rearm /\ media.basis # None
<1>1. /\ resets < MaxResets /\ faults + cost <= MaxFaults
      /\ s' = [ctl |-> ApplyTarget(c, io), rec |-> IF bad THEN NoRecord ELSE media,
               queued |-> FALSE, unit |-> media, dirty |-> FALSE, rel |-> FALSE,
               rest |-> rest0, maint |-> IF rearm THEN "waitInhibit" ELSE "idle",
               unread |-> bad, failed |-> FALSE]
      /\ m' = NoModel
      /\ l' = [bound |-> None, pack |-> lm]
      /\ acr' = (IF por THEN 0 ELSE acr) /\ session' = (IF por THEN 1 ELSE 0)
      /\ bq' = (IF plug /\ s'.ctl.ce THEN bq ELSE "active")
      /\ looked' = FALSE /\ lapsed' \in BOOLEAN
      /\ faults' = faults + cost /\ resets' = resets + 1
      /\ UNCHANGED <<plug, media, lm, stopped, spent, due, early, plugs>>
  BY DEF Reset, flash, IInv, World
<1>2. /\ World /\ RecOK(media) /\ media \in Record /\ s.ctl \in Control
      /\ StopInv(stopped, s, media) /\ SpentInv(spent, m, s, media)
      /\ GaugeInv(l, session, lm, resets)
  BY DEF IInv, Good, Services0, RecOK, CtlOK
<1>3. c \in Control
  <2>1. ce0 \in BOOLEAN /\ ow \in SUBSET {"sup", "dbg"}
    BY <1>2 DEF Control
  <2> HIDE DEF ce0, ow
  <2> QED
    BY <2>1 DEF Control
<1> DEFINE k == ApplyTarget(c, io)
<1>4. CtlOK(k) /\ k.owners = ow /\ (Off(c) => Off(k))
  <2> HIDE DEF ow, ce0
  <2>1. c.owners = ow
    OBVIOUS
  <2> HIDE DEF c
  <2> QED
    BY <1>3, <2>1, ApplyTargetOK
<1>5. rest0 \in BOOLEAN /\ rearm \in BOOLEAN
  OBVIOUS
<1>6. /\ s' \in Services /\ s'.ctl = k /\ s'.rec = (IF bad THEN NoRecord ELSE media)
      /\ ~s'.queued /\ s'.unit = media /\ ~s'.dirty /\ ~s'.rel /\ (s'.rest <=> rest0)
      /\ s'.maint = (IF rearm THEN "waitInhibit" ELSE "idle") /\ (s'.unread <=> bad)
  <2> HIDE DEF rest0, k, rearm, c
  <2> DEFINE rc == IF bad THEN NoRecord ELSE media
             mt == IF rearm THEN "waitInhibit" ELSE "idle"
  <2>1. rc \in Record /\ mt \in {"waitInhibit", "idle"}
    BY <1>2, NoRecordOK DEF RecOK
  <2>2. k \in Control
    BY <1>4 DEF CtlOK
  <2>3. s' = [ctl |-> k, rec |-> rc, queued |-> FALSE, unit |-> media, dirty |-> FALSE,
              rel |-> FALSE, rest |-> rest0, maint |-> mt, unread |-> bad, failed |-> FALSE]
    BY <1>1 DEF k
  <2> HIDE DEF rc, mt
  <2>4. /\ s' \in Services /\ s'.ctl = k /\ s'.rec = rc
        /\ ~s'.queued /\ s'.unit = media /\ ~s'.dirty /\ ~s'.rel /\ (s'.rest <=> rest0)
        /\ s'.maint = mt /\ (s'.unread <=> bad)
    BY <1>2, <1>5, <2>1, <2>2, <2>3 DEF Services
  <2> QED
    BY <2>4 DEF rc, mt
<1> HIDE DEF k, c, ce0
<1>7. Good(s', media)
  <2>1. Services0(s', media)
    BY <1>2, <1>4, <1>6, NoRecordOK DEF Services0
  <2>2. Journal(s', media)
    BY <1>6 DEF Journal
  <2>3. Inhibit(s', media)
    <3> SUFFICES ASSUME ~bad PROVE Inhibit(s', media)
      BY <1>6 DEF Inhibit
    <3> QED
      BY <1>2, <1>4, <1>6 DEF Inhibit, Armed, Latched, Record
  <2> QED
    BY <2>1, <2>2, <2>3 DEF Good
<1>8. ModelInv(NoModel, s')
  <2>1. ASSUME ~s'.rest, ~s'.unread, s'.maint = "idle" PROVE s'.rec.latch = "none"
    BY <1>2, <1>6, <2>1 DEF RecOK, Valid, Record
  <2> QED
    BY <2>1, NoModelOK DEF ModelInv
<1>9. StopInv(stopped, s', media)
  <2> SUFFICES ASSUME stopped PROVE StopInv(TRUE, s', media)
    BY DEF StopInv
  <2>1. ~s.ctl.ce /\ Latched(media)
    BY <1>2 DEF StopInv
  <2>2. Off(c)
    BY <2>1 DEF Off, c, ce0, Latched
  <2> QED
    BY <1>4, <1>6, <2>1, <2>2 DEF StopInv, Off
<1>10. SpentInv(spent, NoModel, s', media)
  BY <1>2, <1>6, NoModelOK DEF SpentInv
<1>11. GaugeInv(l', session', lm', resets')
  <2>1. /\ lm \in Packs /\ lm \in Int /\ l.pack \in Int
        /\ lm <= l.pack /\ l.pack <= resets /\ resets \in 0..MaxResets
    BY <1>2, BudgetAssumption DEF GaugeInv, Learner, Packs, World
  <2>2. session' \in Sessions /\ session' \in {0, 1}
    BY <1>1, BudgetAssumption DEF Sessions
  <2>3. /\ l'.pack = lm /\ l'.bound = None /\ l' \in Learner
        /\ lm' = lm /\ resets' = resets + 1
    BY <1>1, <2>1 DEF Learner
  <2> QED
    BY <2>1, <2>2, <2>3, BudgetAssumption DEF GaugeInv, Behind
<1>12. World'
  <2>1. acr' \in Acr /\ faults' \in 0..MaxFaults /\ resets' \in 0..MaxResets
        /\ bq' \in {"active", "full", "fault"}
    BY <1>1, <1>2, BudgetAssumption DEF World, Acr
  <2> QED
    BY <1>1, <1>2, <2>1 DEF World
<1>13. DetachReleases' /\ Owing(due')
  BY <1>1 DEF IInv, DetachReleases
<1> QED
  BY <1>1, <1>7, <1>8, <1>9, <1>10, <1>11, <1>12, <1>13 DEF IInv

-----------------------------------------------------------------------------

\* Every step keeps the journal, the arbiter and the model of the charge in
\* agreement: what SupervisorInvariant rests on.
LEMMA NextKept == IInv /\ [Next]_vars => IInv'
<1> SUFFICES ASSUME IInv, [Next]_vars PROVE IInv'
  OBVIOUS
<1>1. ASSUME NEW t \in Choices, Turn(t) PROVE IInv'
  <2>1. t \in Turns
    BY ChoicesAreTurns
  <2> QED
    BY <1>1, <2>1, RefusedKept, MaintenanceKept, RestoreKept, ModelKept DEF Turn
<1>2. ASSUME Commit \/ CommitLearner PROVE IInv'
  BY <1>2, CommitKept, CommitLearnerKept
<1>3. ASSUME \/ \E unit \in {1, -1} : Count(unit)
             \/ Plug \/ Unplug \/ \E stat \in {"full", "fault"} : BqEnds(stat)
      PROVE  IInv'
  BY <1>3, PackStepKept
<1>4. ASSUME NEW inhibit \in BOOLEAN, Debug(inhibit) PROVE IInv'
  BY <1>4, DebugKept
<1>5. ASSUME NEW por \in BOOLEAN, NEW bad \in BOOLEAN, NEW io \in Io, Reset(por, io, bad)
      PROVE  IInv'
  BY <1>5, ResetKept
<1>6. CASE UNCHANGED vars
  <2>1. UNCHANGED <<plug, bq, acr, session, s, m, l, media, lm, looked, stopped,
                    spent, due, early, lapsed, faults, resets, plugs>>
    BY <1>6 DEF vars, pack, flash, history, count, budgets
  <2> QED
    BY <2>1 DEF IInv, World, DetachReleases
<1> QED
  BY <1>1, <1>2, <1>3, <1>4, <1>5, <1>6 DEF Next

\* The journal of battery_charge_supervisor_service.c, the arbiter of /CE, the
\* model of the charge and the records on flash agree in every state, whatever
\* access fails and whenever a reset falls.
THEOREM SupervisorInvariant == Spec => []IInv
<1>1. IInv /\ [Next]_vars => IInv'
  BY NextKept
<1> QED
  BY InitKept, <1>1, PTL DEF Spec

LEMMA InvariantTypes == IInv => TypeOK
BY NoModelOK DEF IInv, TypeOK, World, Good, Services0, RecOK, ModelInv, SpentInv, GaugeInv,
              Owing

\* A software stop that /CE confirmed holds /CE off, until the cable is out, a
\* maintenance begins or the battery floor lets go: no failed access, no other
\* owner's release and no reset turns the charger on behind the supervisor.
THEOREM ConfirmedStopHolds == Spec => []StaysStopped
<1>1. IInv => StaysStopped
  BY InvariantTypes DEF IInv, StopInv, StaysStopped
<1> QED
  BY <1>1, SupervisorInvariant, PTL

\* Of the maintenances that arm_maintenance and the unqualified recovery begin,
\* at most one pulses /CE for each FULL, across resets.
THEOREM OnePulsePerFull == Spec => []OneRearmPerFull
<1>1. IInv => OneRearmPerFull
  BY DEF IInv, SpentInv, OneRearmPerFull
<1> QED
  BY <1>1, SupervisorInvariant, PTL

\* Once a turn has seen the cable out, no latch remains and the inhibit is off
\* or on its way out, unless the journal refused a record.
THEOREM DetachLetsGo == Spec => []DetachReleases
<1>1. IInv => DetachReleases
  BY DEF IInv
<1> QED
  BY <1>1, SupervisorInvariant, PTL


-----------------------------------------------------------------------------
(* What a FULL rests on.  Each frozen basis that a record or the model      *)
(* still holds has its count: what the gauge owes it is no more than what  *)
(* the counter still has to move, as long as the pack is that of the       *)
(* freeze.  A record latched as FULL, and a model that is about to stop    *)
(* for a FULL, hold a basis that is owed nothing.  Earning, beside IInv,   *)
(* is inductive.                                                           *)

(* The learner has seen the latest power-up of the gauge.                  *)
Bound == ~Behind(l.bound, session)

(* The count for b goes on: the pack is that of the freeze.                *)
On(b) == b.pack = l.pack /\ Bound

(* No more was counted for b than the counter moved since the freeze.      *)
Sound(b) ==
    /\ b.pack <= l.pack
    /\ On(b) => due[b] = 0 \/ due[b] <= b.target - (acr - b.start)

(* A charge whose target was counted in, though it could not be stopped,   *)
(* or that is being stopped for it.                                        *)
Granted(x) ==
    \/ x.phase = "charging" /\ x.cand = "sw" /\ x.basis # None
    \/ x.phase = "stopping" /\ x.stop = "full"

(* A live charge x and the record r stand on the same basis.               *)
Follows(x, r) ==
    /\ Live(x) /\ x.basis # None => r.basis = x.basis
    /\ x.phase = "qualifying" => x.basis = None /\ x.cand # "sw"
    /\ x.phase \in {"qualifying", "charging"} => r.latch = "none"
    /\ x.phase = "stopping" => r.latch = x.stop /\ r.basis = x.basis
    /\ Granted(x) => Owed(x.basis) = 0

(* What a record latched as FULL was counted in.                           *)
Counted(r) == r.latch = "full" => Owed(r.basis) = 0

Carried == {m.basis, s.rec.basis, s.unit.basis, media.basis} \ {None} \subseteq DOMAIN due

Followed ==
    /\ m.basis # None => Live(m)
    /\ s.maint = "idle" => Follows(m, s.rec)
    /\ s.maint = "waitRelease" => s.rec.latch = "none"

Earned ==
    /\ ~early /\ ~s.failed
    /\ \A b \in DOMAIN due : Sound(b)
    /\ Carried
    /\ Counted(s.rec) /\ Counted(s.unit) /\ Counted(media)
    /\ Followed

Earning == ~lapsed => Earned

-----------------------------------------------------------------------------
(* The observation of a turn, and what the counter says of a basis.        *)

Observed(o) ==
    /\ Seen(o) /\ o.plug = plug /\ o.pack = l.pack
    /\ o.sample \in BOOLEAN /\ o.lost \in BOOLEAN
    /\ o.lost => ~o.sample /\ ~o.current /\ o.acr = 0 /\ o.session = session + 1
    /\ ~o.lost => (o.current <=> Bound) /\ o.acr = acr /\ o.session = session
    /\ o.current = IF l.bound = None THEN o.session = 0 ELSE l.bound = o.session

LEMMA ObserveSays ==
  ASSUME IInv, NEW t \in Turns, Possible(t), NEW w, w.ctl \in Control
  PROVE  Observed(Observe(w, t))
<1> DEFINE o == Observe(w, t)
           lost == t.ev = "lost"
           now == session + IF lost THEN 1 ELSE 0
<1>1. /\ o.sample = (t.ev \in {"ok", "nostat"}) /\ o.lost = lost /\ o.session = now
      /\ o.acr = (IF lost THEN 0 ELSE acr) /\ o.pack = l.pack
      /\ (o.sample <=> t.ev \in {"ok", "nostat"}) /\ (o.lost <=> lost)
      /\ o.current <=> (IF l.bound = None THEN now = 0 ELSE l.bound = now)
      /\ o.current = (IF l.bound = None THEN now = 0 ELSE l.bound = now)
  BY DEF Observe
<1>2. Seen(o) /\ o.plug = plug
  BY ObserveSeen DEF IInv, World
<1> HIDE DEF o
<1>3. /\ session \in Nat /\ (l.bound = None \/ l.bound \in Nat)
      /\ l.bound # None => l.bound <= session
  BY BudgetAssumption DEF IInv, GaugeInv, Learner, Sessions
<1>4. lost => ~o.sample /\ ~o.current /\ o.acr = 0 /\ o.session = session + 1
  <2>1. lost => ~(t.ev \in {"ok", "nostat"}) /\ now = session + 1
    OBVIOUS
  <2>2. lost => ~(IF l.bound = None THEN now = 0 ELSE l.bound = now)
    BY <1>3, <2>1
  <2> HIDE DEF lost, now
  <2> QED
    BY <1>1, <2>1, <2>2
<1>5. ~lost => (o.current <=> Bound) /\ o.acr = acr /\ o.session = session
  <2>1. ~lost => now = session
    BY <1>3
  <2>2. ~lost => ((IF l.bound = None THEN now = 0 ELSE l.bound = now) <=> Bound)
    BY <2>1 DEF Bound, Behind
  <2> HIDE DEF lost, now
  <2> QED
    BY <1>1, <2>1, <2>2
<1>6. o.lost \in BOOLEAN /\ o.lost = lost /\ o.sample \in BOOLEAN
  BY <1>1
<1>7. o.current = IF l.bound = None THEN o.session = 0 ELSE l.bound = o.session
  BY <1>1
<1>8. o.pack = l.pack
  BY <1>1
<1> HIDE DEF lost
<1> QED
  BY <1>2, <1>4, <1>5, <1>6, <1>7, <1>8 DEF Observed, o

(* A basis that is frozen in this turn, or in use.                         *)
Fresh(b, o) ==
    /\ o.sample /\ o.current
    /\ b = [start |-> o.acr, session |-> o.session, pack |-> o.pack,
            target |-> o.target, known |-> o.known, sure |-> o.sure]

Known(b, o) == b = None \/ b \in DOMAIN due \/ Fresh(b, o)

LEMMA FreshSays ==
  ASSUME NEW o, Observed(o), NEW b, Fresh(b, o)
  PROVE  /\ b \in Basis /\ b.start = o.acr /\ b.pack = l.pack /\ b.target \in 0..Cap
         /\ ~o.lost /\ o.acr = acr
<1>1. /\ b.start = o.acr /\ b.session = o.session /\ b.pack = o.pack
      /\ b.target = o.target
  BY DEF Fresh
<1>2. b \in Basis
  BY DEF Fresh, Observed, Seen, Basis
<1>3. ~o.lost
  BY DEF Fresh, Observed
<1> QED
  BY <1>1, <1>2, <1>3 DEF Observed, Seen

(* The counter has moved by the target of b since it was frozen.           *)
ByCount(b, o) ==
    b # None /\ o.sample /\ OnBasis(b, o) /\ o.acr - b.start >= b.target

\* OnBasis is what makes the counter's difference a count of this pack.
LEMMA CountSays ==
  ASSUME IInv, Earned, NEW o, Observed(o), NEW b, Known(b, o), ByCount(b, o)
  PROVE  Owed(b) = 0
<1>1. /\ ~o.lost /\ o.acr = acr /\ Bound /\ b.pack = l.pack
      /\ acr - b.start >= b.target
  BY DEF ByCount, OnBasis, Observed
<1>2. acr \in Int
  BY BudgetAssumption DEF IInv, World, Acr
<1>3. CASE b \in DOMAIN due
  <2>1. Sound(b) /\ due[b] \in Nat /\ b \in Basis
    BY <1>3 DEF Earned, IInv, Owing
  <2>2. b.start \in Int /\ b.target \in Int
    BY <2>1, CapAssumption, BudgetAssumption DEF Basis, Acr
  <2> QED
    BY <1>1, <1>2, <1>3, <2>1, <2>2 DEF Sound, On, Owed
<1>4. CASE b \notin DOMAIN due
  <2>1. Fresh(b, o)
    BY <1>4 DEF Known, ByCount
  <2>2. b.start = acr /\ b.target \in 0..Cap
    BY <1>1, <2>1, FreshSays
  <2> QED
    BY <1>1, <1>2, <1>4, <2>2, CapAssumption DEF Owed
<1> QED
  BY <1>3, <1>4

(* What a turn with the observation o does to the gauge's side.            *)
Learned(o) ==
    Observed(o) /\ l' = Learn(o) /\ acr' = o.acr /\ session' = o.session

\* The counter jumps only with the pack's generation.
LEMMA SoundKept ==
  ASSUME IInv, Earned, NEW o, Learned(o), NEW b, b # None, Known(b, o),
         due'[b] = Owed(b)
  PROVE  Sound(b)'
<1>1. /\ l' = Learn(o) /\ acr' = o.acr /\ session' = o.session
      /\ o.current = IF l.bound = None THEN o.session = 0 ELSE l.bound = o.session
  BY DEF Learned, Observed
<1>2. /\ l.pack \in Nat /\ acr \in Int /\ o.session # None
  BY NoneAssumption, BudgetAssumption
     DEF IInv, World, GaugeInv, Learner, Packs, Acr, Learned, Observed, Seen, Sessions
<1>3. l'.pack = IF o.current THEN l.pack ELSE l.pack + 1
  BY <1>1 DEF Learn
<1>4. CASE b \in DOMAIN due
  <2>1. Sound(b) /\ due[b] \in Nat /\ b \in Basis /\ due'[b] = due[b]
    BY <1>4 DEF Earned, IInv, Owing, Owed
  <2>2. b.pack \in Int /\ b.pack <= l.pack
    BY <2>1, BudgetAssumption DEF Basis, Packs, Sound
  <2>3. ASSUME b.pack = l'.pack
        PROVE  On(b) /\ acr' = acr
    <3>1. o.current
      BY <1>2, <1>3, <2>2, <2>3
    <3> QED
      BY <1>1, <1>3, <2>3, <3>1 DEF Learned, Observed, On
  <2> QED
    BY <1>2, <1>3, <2>1, <2>2, <2>3 DEF Sound, On
<1>5. CASE b \notin DOMAIN due
  <2>1. Fresh(b, o)
    BY <1>5 DEF Known
  <2>2. b.start = o.acr /\ b.pack = l.pack /\ b.target \in 0..Cap /\ o.acr = acr
    BY <2>1, FreshSays DEF Learned
  <2>3. due'[b] = b.target
    BY <1>5 DEF Owed
  <2> QED
    BY <1>1, <1>2, <1>3, <2>2, <2>3, CapAssumption DEF Sound
<1> QED
  BY <1>4, <1>5

-----------------------------------------------------------------------------
(* The end of a turn.                                                      *)

(* What a turn has to leave to the learner and the battery floor.          *)
Leaves(w, y, out, o) ==
    /\ Known(y.basis, o) /\ Known(w.rec.basis, o) /\ Known(w.unit.basis, o)
    /\ Counted(w.rec) /\ Counted(w.unit)
    /\ "fullq" \in out => y.basis # None /\ Owed(y.basis) = 0
    /\ w.maint = "waitRelease" => w.rec.latch = "none"
    /\ w.maint = "idle" => Follows(y, w.rec)

Ready1(w, y, out, o) ==
    /\ w \in Services /\ y \in Model
    /\ ~lapsed /\ ~w.failed => Leaves(w, y, out, o)

LEMMA PersistSays ==
  ASSUME NEW w \in Services, NEW r \in Record
  PROVE  LET v == RequestPersist(w, r) IN
         /\ v \in Services /\ v.unit = w.unit /\ v.maint = w.maint
         /\ ~v.failed => v.rec = r /\ ~w.failed
BY DEF RequestPersist, Services

LEMMA FloorSays ==
  ASSUME NEW w \in Services, NEW io
  PROVE  LET v == FloorRelease(w, io) IN
         \/ v = w
         \/ /\ v.maint = "waitRelease" /\ v.unit = w.unit
            /\ ~v.failed => /\ ~w.failed /\ v.rec.latch = "none"
                            /\ v.rec.basis \in {None, w.rec.basis}
<1> DEFINE r == Unlatched(w.rec)
           v == IF w.rel /\ w.rec.latch = "none" THEN w ELSE RequestPersist(w, r)
           u == [v EXCEPT !.rest = FALSE, !.rel = TRUE, !.maint = "waitRelease"]
<1>1. FloorRelease(w, io) \in {w, ControlPreflight(u, io)}
  BY DEF FloorRelease
<1>2. r \in Record /\ r.basis = None /\ r.latch = "none"
  BY DEF Services, Record, Unlatched
<1> HIDE DEF r
<1>3. /\ v \in Services /\ v.unit = w.unit
      /\ ~v.failed => /\ ~w.failed /\ v.rec.latch = "none"
                      /\ v.rec.basis \in {None, w.rec.basis}
  BY <1>2, PersistSays
<1> HIDE DEF v
<1>4. /\ u \in Services /\ u.unit = v.unit /\ u.rec = v.rec /\ u.failed = v.failed
      /\ u.maint = "waitRelease"
  BY <1>3 DEF Services
<1> HIDE DEF u
<1>5. SameJournal(u, ControlPreflight(u, io))
  BY <1>4 DEF ControlPreflight, SameJournal, Services
<1> QED
  BY <1>1, <1>3, <1>4, <1>5 DEF SameJournal

\* A record in use after the turn is counted if it was.
LEMMA StillCounted ==
  ASSUME NEW r, RecOK(r), Counted(r),
         r.basis # None => Owed(r.basis)' = Owed(r.basis)
  PROVE  r.latch = "full" => Owed(r.basis)' = 0
BY DEF Counted, RecOK, Valid

LEMMA FinishEarned ==
  ASSUME IInv, IInv', Earning, NEW t \in Turns, Possible(t), NEW c, c.ctl \in Control,
         NEW w, NEW y, NEW out, Ready1(w, y, out, Observe(c, t)),
         Finish(w, y, out, Observe(c, t), t)
  PROVE  Earning'
<1> DEFINE o == Observe(c, t)
           full == "fullq" \in out
           flushed == full /\ o.plug /\ o.sample /\ t.flush
           low == /\ t.low /\ o.sample /\ o.plug
                  /\ ~(o.sample /\ o.status /\ o.charger = "active" /\ Enabled(w.ctl))
           d == IF flushed THEN [w EXCEPT !.dirty = FALSE] ELSE w
           v == IF low THEN FloorRelease(d, t.io) ELSE d
           B == {m'.basis, v.rec.basis, v.unit.basis, media'.basis} \ {None}
<1>1. /\ s' = v
      /\ m' = IF Live(y) THEN y ELSE [y EXCEPT !.basis = None]
      /\ l' = Learn(o) /\ acr' = o.acr /\ session' = o.session
      /\ media' = IF flushed THEN w.unit ELSE media
      /\ due' = [b \in B |-> Owed(b)]
      /\ early' = (early \/ (full /\ (y.basis = None \/ Owed(y.basis) # 0)))
      /\ lapsed' = (lapsed \/ v.failed)
  BY DEF Finish
<1>2. Observed(o)
  BY ObserveSays
<1>3. Ready1(w, y, out, o)
  OBVIOUS
<1> HIDE DEF o
<1>4. /\ d \in Services /\ d.rec = w.rec /\ d.unit = w.unit /\ d.maint = w.maint
      /\ d.failed = w.failed
  BY <1>3 DEF Ready1, Services
<1> HIDE DEF d
<1>5. \/ v = d
      \/ /\ v.maint = "waitRelease" /\ v.unit = d.unit
         /\ ~v.failed => /\ ~d.failed /\ v.rec.latch = "none"
                         /\ v.rec.basis \in {None, d.rec.basis}
  BY <1>4, FloorSays
<1> HIDE DEF v, low
<1> SUFFICES ASSUME ~lapsed' PROVE Earned'
  BY DEF Earning
<1>6. /\ ~lapsed /\ ~v.failed /\ Earned /\ v.failed \in BOOLEAN
  <2>1. lapsed \in BOOLEAN /\ v.failed \in BOOLEAN
    BY <1>1 DEF IInv, World, Good, Services0, Services
  <2> QED
    BY <1>1, <2>1 DEF Earning
<1>7. y \in Model /\ Leaves(w, y, out, o)
  BY <1>3, <1>4, <1>5, <1>6 DEF Ready1
<1>8. RecOK(v.rec) /\ RecOK(v.unit) /\ RecOK(media')
  BY <1>1 DEF IInv, Good, Services0, RecOK
<1>9. /\ v.unit = w.unit
      /\ v.rec = w.rec \/ v.rec.latch = "none"
      /\ v.maint = "waitRelease" \/ (v.rec = w.rec /\ v.maint = w.maint)
  BY <1>4, <1>5, <1>6
<1>10. \A b \in B : Known(b, o)
  <2>1. Known(m'.basis, o)
    BY <1>1, <1>7 DEF Leaves, Known, Model
  <2>2. Known(v.rec.basis, o) /\ Known(v.unit.basis, o)
    BY <1>4, <1>5, <1>6, <1>7 DEF Leaves, Known
  <2>3. Known(media'.basis, o)
    BY <1>1, <1>6, <1>7 DEF Leaves, Known, Earned, Carried
  <2> QED
    BY <2>1, <2>2, <2>3
<1>11. /\ DOMAIN due' = B /\ \A b \in B : due'[b] = Owed(b) /\ Owed(b)' = Owed(b)
  BY <1>1 DEF Owed
<1>12. ~early' /\ ~s'.failed
  <2>1. full => y.basis # None /\ Owed(y.basis) = 0
    BY <1>7 DEF Leaves
  <2>2. ~early
    BY <1>6 DEF Earned
  <2> QED
    BY <1>1, <1>6, <2>1, <2>2
<1>13. (\A b \in DOMAIN due : Sound(b))'
  <2>1. ASSUME NEW b \in B PROVE Sound(b)'
    <3>1. Known(b, o) /\ b # None /\ due'[b] = Owed(b)
      BY <1>10, <1>11
    <3>2. Learned(o)
      BY <1>1, <1>2 DEF Learned
    <3> HIDE DEF B
    <3> QED
      BY <1>6, <3>1, <3>2, SoundKept
  <2> HIDE DEF B
  <2> QED
    BY <1>11, <2>1
<1>14. Carried'
  BY <1>1, <1>11 DEF Carried
<1>15. Counted(s.rec)' /\ Counted(s.unit)' /\ Counted(media)'
  <2>1. ASSUME NEW r, RecOK(r), Counted(r), r.basis \in B \cup {None}
        PROVE  r.latch = "full" => Owed(r.basis)' = 0
    BY <1>11, <2>1, StillCounted
  <2>2. Counted(v.rec)
    BY <1>7, <1>9 DEF Leaves, Counted
  <2>3. Counted(v.unit) /\ Counted(media')
    BY <1>1, <1>6, <1>7, <1>9 DEF Leaves, Counted, Earned
  <2>4. {v.rec.basis, v.unit.basis, media'.basis} \subseteq B \cup {None}
    OBVIOUS
  <2> HIDE DEF B
  <2>5. PICK r1, r2, r3 : r1 = v.rec /\ r2 = v.unit /\ r3 = media'
    OBVIOUS
  <2>6. ASSUME NEW r \in {r1, r2, r3} PROVE r.latch = "full" => Owed(r.basis)' = 0
    <3>1. RecOK(r) /\ Counted(r) /\ r.basis \in B \cup {None}
      BY <1>8, <2>2, <2>3, <2>4, <2>5, <2>6
    <3> QED
      BY <2>1, <3>1
  <2>7. /\ r1.latch = "full" => Owed(r1.basis)' = 0
        /\ r2.latch = "full" => Owed(r2.basis)' = 0
        /\ r3.latch = "full" => Owed(r3.basis)' = 0
    BY <2>6
  <2> QED
    BY <1>1, <2>5, <2>7 DEF Counted, Owed
<1>16. Followed'
  <2>1. m'.basis # None => Live(m')
    BY <1>1, <1>7 DEF Model
  <2>2. s'.maint = "waitRelease" => s'.rec.latch = "none"
    BY <1>1, <1>4, <1>5, <1>6, <1>7 DEF Leaves
  <2>3. ASSUME v.maint = "idle" PROVE Follows(m, s.rec)'
    <3>1. v.rec = w.rec /\ w.maint = "idle"
      BY <1>9, <2>3
    <3>2. Follows(y, w.rec)
      BY <1>7, <3>1 DEF Leaves
    <3>3. CASE ~Live(y)
      <4>1. ~Live(m')
        BY <1>1, <1>7, <3>3 DEF Live, Model
      <4> QED
        BY <4>1 DEF Live, Follows, Granted
    <3>4. CASE Live(y)
      <4>1. m' = y
        BY <1>1, <3>4
      <4>2. Granted(y) => y.basis # None
        BY <1>8, <3>1, <3>2 DEF Granted, Follows, RecOK, Valid
      <4>3. y.basis # None => y.basis \in B
        BY <4>1
      <4>4. Granted(y) => Owed(y.basis)' = 0
        BY <1>11, <3>2, <4>2, <4>3 DEF Follows
      <4> HIDE DEF B
      <4> QED
        BY <1>1, <3>1, <3>2, <4>1, <4>4 DEF Follows, Granted, Live
    <3> QED
      BY <3>3, <3>4
  <2> HIDE DEF B
  <2> QED
    BY <1>1, <2>1, <2>2, <2>3 DEF Followed
<1> QED
  BY <1>12, <1>13, <1>14, <1>15, <1>16 DEF Earned

-----------------------------------------------------------------------------
(* battery_charge_supervisor_update: where the basis of a charge and the    *)
(* grounds of a stop and of a FULL come from.                              *)

Names == {"attached", "admitted"}

(* The grounds of a FULL on the basis b, for a model that was x.           *)
Ground(x, b, o) == ByCount(b, o) \/ (Granted(x) /\ b = x.basis)

(* A model that has not stopped yet.                                       *)
Free(x) == ~x.phys \/ x.phase \in {"qualifying", "charging"}

(* What the parts of the update have made of x so far.                     *)
Traced(x, r, o) ==
    /\ \/ r.x.basis = x.basis /\ r.out \cap Names = {}
       \/ r.x.basis = None /\ r.out \cap Names = {"attached"}
       \/ Fresh(r.x.basis, o) /\ "admitted" \in r.out
    /\ r.x.phase = "qualifying" => r.x.basis = None /\ r.x.cand # "sw"
    /\ r.x.phase = "charging" /\ r.x.cand = "sw" /\ r.x.basis # None =>
          Ground(x, r.x.basis, o)
    /\ r.x.phase = "stopping" =>
          IF "stop" \in r.out THEN r.x.stop = "full" => Ground(x, r.x.basis, o)
          ELSE x.phase = "stopping" /\ r.x.stop = x.stop /\ r.out \cap Names = {}
    /\ "fullq" \in r.out => Ground(x, r.x.basis, o)
    /\ r.x.phase \in {"qualifying", "charging"} => Free(x)
    /\ \A e \in {"attached", "admitted", "stop"} : e \in r.out => Free(x)

(* A charge goes on only on the gauge's power-up that it began on.         *)
Judged(x, o) == x.phase = "charging" => ~o.lost /\ OnBasis(x.basis, o)

LEMMA TraceStep ==
  ASSUME NEW x, NEW r, NEW o, Traced(x, r, o), "stop" \notin r.out, NEW y, NEW out,
         y.basis = r.x.basis, \A e \in {"attached", "admitted", "stop"} : e \notin out,
         y.phase = "qualifying" => r.x.phase = "qualifying" /\ y.cand # "sw",
         y.phase = "charging" =>
            r.x.phase = "charging"
            /\ (y.cand = "sw" => r.x.cand = "sw" \/ ByCount(r.x.basis, o)),
         y.phase = "stopping" => r.x.phase = "stopping" /\ y.stop = r.x.stop,
         "fullq" \in out => Ground(x, r.x.basis, o)
  PROVE  Traced(x, Step(r, y, out), o) /\ (Judged(r.x, o) => Judged(y, o))
<1> DEFINE q == Step(r, y, out)
<1>1. q.x = y /\ q.out = r.out \cup out
  BY DEF Step
<1> HIDE DEF q
<1>2. /\ q.out \cap Names = r.out \cap Names /\ "stop" \notin q.out
      /\ \A e \in {"attached", "admitted", "stop"} : e \in q.out => e \in r.out
  BY <1>1 DEF Names
<1>3. \/ q.x.basis = x.basis /\ q.out \cap Names = {}
      \/ q.x.basis = None /\ q.out \cap Names = {"attached"}
      \/ Fresh(q.x.basis, o) /\ "admitted" \in q.out
  BY <1>1, <1>2 DEF Traced
<1>4. q.x.phase = "qualifying" => q.x.basis = None /\ q.x.cand # "sw"
  BY <1>1 DEF Traced
<1>5. q.x.phase = "charging" /\ q.x.cand = "sw" /\ q.x.basis # None =>
         Ground(x, q.x.basis, o)
  BY <1>1 DEF Traced, Ground
<1>6. q.x.phase = "stopping" =>
         x.phase = "stopping" /\ q.x.stop = x.stop /\ q.out \cap Names = {}
  BY <1>1, <1>2 DEF Traced
<1>7. "fullq" \in q.out => Ground(x, q.x.basis, o)
  BY <1>1 DEF Traced
<1>8. /\ q.x.phase \in {"qualifying", "charging"} => Free(x)
      /\ \A e \in {"attached", "admitted", "stop"} : e \in q.out => Free(x)
  BY <1>1, <1>2 DEF Traced
<1>9. Traced(x, q, o)
  BY <1>2, <1>3, <1>4, <1>5, <1>6, <1>7, <1>8 DEF Traced
<1> QED
  BY <1>9 DEF q, Judged

LEMMA AttachTraced ==
  ASSUME NEW x, NEW o, Traced(x, [x |-> x, out |-> {}], o)
  PROVE  Traced(x, Attach([x |-> x, out |-> {}], o), o)
<1>1. CASE x.phys
  BY <1>1 DEF Attach
<1>2. CASE ~x.phys
  <2> DEFINE y == [NoModel EXCEPT !.phys = TRUE, !.phase = "qualifying",
                                 !.auth = o.ctl.owners = {} /\ o.ctl.read # "off"]
  <2>1. y.phase = "qualifying" /\ y.basis = None /\ y.cand = "none"
    BY DEF NoModel
  <2>2. Attach([x |-> x, out |-> {}], o) = [x |-> y, out |-> {"attached"}]
    BY <1>2 DEF Attach, Step
  <2> HIDE DEF y
  <2> QED
    BY <1>2, <2>1, <2>2 DEF Traced, Names, Free
<1> QED
  BY <1>1, <1>2

LEMMA ContaminateTraced ==
  ASSUME NEW x, NEW r, NEW o, Traced(x, r, o), "stop" \notin r.out, r.x \in Model
  PROVE  Traced(x, Contaminate(r, o), o)
<1> DEFINE y == [r.x EXCEPT !.auth = FALSE]
<1>1. Contaminate(r, o) \in {r, Step(r, y, {})}
  BY DEF Contaminate
<1>2. /\ y.basis = r.x.basis /\ y.phase = r.x.phase /\ y.cand = r.x.cand
      /\ y.stop = r.x.stop
  BY DEF Model
<1>3. r.x.phase = "qualifying" => r.x.cand # "sw"
  BY DEF Traced
<1> HIDE DEF y
<1>4. Traced(x, Step(r, y, {}), o)
  BY <1>2, <1>3, TraceStep
<1> QED
  BY <1>1, <1>4

(* A part that ends the charge.                                            *)
LEMMA EndTraced ==
  ASSUME NEW x, NEW r, NEW o, Traced(x, r, o), "stop" \notin r.out, r.x \in Model,
         NEW phase \in {"completeBq", "completeSw", "safety", "fault", "degraded"},
         NEW full, NEW out, \A e \in {"attached", "admitted", "stop"} : e \notin out,
         "fullq" \in out => Ground(x, r.x.basis, o),
         NEW q, q = Step(r, Ended(r.x, phase, full), out)
  PROVE  Traced(x, q, o) /\ Judged(q.x, o)
<1> DEFINE y == Ended(r.x, phase, full)
<1>1. y.basis = r.x.basis /\ y.phase = phase
  BY DEF Ended, Model
<1> HIDE DEF y
<1>2. y.phase \notin {"qualifying", "charging", "stopping"}
  BY <1>1
<1>3. Traced(x, Step(r, y, out), o)
  BY <1>1, <1>2, TraceStep
<1>4. Judged(y, o)
  BY <1>2 DEF Judged
<1>5. q.x = y
  BY DEF Step, y
<1> QED
  BY <1>3, <1>4, <1>5 DEF y

LEMMA CoulombSays == \A x, o : CoulombFull(x, o) => ByCount(x.basis, o)
BY DEF CoulombFull, ByCount, Net

LEMMA JudgeTraced ==
  ASSUME NEW x, NEW r, NEW o, Traced(x, r, o), "stop" \notin r.out, r.x \in Model
  PROVE  Traced(x, Judge(r, o), o) /\ Judged(Judge(r, o).x, o)
<1>1. CASE Live(r.x) /\ o.status /\ o.charger = "fault"
  <2>1. CASE CoulombFull(r.x, o)
    <3>1. Judge(r, o) = Step(r, Ended(r.x, "completeBq", TRUE), {"terminal", "fullq"})
      BY <1>1, <2>1 DEF Judge
    <3>2. Ground(x, r.x.basis, o)
      BY <2>1, CoulombSays DEF Ground
    <3> QED
      BY <3>1, <3>2, EndTraced
  <2>2. CASE ~CoulombFull(r.x, o)
    <3>1. Judge(r, o) = Step(r, Ended(r.x, "fault", FALSE), {"terminal"})
      BY <1>1, <2>2 DEF Judge
    <3> QED
      BY <3>1, EndTraced
  <2> QED
    BY <2>1, <2>2
<1>2. CASE ~(Live(r.x) /\ o.status /\ o.charger = "fault")
  <2>1. \/ Judge(r, o) = r /\ Judged(r.x, o)
        \/ Judge(r, o) = Step(r, Ended(r.x, "degraded", FALSE), {"terminal"})
    BY <1>2 DEF Judge, Judged
  <2>2. CASE Judge(r, o) = Step(r, Ended(r.x, "degraded", FALSE), {"terminal"})
    <3> QED
      BY <2>2, EndTraced
  <2> QED
    BY <2>1, <2>2
<1> QED
  BY <1>1, <1>2

LEMMA AdmitTraced ==
  ASSUME NEW x, NEW r, NEW o, Traced(x, r, o), Made(x, r, o), "stop" \notin r.out,
         Judged(r.x, o), o.lost => ~o.sample
  PROVE  Traced(x, Admit(r, o), o) /\ Judged(Admit(r, o).x, o)
<1> DEFINE b == [start |-> o.acr, session |-> o.session, pack |-> o.pack,
                 target |-> o.target, known |-> o.known, sure |-> o.sure]
           y == [r.x EXCEPT !.phase = "charging", !.basis = b]
           q == Step(r, y, {"admitted"})
<1>1. CASE Admit(r, o) = r
  BY <1>1
<1>2. CASE Admit(r, o) # r
  <2>1. /\ r.x.phase = "qualifying" /\ o.sample /\ o.current /\ ~o.lost
        /\ Admit(r, o) = q
    BY <1>2 DEF Admit
  <2>2. b.session = o.session /\ b.pack = o.pack
    OBVIOUS
  <2>3. Fresh(b, o) /\ OnBasis(b, o)
    BY <2>1, <2>2 DEF Fresh, OnBasis
  <2> HIDE DEF b
  <2>4. y.basis = b /\ y.phase = "charging" /\ y.cand = r.x.cand
    BY DEF Made, Model
  <2>5. q.x = y /\ q.out = r.out \cup {"admitted"}
    BY DEF Step
  <2> HIDE DEF y, q
  <2>6. r.x.cand # "sw" /\ Free(x)
    BY <2>1 DEF Traced
  <2>7. "fullq" \notin q.out
    BY <2>1, <2>5 DEF Made, Live
  <2> QED
    BY <2>1, <2>3, <2>4, <2>5, <2>6, <2>7 DEF Traced, Judged
<1> QED
  BY <1>1, <1>2

LEMMA DwellTraced ==
  ASSUME NEW x, NEW r, NEW o, Traced(x, r, o), "stop" \notin r.out, r.x \in Model,
         Judged(r.x, o)
  PROVE  Traced(x, Dwell(r, o), o) /\ Judged(Dwell(r, o).x, o)
<1> DEFINE full == CoulombFull(r.x, o)
           out == {"terminal", "bq"} \cup IF full THEN {"fullq"} ELSE {}
<1>1. \/ Dwell(r, o) = r
      \/ Dwell(r, o) = Step(r, [r.x EXCEPT !.cand = "bq"], {})
      \/ Dwell(r, o) = Step(r, [r.x EXCEPT !.cand = "none"], {})
      \/ Dwell(r, o) = Step(r, Ended(r.x, "completeBq", full), out)
  BY DEF Dwell
<1>2. ASSUME NEW c \in {"bq", "none"}, Dwell(r, o) = Step(r, [r.x EXCEPT !.cand = c], {})
      PROVE  Traced(x, Dwell(r, o), o) /\ Judged(Dwell(r, o).x, o)
  <2> DEFINE y == [r.x EXCEPT !.cand = c]
  <2>1. /\ y.basis = r.x.basis /\ y.phase = r.x.phase /\ y.cand = c
        /\ y.stop = r.x.stop
    BY DEF Model
  <2>2. Dwell(r, o) = Step(r, y, {}) /\ Step(r, y, {}).x = y
    BY <1>2 DEF Step
  <2> HIDE DEF y
  <2>3. Traced(x, Step(r, y, {}), o) /\ Judged(y, o)
    BY <2>1, TraceStep
  <2> QED
    BY <2>2, <2>3
<1>3. ASSUME Dwell(r, o) = Step(r, Ended(r.x, "completeBq", full), out)
      PROVE  Traced(x, Dwell(r, o), o) /\ Judged(Dwell(r, o).x, o)
  <2>1. /\ \A e \in {"attached", "admitted", "stop"} : e \notin out
        /\ "fullq" \in out => full
    OBVIOUS
  <2>2. full => Ground(x, r.x.basis, o)
    BY CoulombSays DEF Ground
  <2> HIDE DEF full, out
  <2> QED
    BY <1>3, <2>1, <2>2, EndTraced
<1> QED
  BY <1>1, <1>2, <1>3

LEMMA StopTraced ==
  ASSUME NEW x, NEW r, NEW o, Traced(x, r, o), "stop" \notin r.out, Made(x, r, o),
         Judged(r.x, o)
  PROVE  Traced(x, Stop(r, o), o) /\ Judged(Stop(r, o).x, o)
<1> DEFINE hit == r.x.cand = "sw" \/ Net(r.x, o) >= r.x.basis.target
           y == [r.x EXCEPT !.cand = IF hit THEN "sw" ELSE @]
           f(st) == [y EXCEPT !.phase = "stopping", !.stop = st]
<1>1. /\ y.basis = r.x.basis /\ y.phase = r.x.phase /\ y.stop = r.x.stop
      /\ y.cand = "sw" => hit
      /\ \A st \in {"full", "safety"} :
            f(st).phase = "stopping" /\ f(st).stop = st /\ f(st).basis = r.x.basis
  BY DEF Made, Model
<1>2. \/ Stop(r, o) = r
      \/ r.x.phase = "charging" /\ o.sample /\ Stop(r, o) = Step(r, y, {})
      \/ \E st \in {"full", "safety"} :
            /\ r.x.phase = "charging" /\ Unblocked(r.x, o)
            /\ st = "full" => hit
            /\ Stop(r, o) = Step(r, f(st), {"stop"})
  BY DEF Stop
<1>3. ASSUME r.x.phase = "charging", r.x.basis # None, o.sample, hit
      PROVE  r.x.cand = "sw" \/ ByCount(r.x.basis, o)
  BY <1>3 DEF Judged, ByCount, Net
<1>4. CASE r.x.phase = "charging" /\ o.sample /\ Stop(r, o) = Step(r, y, {})
  <2>1. Step(r, y, {}).x = y
    BY DEF Step
  <2>2. CASE r.x.basis # None
    <3>1. y.cand = "sw" => r.x.cand = "sw" \/ ByCount(r.x.basis, o)
      BY <1>1, <1>3, <1>4, <2>2
    <3> HIDE DEF y, hit
    <3>2. Traced(x, Step(r, y, {}), o) /\ Judged(y, o)
      BY <1>1, <1>4, <3>1, TraceStep
    <3> QED
      BY <1>4, <2>1, <3>2
  <2>3. CASE r.x.basis = None
    <3> DEFINE q == Step(r, y, {})
    <3>1. q.x = y /\ q.out = r.out
      BY DEF Step
    <3> HIDE DEF y, hit, q
    <3>2. Traced(x, q, o) /\ Judged(q.x, o)
      BY <1>1, <1>4, <2>3, <3>1 DEF Traced, Judged
    <3> QED
      BY <1>4, <3>2 DEF q
  <2> QED
    BY <2>2, <2>3
<1>5. ASSUME NEW st \in {"full", "safety"}, r.x.phase = "charging", Unblocked(r.x, o),
             st = "full" => hit,
             Stop(r, o) = Step(r, f(st), {"stop"})
      PROVE  Traced(x, Stop(r, o), o) /\ Judged(Stop(r, o).x, o)
  <2> DEFINE z == f(st)
             q == Step(r, z, {"stop"})
  <2>1. z.phase = "stopping" /\ z.stop = st /\ z.basis = r.x.basis
    BY <1>1
  <2>2. Stop(r, o) = q /\ q.x = z /\ q.out = r.out \cup {"stop"}
    BY <1>5 DEF Step
  <2>3. st = "full" => Ground(x, r.x.basis, o)
    <3> SUFFICES ASSUME st = "full" PROVE Ground(x, r.x.basis, o)
      OBVIOUS
    <3>1. r.x.basis # None /\ o.sample /\ hit
      BY <1>5 DEF Unblocked
    <3> HIDE DEF hit
    <3> QED
      BY <1>3, <1>5, <3>1 DEF Traced, Ground
  <2> HIDE DEF z, q, hit, y, f
  <2>4. q.out \cap Names = r.out \cap Names /\ "stop" \in q.out
    BY <2>2 DEF Names
  <2>5. "fullq" \in q.out => "fullq" \in r.out
    BY <2>2
  <2>6. Free(x)
    BY <1>5 DEF Traced
  <2>7. Traced(x, q, o)
    BY <1>5, <2>1, <2>2, <2>3, <2>4, <2>5, <2>6 DEF Traced
  <2> QED
    BY <2>1, <2>2, <2>7 DEF Judged
<1> HIDE DEF hit, y, f
<1> QED
  BY <1>2, <1>4, <1>5

LEMMA ConfirmTraced ==
  ASSUME NEW x, NEW r, NEW o, Traced(x, r, o), Made(x, r, o), Judged(r.x, o)
  PROVE  Traced(x, Confirm(r, o), o) /\ Judged(Confirm(r, o).x, o)
<1> DEFINE full == r.x.stop = "full" /\ r.x.auth
           ph == IF r.x.stop = "full" THEN "completeSw" ELSE "safety"
           out == {"terminal", "stopped"} \cup IF full THEN {"fullq"} ELSE {}
           y == [r.x EXCEPT !.seen = TRUE]
<1>1. CASE r.x.phase # "stopping" \/ "sup" \notin o.ctl.owners
  BY <1>1 DEF Confirm
<1>2. CASE r.x.phase = "stopping" /\ "sup" \in o.ctl.owners
  <2>1. "stop" \notin r.out /\ r.x \in Model
    BY <1>2 DEF Made, Enabled, Requested
  <2>2. x.phase = "stopping" /\ r.x.stop = x.stop /\ r.x.basis = x.basis
    BY <1>2, <2>1 DEF Traced, Names
  <2>3. \/ Confirm(r, o) = Step(r, Ended(r.x, ph, full), out)
        \/ Confirm(r, o) = Step(r, Ended(r.x, "fault", FALSE), {"terminal"})
        \/ Confirm(r, o) = Step(r, y, {})
    BY <1>2 DEF Confirm
  <2>4. CASE Confirm(r, o) = Step(r, Ended(r.x, ph, full), out)
    <3>1. /\ ph \in {"completeSw", "safety"}
          /\ \A e \in {"attached", "admitted", "stop"} : e \notin out
          /\ "fullq" \in out => x.stop = "full"
      BY <2>2
    <3> HIDE DEF ph, full, out
    <3>2. "fullq" \in out => Ground(x, r.x.basis, o)
      BY <2>2, <3>1 DEF Ground, Granted
    <3> QED
      BY <2>1, <2>4, <3>1, <3>2, EndTraced
  <2>5. CASE Confirm(r, o) = Step(r, Ended(r.x, "fault", FALSE), {"terminal"})
    BY <2>1, <2>5, EndTraced
  <2>6. CASE Confirm(r, o) = Step(r, y, {})
    <3>1. /\ y.basis = r.x.basis /\ y.phase = r.x.phase /\ y.cand = r.x.cand
          /\ y.stop = r.x.stop /\ Step(r, y, {}).x = y
      BY <2>1 DEF Model, Step
    <3> HIDE DEF y
    <3>2. Traced(x, Step(r, y, {}), o) /\ Judged(y, o)
      BY <1>2, <2>1, <3>1, TraceStep
    <3> QED
      BY <2>6, <3>1, <3>2
  <2> HIDE DEF ph, full, out, y
  <2> QED
    BY <2>3, <2>4, <2>5, <2>6
<1> QED
  BY <1>1, <1>2

LEMMA UpdateTraced ==
  ASSUME NEW x \in Model, NEW o, Seen(o), o.plug, o.lost => ~o.sample,
         Traced(x, [x |-> x, out |-> {}], o)
  PROVE  Traced(x, Update(x, o), o)
<1> DEFINE a == Attach([x |-> x, out |-> {}], o)
           b == Contaminate(a, o)
           c == Judge(b, o)
           d == Admit(c, o)
           e == Dwell(d, o)
           f == Stop(e, o)
<1>1. Update(x, o) = Confirm(f, o)
  BY DEF Update
<1>2. Made(x, a, o) /\ "stop" \notin a.out /\ Traced(x, a, o)
  <2>1. "stop" \notin a.out
    BY DEF Attach, Step
  <2>2. Made(x, a, o)
    BY AttachMade
  <2>3. Traced(x, a, o)
    BY AttachTraced
  <2> HIDE DEF a
  <2> QED
    BY <2>1, <2>2, <2>3
<1> HIDE DEF a
<1>3. Made(x, b, o) /\ "stop" \notin b.out /\ Traced(x, b, o)
  <2>1. Made(x, b, o) /\ "stop" \notin b.out
    BY <1>2, ContaminateMade DEF Contaminate, Step
  <2> QED
    BY <1>2, <2>1, ContaminateTraced DEF Made
<1> HIDE DEF b
<1>4. Made(x, c, o) /\ "stop" \notin c.out /\ Traced(x, c, o) /\ Judged(c.x, o)
  BY <1>3, JudgeMade, JudgeTraced DEF Made
<1> HIDE DEF c
<1>5. Made(x, d, o) /\ "stop" \notin d.out /\ Traced(x, d, o) /\ Judged(d.x, o)
  BY <1>4, AdmitMade, AdmitTraced
<1> HIDE DEF d
<1>6. Made(x, e, o) /\ "stop" \notin e.out /\ Traced(x, e, o) /\ Judged(e.x, o)
  BY <1>5, DwellMade, DwellTraced DEF Made
<1> HIDE DEF e
<1>7. Made(x, f, o) /\ Traced(x, f, o) /\ Judged(f.x, o)
  BY <1>6, StopMade, StopTraced
<1> HIDE DEF f
<1> QED
  BY <1>1, <1>7, ConfirmTraced

-----------------------------------------------------------------------------
(* What a turn journals, when the journal takes it.                        *)

LEMMA TerminalSays ==
  ASSUME NEW w \in Services, NEW r \in Record, NEW x \in Model,
         NEW last \in {"full", "bq", "safety", "detached", "other"}
  PROVE  LET v == Terminal(w, r, x, last) IN
         /\ v \in Services /\ v.maint = w.maint
         /\ ~v.failed =>
               /\ ~w.failed
               /\ v.rec.latch = IF last = "detached" THEN "none" ELSE r.latch
               /\ v.rec.basis = IF r.latch # "none" /\ last # "detached"
                                THEN x.basis ELSE None
<1> DEFINE kept == r.latch # "none" /\ last # "detached"
           prior == last = "bq" /\ x.basis = None /\ ~x.full /\ r.lastFull
           q == IF kept THEN [r EXCEPT !.basis = x.basis] ELSE Unlatched(r)
           p == [q EXCEPT !.last = IF prior THEN @ ELSE last,
                          !.lastFull = IF prior THEN @ ELSE x.full,
                          !.lastNow = prior => @,
                          !.used = @ /\ last # "detached" /\ ~x.full]
<1>1. /\ q \in Record /\ q.latch = (IF last = "detached" THEN "none" ELSE r.latch)
      /\ q.basis = IF kept THEN x.basis ELSE None
  BY DEF Record, Unlatched, Model
<1>2. p \in Record /\ p.latch = q.latch /\ p.basis = q.basis
  <2> DEFINE la == IF prior THEN q.last ELSE last
             fu == IF prior THEN q.lastFull ELSE x.full
             no == prior => q.lastNow
             us == q.used /\ last # "detached" /\ ~x.full
  <2>1. p = [q EXCEPT !.last = la, !.lastFull = fu, !.lastNow = no, !.used = us]
    OBVIOUS
  <2>2. /\ q.last \in {"none", "full", "bq", "safety", "detached", "other"}
        /\ q.lastFull \in BOOLEAN /\ q.lastNow \in BOOLEAN /\ q.used \in BOOLEAN
        /\ x.full \in BOOLEAN
    BY <1>1 DEF Record, Model
  <2>3. /\ la \in {"none", "full", "bq", "safety", "detached", "other"}
        /\ fu \in BOOLEAN /\ no \in BOOLEAN /\ us \in BOOLEAN
    BY <2>2
  <2> HIDE DEF q, p, la, fu, no, us
  <2> QED
    BY <1>1, <2>1, <2>3 DEF Record
<1>3. Terminal(w, r, x, last) = RequestPersist(w, p)
  BY DEF Terminal
<1> HIDE DEF p, q
<1>4. LET v == RequestPersist(w, p) IN
         /\ v \in Services /\ v.maint = w.maint
         /\ ~v.failed => v.rec = p /\ ~w.failed
  BY <1>2, PersistSays
<1> QED
  BY <1>1, <1>2, <1>3, <1>4

LEMMA ArmSays ==
  ASSUME NEW w \in Services
  PROVE  LET v == Arm(w) IN
         /\ v.maint = "waitInhibit"
         /\ ~v.failed => ~w.failed /\ v.rec.basis = None /\ v.rec.latch = "rearm"
<1> DEFINE r == [w.rec EXCEPT !.basis = None, !.latch = "rearm",
                              !.used = TRUE, !.lastFull = FALSE]
           u == RequestPersist(w, r)
           v == [u EXCEPT !.maint = "waitInhibit"]
<1>0. w.rec \in Record
  BY DEF Services
<1>1. r \in Record /\ r.basis = None /\ r.latch = "rearm"
  <2>1. PICK q : q = w.rec
    OBVIOUS
  <2>2. r = [q EXCEPT !.basis = None, !.latch = "rearm", !.used = TRUE, !.lastFull = FALSE]
    BY <2>1
  <2> HIDE DEF r
  <2> QED
    BY <1>0, <2>1, <2>2 DEF Record
<1>2. Arm(w) = v
  BY DEF Arm
<1> HIDE DEF r
<1>3. u \in Services /\ (~u.failed => u.rec = r /\ ~w.failed)
  BY <1>1, PersistSays
<1> HIDE DEF u
<1>4. v.rec = u.rec /\ v.failed = u.failed /\ v.maint = "waitInhibit"
  BY <1>3 DEF Services
<1> QED
  BY <1>1, <1>2, <1>3, <1>4

LEMMA DetachSays ==
  ASSUME NEW w \in Services, NEW x \in Model
  PROVE  LET v == Detach(w, x) IN
         ~v.failed => ~w.failed /\ v.rec.basis \in {None, w.rec.basis}
<1> DEFINE r == w.rec
           completed == r.latch # "none" /\ r.last = r.latch /\ r.lastNow
           active == r.basis # None \/ (Live(x) /\ x.basis # None)
           c == [Unlatched(r) EXCEPT !.used = FALSE]
           a == IF completed THEN RequestPersist(w, c)
                ELSE IF active THEN Terminal(w, r, x, "detached") ELSE w
           n == [a.rec EXCEPT !.used = FALSE]
           b == IF a.rec.used THEN RequestPersist(a, n) ELSE a
           v == [b EXCEPT !.rel = @ \/ r.latch # "none"]
<1>1. Detach(w, x) = v
  BY Zenon DEF Detach
<1>2. r \in Record /\ c \in Record /\ c.basis = None
  BY DEF Services, Record, Unlatched
<1>3. a \in Services /\ (~a.failed => ~w.failed /\ a.rec.basis \in {None, w.rec.basis})
  <2> HIDE DEF c
  <2>1. LET p == RequestPersist(w, c) IN
        p \in Services /\ (~p.failed => p.rec = c /\ ~w.failed)
    BY <1>2, PersistSays
  <2>2. LET p == Terminal(w, r, x, "detached") IN
        p \in Services /\ (~p.failed => ~w.failed /\ p.rec.basis = None)
    BY <1>2, TerminalSays
  <2> HIDE DEF r, completed, active
  <2> QED
    BY <1>2, <2>1, <2>2 DEF r
<1> HIDE DEF a
<1>4. b \in Services /\ (~b.failed => ~a.failed /\ b.rec.basis = a.rec.basis)
  <2>1. n \in Record /\ n.basis = a.rec.basis
    BY <1>3 DEF Services, Record
  <2> HIDE DEF n
  <2>2. LET p == RequestPersist(a, n) IN
        p \in Services /\ (~p.failed => p.rec = n /\ ~a.failed)
    BY <1>3, <2>1, PersistSays
  <2> QED
    BY <1>3, <2>1, <2>2
<1> HIDE DEF b
<1>5. v.rec = b.rec /\ v.failed = b.failed
  BY <1>4 DEF Services
<1> QED
  BY <1>1, <1>3, <1>4, <1>5

(* The record v of a turn that went on: it stands on the basis of the      *)
(* model, and is latched by a stop alone.                                  *)
GoesOn(w, v, y, out) ==
    /\ v.rec.latch = w.rec.latch
    /\ v.rec.basis = IF "admitted" \in out THEN y.basis
                     ELSE IF "attached" \in out THEN None ELSE w.rec.basis

LEMMA SettleSays ==
  ASSUME NEW w \in Services, NEW x, NEW y, NEW out, NEW o, Told(w, x, y, out, o),
         w.maint = "idle", NEW v, v = Settle(w, x, y, out, o), ~v.failed,
         "detached" \in out => v.rec.latch = "none"
  PROVE  /\ ~w.failed
         /\ v.rec.basis \in {None, w.rec.basis, y.basis}
         /\ "stop" \in out => v.rec.basis = y.basis /\ v.rec.latch = y.stop
         /\ "stop" \notin out /\ v.rec.latch = "full" => w.rec.latch = "full"
         /\ /\ v.maint = "idle"
            /\ \A e \in {"stop", "detached", "rejected", "terminal"} : e \notin out
            => GoesOn(w, v, y, out)
<1> DEFINE r == [w.rec EXCEPT !.lastNow = @ /\ "attached" \notin out]
           ended == Terminal(w, r, y, LastOf(y.phase))
<1>1. /\ w.rec \in Record /\ x \in Model /\ y \in Model /\ y.basis \in Basis \cup {None}
  BY DEF Told, Services, Model
<1>2. r \in Record /\ r.latch = w.rec.latch /\ r.basis = w.rec.basis
  BY <1>1 DEF Record
<1>3. /\ "stop" \in out =>
            v = RequestPersist(w, [r EXCEPT !.basis = y.basis, !.latch = y.stop])
      /\ "stop" \notin out =>
         /\ "detached" \in out => v = Detach(w, x)
         /\ "detached" \notin out =>
            /\ "rejected" \in out /\ w.rec.latch # "none" => v = w
            /\ ~("rejected" \in out /\ w.rec.latch # "none") =>
               /\ "terminal" \in out => v \in {ended, Arm(ended)}
               /\ "terminal" \notin out =>
                  /\ "admitted" \in out => v = RequestPersist(w, [r EXCEPT !.basis = y.basis])
                  /\ "admitted" \notin out =>
                     /\ "attached" \in out => v = RequestPersist(w, [r EXCEPT !.basis = None])
                     /\ "attached" \notin out => v \in {w, Arm(w)}
  BY DEF Settle
<1> HIDE DEF r, ended
<1>4. CASE "stop" \in out
  <2> DEFINE q == [r EXCEPT !.basis = y.basis, !.latch = y.stop]
  <2>1. q \in Record /\ q.basis = y.basis /\ q.latch = y.stop
    BY <1>1, <1>2, <1>4 DEF Told, Record
  <2> HIDE DEF q
  <2>2. v.rec = q /\ ~w.failed
    BY <1>3, <1>4, <2>1, PersistSays DEF q
  <2> QED
    BY <1>4, <2>1, <2>2
<1>5. CASE "stop" \notin out /\ "detached" \in out
  BY <1>1, <1>3, <1>5, DetachSays
<1>6. CASE /\ v = w /\ "stop" \notin out
           /\ \/ "rejected" \in out
              \/ "admitted" \notin out /\ "attached" \notin out
  BY <1>6 DEF GoesOn
<1>7. CASE "stop" \notin out /\ "terminal" \in out /\ v \in {ended, Arm(ended)}
  <2>1. LastOf(y.phase) \in {"full", "bq", "safety", "detached", "other"}
    BY DEF LastOf
  <2>2. /\ ended \in Services
        /\ ~ended.failed => /\ ~w.failed /\ ended.rec.latch \in {"none", r.latch}
                            /\ ended.rec.basis \in {None, y.basis}
    <3>1. PICK la \in {"full", "bq", "safety", "detached", "other"} : la = LastOf(y.phase)
      BY <2>1
    <3>2. LET e == Terminal(w, r, y, la) IN
          /\ e \in Services /\ e.maint = w.maint
          /\ ~e.failed =>
                /\ ~w.failed
                /\ e.rec.latch = IF la = "detached" THEN "none" ELSE r.latch
                /\ e.rec.basis = IF r.latch # "none" /\ la # "detached"
                                 THEN y.basis ELSE None
      BY <1>1, <1>2, <2>1, <3>1, TerminalSays
    <3>3. ended = Terminal(w, r, y, la)
      BY <3>1 DEF ended
    <3> QED
      BY <3>2, <3>3
  <2>3. /\ ~Arm(ended).failed => /\ ~ended.failed /\ Arm(ended).rec.basis = None
                                 /\ Arm(ended).rec.latch = "rearm"
    BY <2>2, ArmSays
  <2> QED
    BY <1>2, <1>7, <2>2, <2>3
<1>8. ASSUME NEW b \in Basis \cup {None}, v = RequestPersist(w, [r EXCEPT !.basis = b])
      PROVE  v.rec.basis = b /\ v.rec.latch = w.rec.latch /\ ~w.failed
  <2> DEFINE q == [r EXCEPT !.basis = b]
  <2>1. q \in Record /\ q.basis = b /\ q.latch = r.latch
    BY <1>2 DEF Record
  <2> HIDE DEF q
  <2>2. v.rec = q /\ ~w.failed
    BY <1>8, <2>1, PersistSays DEF q
  <2> QED
    BY <1>2, <2>1, <2>2
<1>9. CASE v = Arm(w) /\ "stop" \notin out
  BY <1>9, ArmSays
<1>10. CASE /\ "stop" \notin out /\ "terminal" \notin out /\ "admitted" \in out
            /\ v = RequestPersist(w, [r EXCEPT !.basis = y.basis])
  BY <1>1, <1>8, <1>10 DEF GoesOn
<1>11. CASE /\ "stop" \notin out /\ "admitted" \notin out /\ "attached" \in out
            /\ v = RequestPersist(w, [r EXCEPT !.basis = None])
  BY <1>8, <1>11 DEF GoesOn
<1> QED
  BY <1>3, <1>4, <1>5, <1>6, <1>7, <1>9, <1>10, <1>11

-----------------------------------------------------------------------------
(* A turn of the model.                                                    *)

(* The results of a turn, for the record of w: a FULL and a stop for it    *)
(* are counted, and a charge goes on from its record.                      *)
Grounded(w, y, out, o) ==
    /\ Known(y.basis, o)
    /\ "fullq" \in out => y.basis # None /\ Owed(y.basis) = 0
    /\ "stop" \in out /\ y.stop = "full" => Owed(y.basis) = 0
    /\ w.rec.latch = "full" /\ "stop" \notin out /\ y.basis # None =>
          y.basis = w.rec.basis
    /\ Live(y) => \A e \in {"detached", "rejected", "terminal"} : e \notin out
    /\ y.phase = "qualifying" => y.basis = None /\ y.cand # "sw"
    /\ y.phase \in {"qualifying", "charging"} =>
          w.rec.latch = "none" /\ "stop" \notin out
    /\ y.phase = "charging" /\ y.basis # None /\ "admitted" \notin out =>
          "attached" \notin out /\ y.basis = w.rec.basis
    /\ y.phase = "stopping" /\ "stop" \notin out =>
          /\ y.stop = w.rec.latch /\ y.basis = w.rec.basis
          /\ "attached" \notin out /\ "admitted" \notin out
    /\ Granted(y) => Owed(y.basis) = 0

LEMMA GroundedSays ==
  ASSUME NEW w, NEW y, NEW out, NEW o, NEW v, Grounded(w, y, out, o),
         "stop" \in out => v.rec.basis = y.basis /\ v.rec.latch = y.stop,
         (\A e \in {"stop", "detached", "rejected", "terminal"} : e \notin out)
            => GoesOn(w, v, y, out)
  PROVE  Follows(y, v.rec)
<1>1. Live(y) /\ "stop" \notin out => GoesOn(w, v, y, out)
  BY DEF Grounded
<1>2. y.phase = "qualifying" => y.basis = None /\ y.cand # "sw"
  BY DEF Grounded
<1>3. y.phase \in {"qualifying", "charging"} => v.rec.latch = "none"
  BY <1>1 DEF Grounded, GoesOn, Live
<1>4. y.phase = "stopping" => v.rec.latch = y.stop /\ v.rec.basis = y.basis
  BY <1>1 DEF Grounded, GoesOn, Live
<1>5. y.phase = "charging" /\ y.basis # None => v.rec.basis = y.basis
  BY <1>1 DEF Grounded, GoesOn, Live
<1>6. Live(y) /\ y.basis # None => v.rec.basis = y.basis
  BY <1>2, <1>4, <1>5 DEF Live
<1> QED
  BY <1>2, <1>3, <1>4, <1>6 DEF Follows, Grounded

LEMMA TurnEarned ==
  ASSUME IInv, IInv', Earning, NEW t \in Turns, Possible(t), NEW c, NEW w,
         c.ctl = w.ctl, Taken(w),
         NEW x, NEW y, NEW out, Told(w, x, y, out, Observe(c, t)),
         ~lapsed /\ ~w.failed => Grounded(w, y, out, Observe(c, t)),
         Finish(Journalled(Settle(w, x, y, out, Observe(c, t)), t.io), y, out,
                Observe(c, t), t)
  PROVE  Earning'
<1> DEFINE o == Observe(c, t)
           u == Settle(w, x, y, out, o)
           v == Journalled(u, t.io)
<1>1. /\ t.io \in Io /\ c.ctl \in Control /\ y \in Model
      /\ w \in Services /\ w.maint = "idle" /\ ~w.unread /\ ~w.rest /\ w.rec = s.rec
  BY DEF Turns, Taken, Idle, Services0, CtlOK, Told
<1>2. Requested0(w, u, media) /\ SettleDoes(w, u, x, y, out)
  BY SettleGood DEF Taken
<1>3. ~u.failed =>
         /\ ~w.failed
         /\ u.rec.basis \in {None, w.rec.basis, y.basis}
         /\ "stop" \in out => u.rec.basis = y.basis /\ u.rec.latch = y.stop
         /\ "stop" \notin out /\ u.rec.latch = "full" => w.rec.latch = "full"
         /\ /\ u.maint = "idle"
            /\ \A e \in {"stop", "detached", "rejected", "terminal"} : e \notin out
            => GoesOn(w, u, y, out)
  <2> SUFFICES ASSUME ~u.failed
               PROVE  /\ ~w.failed
                      /\ u.rec.basis \in {None, w.rec.basis, y.basis}
                      /\ "stop" \in out => u.rec.basis = y.basis /\ u.rec.latch = y.stop
                      /\ "stop" \notin out /\ u.rec.latch = "full" => w.rec.latch = "full"
                      /\ /\ u.maint = "idle"
                         /\ \A e \in {"stop", "detached", "rejected", "terminal"} : e \notin out
                         => GoesOn(w, u, y, out)
    OBVIOUS
  <2>1. "detached" \in out => u.rec.latch = "none"
    BY <1>2 DEF SettleDoes, Asked
  <2>2. PICK z : z = u
    OBVIOUS
  <2>3. z = Settle(w, x, y, out, o) /\ Told(w, x, y, out, o)
    BY <2>2
  <2> HIDE DEF u, o
  <2>4. /\ ~w.failed
        /\ z.rec.basis \in {None, w.rec.basis, y.basis}
        /\ "stop" \in out => z.rec.basis = y.basis /\ z.rec.latch = y.stop
        /\ "stop" \notin out /\ z.rec.latch = "full" => w.rec.latch = "full"
        /\ /\ z.maint = "idle"
           /\ \A e \in {"stop", "detached", "rejected", "terminal"} : e \notin out
           => GoesOn(w, z, y, out)
    BY <1>1, <2>1, <2>2, <2>3, SettleSays
  <2> QED
    BY <2>2, <2>4
<1>4. Finish(v, y, out, Observe(c, t), t)
  OBVIOUS
<1> HIDE DEF u
<1>5. Good(u, media) /\ ~u.unread /\ RecOK(u.rec)
  <2>1. Latched(w.rec) => u.rec.latch # "none" \/ u.rel
    BY <1>2 DEF SettleDoes, Asked, Latched, Armed
  <2>2. Good(u, media)
    BY <1>2, <2>1, RequestedGood DEF SettleDoes, Taken
  <2> QED
    BY <1>1, <1>2, <2>2 DEF SettleDoes, SameServices, Good, Services0
<1>6. Good(v, media) /\ Stored(u, v)
  BY <1>1, <1>5, JournalledGood
<1> HIDE DEF v
<1>7. /\ v \in Services /\ v.rec = u.rec /\ v.unit = u.rec /\ v.maint = u.maint
      /\ v.failed = u.failed /\ u.maint \in {"idle", "waitInhibit"}
  BY <1>2, <1>6 DEF Good, Services0, Stored, SettleDoes
<1>8. Ready1(v, y, out, o)
  <2> SUFFICES ASSUME ~lapsed, ~v.failed PROVE Leaves(v, y, out, o)
    BY <1>1, <1>7 DEF Ready1
  <2>1. Earned /\ ~w.failed /\ ~u.failed /\ Grounded(w, y, out, o)
    BY <1>3, <1>7 DEF Earning
  <2> HIDE DEF o
  <2>2. Known(y.basis, o) /\ Known(w.rec.basis, o)
    BY <1>1, <2>1 DEF Grounded, Known, Earned, Carried
  <2>3. Known(u.rec.basis, o)
    BY <1>3, <2>1, <2>2 DEF Known
  <2>4. Counted(u.rec)
    <3> SUFFICES ASSUME u.rec.latch = "full" PROVE Owed(u.rec.basis) = 0
      BY DEF Counted
    <3>1. CASE "stop" \in out
      BY <1>3, <2>1, <3>1 DEF Grounded
    <3>2. CASE "stop" \notin out
      <4>1. w.rec.latch = "full" /\ Owed(w.rec.basis) = 0
        BY <1>1, <1>3, <2>1, <3>2 DEF Earned, Counted
      <4>2. u.rec.basis # None
        BY <1>5 DEF RecOK, Valid
      <4>3. u.rec.basis = w.rec.basis
        BY <1>3, <2>1, <3>2, <4>1, <4>2 DEF Grounded
      <4> QED
        BY <4>1, <4>3
    <3> QED
      BY <3>1, <3>2
  <2>5. v.maint = "idle" => Follows(y, u.rec)
    <3> SUFFICES ASSUME u.maint = "idle" PROVE Follows(y, u.rec)
      BY <1>7
    <3> QED
      BY <1>3, <2>1, GroundedSays
  <2>6. "fullq" \in out => y.basis # None /\ Owed(y.basis) = 0
    BY <2>1 DEF Grounded
  <2> QED
    BY <1>7, <2>2, <2>3, <2>4, <2>5, <2>6 DEF Leaves
<1> QED
  BY <1>1, <1>4, <1>8, FinishEarned

(* A model x as the turn takes it, for the record of w.                    *)
Standing(x, w) ==
    /\ Free(x) => w.rec.latch = "none"
    /\ x.basis # None => x.basis \in DOMAIN due /\ x.basis = w.rec.basis
    /\ x.phase = "qualifying" => x.basis = None /\ x.cand # "sw"
    /\ x.phase = "stopping" => x.stop = w.rec.latch /\ x.basis = w.rec.basis
    /\ Granted(x) => x.basis # None /\ Owed(x.basis) = 0

LEMMA StartTraced ==
  ASSUME NEW x, NEW o, x.phase = "qualifying" => x.basis = None /\ x.cand # "sw"
  PROVE  Traced(x, [x |-> x, out |-> {}], o)
<1> DEFINE r == [x |-> x, out |-> {}]
<1>1. r.x = x /\ r.out = {}
  OBVIOUS
<1> HIDE DEF r
<1>2. r.x.phase \in {"qualifying", "charging"} => Free(x)
  BY <1>1 DEF Free
<1>3. r.x.phase = "charging" /\ r.x.cand = "sw" /\ r.x.basis # None =>
         Ground(x, r.x.basis, o)
  BY <1>1 DEF Ground, Granted
<1>4. Traced(x, r, o)
  BY <1>1, <1>2, <1>3 DEF Traced
<1> QED
  BY <1>4 DEF r

LEMMA ModelGrounded ==
  ASSUME IInv, Earned, NEW o, Observed(o), NEW x, NEW w, Standing(x, w),
         NEW r, Made(x, r, o), Traced(x, r, o), NEW out,
         out \in {r.out, r.out \cup {"restarted"}}
  PROVE  Grounded(w, r.x, out, o)
<1> DEFINE y == r.x
<1>1. \A e \in {"detached", "rejected", "terminal", "fullq", "stop", "attached", "admitted"} :
         e \in out <=> e \in r.out
  OBVIOUS
<1>2. Known(y.basis, o)
  BY DEF Traced, Standing, Known
<1>3. ASSUME Ground(x, y.basis, o) PROVE y.basis # None /\ Owed(y.basis) = 0
  <2>1. CASE ByCount(y.basis, o)
    BY <1>2, <2>1, CountSays DEF ByCount
  <2>2. CASE Granted(x) /\ y.basis = x.basis
    BY <2>2 DEF Standing
  <2> QED
    BY <1>3, <2>1, <2>2 DEF Ground
<1>4. ASSUME ~Free(x) \/ ("attached" \notin r.out /\ "admitted" \notin r.out)
      PROVE  y.basis = x.basis /\ "attached" \notin r.out /\ "admitted" \notin r.out
  BY <1>4 DEF Traced, Names
<1>5. "stop" \in out => y.phase = "stopping"
  BY <1>1 DEF Made
<1>6. "fullq" \in out => y.basis # None /\ Owed(y.basis) = 0
  BY <1>1, <1>3 DEF Traced
<1>7. "stop" \in out /\ y.stop = "full" => Owed(y.basis) = 0
  BY <1>1, <1>3, <1>5 DEF Traced
<1>8. w.rec.latch = "full" /\ y.basis # None => y.basis = w.rec.basis
  BY <1>4 DEF Standing
<1>9. Live(y) => \A e \in {"detached", "rejected", "terminal"} : e \notin out
  BY <1>1 DEF Made
<1>10. y.phase = "qualifying" => y.basis = None /\ y.cand # "sw"
  BY DEF Traced
<1>11. y.phase \in {"qualifying", "charging"} => w.rec.latch = "none" /\ "stop" \notin out
  BY <1>5 DEF Traced, Standing
<1>12. y.phase = "charging" /\ y.basis # None /\ "admitted" \notin out =>
          "attached" \notin out /\ y.basis = w.rec.basis
  BY <1>1 DEF Traced, Standing, Names
<1>13. ASSUME y.phase = "stopping", "stop" \notin out
       PROVE  /\ y.stop = w.rec.latch /\ y.basis = w.rec.basis
              /\ "attached" \notin out /\ "admitted" \notin out
              /\ x.phase = "stopping" /\ y.stop = x.stop /\ y.basis = x.basis
  <2>1. x.phase = "stopping" /\ y.stop = x.stop /\ r.out \cap Names = {}
    BY <1>1, <1>13 DEF Traced
  <2>2. "attached" \notin r.out /\ "admitted" \notin r.out
    BY <2>1 DEF Names
  <2> QED
    BY <1>1, <1>4, <2>1, <2>2 DEF Standing
<1>14. ASSUME Granted(y) PROVE Owed(y.basis) = 0
  <2>1. CASE y.phase = "charging"
    BY <1>3, <1>14, <2>1 DEF Granted, Traced
  <2>2. CASE y.phase = "stopping" /\ "stop" \in out
    BY <1>7, <1>14, <2>2 DEF Granted
  <2>3. CASE y.phase = "stopping" /\ "stop" \notin out
    BY <1>13, <1>14, <2>3 DEF Granted, Standing
  <2> QED
    BY <1>14, <2>1, <2>2, <2>3 DEF Granted
<1> HIDE DEF y
<1>15. Grounded(w, y, out, o)
  BY <1>2, <1>6, <1>7, <1>8, <1>9, <1>10, <1>11, <1>12, <1>13, <1>14 DEF Grounded
<1> QED
  BY <1>15 DEF y

\* The end of a charge, or none: no FULL and no stop.
LEMMA NoModelGrounded ==
  ASSUME NEW w, NEW out, NEW o, "stop" \notin out, "fullq" \notin out
  PROVE  Grounded(w, NoModel, out, o)
<1>1. NoModel.basis = None /\ NoModel.phase = "detached"
  BY DEF NoModel
<1> QED
  BY <1>1 DEF Grounded, Known, Live, Granted

LEMMA ModelStanding ==
  ASSUME IInv, Earned, s.maint = "idle", ~s.rest, ~s.unread, NEW w, w.rec = s.rec
  PROVE  Standing(m, w)
<1>1. Follows(m, s.rec) /\ (m.basis # None => Live(m))
  BY DEF Earned, Followed
<1>2. ~m.phys => s.rec.latch = "none"
  BY DEF IInv, ModelInv, Earned
<1>3. Free(m) => w.rec.latch = "none"
  BY <1>1, <1>2 DEF Free, Follows
<1>4. m.basis # None => m.basis \in DOMAIN due /\ m.basis = w.rec.basis
  BY <1>1 DEF Follows, Earned, Carried
<1>5. RecOK(s.rec)
  BY DEF IInv, Good, Services0
<1>6. Granted(m) => m.basis # None /\ Owed(m.basis) = 0
  BY <1>1, <1>5 DEF Granted, Follows, RecOK, Valid
<1> QED
  BY <1>1, <1>3, <1>4, <1>6 DEF Standing, Follows

LEMMA ModelEarned ==
  ASSUME IInv, IInv', Earning, NEW t \in Turns, Possible(t), ModelTurn(t)
  PROVE  Earning'
<1> DEFINE b == Begin(t)
           again == RearmDone(b)
           x == IF again THEN NoModel ELSE m
           o == Observe(b, t)
           r == Update(x, o)
           out == r.out \cup IF again THEN {"restarted"} ELSE {}
           w == [b EXCEPT !.maint = "idle"]
<1>1. /\ ~s.unread /\ ~s.rest /\ (s.maint = "idle" \/ again)
      /\ Finish(Journalled(Settle(w, x, r.x, out, o), t.io), r.x, out, o, t)
  BY DEF ModelTurn
<1> HIDE DEF b
<1>2. Good(s, media) /\ m \in Model /\ plug \in BOOLEAN
  BY DEF IInv, ModelInv, World
<1>3. Good(b, media) /\ Stored(s, b)
  BY <1>1, <1>2, BeginGood DEF b
<1>4. /\ b \in Services /\ ~b.unread /\ ~b.rest /\ b.maint = s.maint /\ b.rec = s.rec
      /\ b.failed = s.failed
  BY <1>1, <1>3 DEF Good, Services0, Stored
<1>5. ~Armed(b.rec)
  BY <1>1, <1>3, <1>4 DEF Good, Inhibit, RearmDone, Armed
<1>6. /\ w \in Services /\ w.ctl = b.ctl /\ w.rec = b.rec /\ w.queued = b.queued
      /\ w.unit = b.unit /\ w.dirty = b.dirty /\ w.rel = b.rel /\ w.unread = b.unread
      /\ ~w.rest /\ w.maint = "idle" /\ w.failed = b.failed
  BY <1>4 DEF Services
<1> HIDE DEF w
<1>7. o.ctl = w.ctl /\ o.plug = plug /\ b.ctl \in Control
  BY <1>4, <1>6 DEF Observe, Services
<1>8. Taken(w)
  BY <1>1, <1>3, <1>5, <1>6, TakenUp
<1>9. x \in Model
  BY <1>2, NoModelOK
<1>10. Observed(o)
  BY <1>7, ObserveSays
<1>11. CASE plug
  <2>1. Made(x, r, o)
    BY <1>7, <1>9, <1>10, <1>11, UpdateMade DEF Observed
  <2>2. ASSUME ~lapsed, ~w.failed PROVE Grounded(w, r.x, out, o)
    <3>1. Earned
      BY <2>2 DEF Earning
    <3>2. Standing(x, w)
      <4>1. CASE again
        <5>1. w.rec.latch = "none"
          BY <1>4, <1>6, <3>1, <4>1 DEF RearmDone, Earned, Followed
        <5>2. /\ x.phase = "detached" /\ x.basis = None
          BY <4>1 DEF NoModel
        <5> QED
          BY <5>1, <5>2 DEF Standing, Granted
      <4>2. CASE ~again
        <5>1. Standing(m, w)
          BY <1>1, <1>4, <1>6, <3>1, <4>2, ModelStanding
        <5> QED
          BY <4>2, <5>1
      <4> QED
        BY <4>1, <4>2
    <3>3. out \in {r.out, r.out \cup {"restarted"}}
      OBVIOUS
    <3> HIDE DEF x, o, out, again
    <3>4. Traced(x, [x |-> x, out |-> {}], o)
      BY <3>2, StartTraced DEF Standing
    <3>5. Traced(x, r, o)
      BY <1>7, <1>9, <1>10, <1>11, <3>4, UpdateTraced DEF Observed
    <3> HIDE DEF r
    <3> QED
      BY <1>10, <2>1, <3>1, <3>2, <3>3, <3>5, ModelGrounded
  <2> HIDE DEF x, o, r, again
  <2>3. /\ \A e \in {"stop", "stopped", "terminal", "fullq"} : e \in out <=> e \in r.out
        /\ "detached" \notin out /\ (out = {} => r.out = {})
    BY <2>1 DEF Made
  <2> HIDE DEF out
  <2>4. Told(w, x, r.x, out, o)
    BY <1>7, <1>9, <2>1, <2>3 DEF Told, Made, Enabled, Requested
  <2> DEFINE y == r.x
  <2>5. /\ Finish(Journalled(Settle(w, x, y, out, Observe(b, t)), t.io), y, out,
                  Observe(b, t), t)
        /\ Told(w, x, y, out, Observe(b, t))
        /\ ~lapsed /\ ~w.failed => Grounded(w, y, out, Observe(b, t))
    BY <1>1, <2>2, <2>4 DEF o
  <2> HIDE DEF y
  <2> QED
    BY <1>6, <1>8, <2>5, TurnEarned
<1>12. CASE ~plug
  <2>1. ~again /\ s.maint = "idle" /\ x = m
    BY <1>1, <1>12 DEF RearmDone
  <2>2. PICK z, e : z = r.x /\ e = out
    OBVIOUS
  <2>3. CASE m.phys
    <3>1. z = NoModel /\ e = {"detached", "terminal"}
      BY <1>7, <1>12, <2>1, <2>2, <2>3 DEF Update, Step
    <3>2. Told(w, x, z, e, o)
      BY <1>7, <1>9, <3>1, NoModelOK DEF Told
    <3>3. Grounded(w, z, e, o)
      BY <3>1, NoModelGrounded
    <3>4. Finish(Journalled(Settle(w, x, z, e, o), t.io), z, e, o, t)
      BY <1>1, <2>2
    <3> HIDE DEF x, r, out
    <3> QED
      BY <1>6, <1>8, <3>2, <3>3, <3>4, TurnEarned
  <2>4. CASE ~m.phys
    <3>1. z = m /\ e = {}
      BY <1>7, <1>12, <2>1, <2>2, <2>4 DEF Update
    <3>2. Told(w, x, z, e, o)
      BY <1>2, <1>7, <1>9, <2>1, <3>1 DEF Told
    <3>3. ASSUME ~lapsed, ~w.failed PROVE Grounded(w, z, e, o)
      <4>1. Earned
        BY <3>3 DEF Earning
      <4>2. Standing(m, w)
        BY <1>1, <1>4, <1>6, <2>1, <4>1, ModelStanding
      <4>3. Known(m.basis, o)
        BY <4>2 DEF Standing, Known
      <4>4. m.basis # None => m.basis = w.rec.basis
        BY <4>2 DEF Standing
      <4> HIDE DEF o
      <4> QED
        BY <3>1, <4>2, <4>3, <4>4 DEF Standing, Grounded, Free
    <3>4. Finish(Journalled(Settle(w, x, z, e, o), t.io), z, e, o, t)
      BY <1>1, <2>2
    <3> HIDE DEF x, r, out
    <3> QED
      BY <1>6, <1>8, <3>2, <3>3, <3>4, TurnEarned
  <2> QED
    BY <2>3, <2>4
<1> QED
  BY <1>2, <1>11, <1>12

-----------------------------------------------------------------------------
(* The other turns.                                                        *)

LEMMA RestoreGrounded ==
  ASSUME IInv, Earned, NEW o, Observed(o), NEW w, w.rec = s.rec, ~Armed(w.rec)
  PROVE  Grounded(w, Restore(w.rec, o).x, Restore(w.rec, o).out, o)
<1> DEFINE r == w.rec
           matches == /\ IF r.latch # "none" THEN Disabled(o.ctl)
                         ELSE Enabled(o.ctl) /\ o.charger \in {"active", "full"}
                      /\ OnBasis(r.basis, o)
           over == r.latch # "none" /\ r.last = r.latch /\ r.lastNow
           x == [NoModel EXCEPT !.phys = TRUE, !.basis = r.basis, !.auth = TRUE]
           z == Restore(r, o)
<1>1. /\ RecOK(r) /\ Counted(r) /\ Known(r.basis, o)
      /\ r.latch \in {"none", "full", "safety"}
  BY DEF IInv, Good, Services0, RecOK, Record, Armed, Earned, Carried, Known
<1>2. CASE ~matches
  <2> DEFINE y == Ended([NoModel EXCEPT !.phys = TRUE], "degraded", FALSE)
  <2>1. y.phase = "degraded" /\ y.basis = None
    BY DEF Ended, NoModel
  <2>2. z.x = y /\ z.out = {"terminal", "rejected"}
    BY <1>2 DEF Restore
  <2> HIDE DEF z, y
  <2> QED
    BY <2>1, <2>2 DEF Grounded, Known, Live, Granted, z
<1>3. CASE matches /\ over
  <2> DEFINE k == IF r.latch = "full" THEN "completeSw" ELSE "safety"
             y == Ended(x, k, r.latch = "full")
  <2>1. y.phase = k /\ y.basis = r.basis
    BY DEF Ended, NoModel
  <2>2. z.x = y /\ z.out = {"restored"} \cup IF r.latch = "full" THEN {"fullq"} ELSE {}
    BY <1>3 DEF Restore
  <2>3. r.latch = "full" => r.basis # None /\ Owed(r.basis) = 0
    BY <1>1 DEF Counted, RecOK, Valid
  <2>4. /\ k \notin {"qualifying", "charging", "stopping"}
        /\ "stop" \notin z.out /\ ("fullq" \in z.out => r.latch = "full")
    BY <2>2
  <2> HIDE DEF z, y, k, matches, over, x
  <2> QED
    BY <1>1, <2>1, <2>2, <2>3, <2>4 DEF Grounded, Live, Granted, z
<1>4. CASE matches /\ ~over
  <2> DEFINE y == [x EXCEPT !.phase = IF r.latch = "none" THEN "charging" ELSE "stopping",
                            !.stop = r.latch, !.seen = r.latch # "none",
                            !.cand = IF r.latch = "full" THEN "sw" ELSE "none"]
  <2>1. /\ y.phase = (IF r.latch = "none" THEN "charging" ELSE "stopping")
        /\ y.stop = r.latch /\ y.basis = r.basis
        /\ y.cand = IF r.latch = "full" THEN "sw" ELSE "none"
    BY DEF NoModel
  <2>2. z.x = y /\ z.out = {"restored"}
    BY <1>4 DEF Restore
  <2>3. r.latch = "full" => Owed(r.basis) = 0
    BY <1>1 DEF Counted
  <2> HIDE DEF z, y, matches, over, x
  <2>4. Granted(y) => r.latch = "full"
    BY <2>1 DEF Granted
  <2> QED
    BY <1>1, <2>1, <2>2, <2>3, <2>4 DEF Grounded, Live, z
<1> QED
  BY <1>2, <1>3, <1>4

LEMMA RestoreEarned ==
  ASSUME IInv, IInv', Earning, NEW t \in Turns, Possible(t), RestoreTurn(t)
  PROVE  Earning'
<1> DEFINE b == Begin(t)
           w == [b EXCEPT !.rest = FALSE]
           o == Observe(w, t)
           r == IF plug THEN Restore(w.rec, o)
                ELSE [x |-> m, out |-> {"detached", "terminal"}]
           ready == o.status /\ o.sample /\ o.ctl.read # "unknown"
<1>1. /\ ~s.unread /\ s.maint = "idle" /\ s.rest
      /\ IF plug /\ ~ready THEN Finish(Journalled(b, t.io), m, {}, o, t)
         ELSE Finish(Journalled(Settle(w, m, r.x, r.out, o), t.io), r.x, r.out, o, t)
  BY DEF RestoreTurn
<1> HIDE DEF b
<1>2. /\ Good(s, media) /\ m = NoModel /\ m \in Model /\ t.io \in Io
  BY <1>1 DEF IInv, ModelInv, Turns
<1>3. Good(b, media) /\ Stored(s, b)
  BY <1>1, <1>2, BeginGood DEF b
<1>4. /\ b \in Services /\ ~b.unread /\ b.rest /\ b.maint = "idle" /\ b.rec = s.rec
      /\ ~Armed(b.rec)
  BY <1>1, <1>3 DEF Good, Services0, Inhibit, Stored
<1>5. /\ w \in Services /\ w.ctl = b.ctl /\ w.rec = b.rec /\ w.queued = b.queued
      /\ w.unit = b.unit /\ w.dirty = b.dirty /\ w.rel = b.rel /\ w.unread = b.unread
      /\ ~w.rest /\ w.maint = "idle"
  BY <1>4 DEF Services
<1> HIDE DEF w
<1>6. o.ctl = w.ctl /\ w.ctl \in Control /\ w.rec \in Record /\ ~Armed(w.rec)
      /\ w.rec = s.rec
  BY <1>4, <1>5 DEF Observe, Services
<1>7. Taken(w)
  BY <1>1, <1>3, <1>4, <1>5, TakenUp
<1>8. Observed(o)
  BY <1>6, ObserveSays
<1>9. CASE plug /\ ~ready
  <2> DEFINE v == Journalled(b, t.io)
  <2>1. Finish(v, m, {}, Observe(w, t), t)
    BY <1>1, <1>9
  <2>2. Good(v, media) /\ Stored(b, v)
    BY <1>2, <1>3, <1>4, JournalledGood
  <2> HIDE DEF v
  <2>3. v \in Services /\ v.rec = s.rec /\ v.unit = s.rec /\ v.maint = "idle"
    BY <1>4, <2>2 DEF Stored, Good, Services0
  <2>4. m.basis = None /\ m.phase = "detached"
    BY <1>2 DEF NoModel
  <2>5. ASSUME ~lapsed PROVE Leaves(v, m, {}, o)
    <3>1. Earned
      BY <2>5 DEF Earning
    <3>2. Known(m.basis, o) /\ Known(s.rec.basis, o) /\ Counted(s.rec)
      BY <2>4, <3>1 DEF Earned, Carried, Known
    <3>3. Follows(m, s.rec)
      BY <2>4 DEF Follows, Live, Granted
    <3> QED
      BY <2>3, <3>2, <3>3 DEF Leaves
  <2>6. Ready1(v, m, {}, Observe(w, t))
    BY <1>2, <2>3, <2>5 DEF Ready1
  <2> QED
    BY <1>6, <2>1, <2>6, FinishEarned
<1>10. CASE ~plug
  <2> DEFINE out == {"detached", "terminal"}
  <2>1. Finish(Journalled(Settle(w, m, m, out, Observe(w, t)), t.io), m, out,
               Observe(w, t), t)
    BY <1>1, <1>10
  <2>2. Told(w, m, m, out, Observe(w, t))
    BY <1>2, <1>6 DEF Told
  <2>3. Grounded(w, m, out, Observe(w, t))
    BY <1>2, NoModelGrounded
  <2> HIDE DEF o, out
  <2> QED
    BY <1>7, <2>1, <2>2, <2>3, TurnEarned
<1>11. CASE plug /\ ready
  <2> DEFINE z == Restore(w.rec, Observe(w, t))
  <2>1. Finish(Journalled(Settle(w, m, z.x, z.out, Observe(w, t)), t.io), z.x, z.out,
               Observe(w, t), t)
    BY <1>1, <1>11
  <2>2. Told(w, NoModel, z.x, z.out, Observe(w, t))
    BY <1>6, RestoreMade
  <2>3. ASSUME ~lapsed PROVE Grounded(w, z.x, z.out, Observe(w, t))
    BY <1>6, <1>8, <2>3, RestoreGrounded DEF Earning
  <2> HIDE DEF o, z
  <2> QED
    BY <1>2, <1>7, <2>1, <2>2, <2>3, TurnEarned
<1> QED
  BY <1>9, <1>10, <1>11

LEMMA MaintenanceSays ==
  ASSUME NEW w \in Services, NEW t \in Turns
  PROVE  LET v == MaintenanceStep(w, t) IN
         ~v.failed => /\ ~w.failed
                      /\ v.rec.basis \in {None, w.rec.basis}
                      /\ v = w \/ (v.maint = "waitRelease" => v.rec.latch = "none")
<1> DEFINE v == MaintenanceStep(w, t)
           r1 == [Unlatched(w.rec) EXCEPT !.used = FALSE]
           r2 == [w.rec EXCEPT !.latch = "none"]
           u1 == [RequestPersist(w, r1) EXCEPT !.rel = TRUE, !.maint = "idle"]
           u2 == [RequestPersist(w, r2) EXCEPT !.rel = TRUE, !.maint = "waitRelease"]
<1>1. \/ v = w
      \/ v = u1
      \/ \E k \in {"hold", "waitInhibit"} : v = [w EXCEPT !.maint = k]
      \/ v = ControlPreflight(u2, t.io)
      \/ w.maint = "waitInhibit" /\ v = [w EXCEPT !.maint = "waitInhibit"]
  BY DEF MaintenanceStep
<1>2. /\ r1 \in Record /\ r1.basis = None /\ r1.latch = "none"
      /\ r2 \in Record /\ r2.basis = w.rec.basis /\ r2.latch = "none"
  BY DEF Services, Record, Unlatched
<1> HIDE DEF v, r1, r2
<1>3. CASE v = w
  BY <1>3 DEF v
<1>4. CASE v = u1
  <2>1. LET p == RequestPersist(w, r1) IN
        p \in Services /\ (~p.failed => p.rec = r1 /\ ~w.failed)
    BY <1>2, PersistSays
  <2>2. v.rec = RequestPersist(w, r1).rec /\ v.failed = RequestPersist(w, r1).failed
        /\ v.maint = "idle"
    BY <1>4, <2>1 DEF Services
  <2> QED
    BY <1>2, <2>1, <2>2 DEF v
<1>5. CASE \E k \in {"hold", "waitInhibit"} : v = [w EXCEPT !.maint = k]
  <2>1. v.rec = w.rec /\ v.failed = w.failed /\ v.maint # "waitRelease"
    BY <1>5 DEF Services
  <2> QED
    BY <2>1 DEF v
<1>6. CASE v = ControlPreflight(u2, t.io)
  <2>1. LET p == RequestPersist(w, r2) IN
        p \in Services /\ (~p.failed => p.rec = r2 /\ ~w.failed)
    BY <1>2, PersistSays
  <2>2. /\ u2 \in Services /\ u2.rec = RequestPersist(w, r2).rec
        /\ u2.failed = RequestPersist(w, r2).failed
    BY <2>1 DEF Services
  <2> HIDE DEF u2
  <2>3. SameJournal(u2, v)
    BY <1>6, <2>2 DEF ControlPreflight, SameJournal, Services
  <2> QED
    BY <1>2, <2>1, <2>2, <2>3 DEF SameJournal, v
<1> QED
  BY <1>1, <1>3, <1>4, <1>5, <1>6

LEMMA MaintenanceEarned ==
  ASSUME IInv, IInv', Earning, NEW t \in Turns, Possible(t), MaintenanceTurn(t)
  PROVE  Earning'
<1> DEFINE c == Begin(t)
           v == MaintenanceStep(c, t)
           w == TryPersist(v)
           y == IF plug THEN m ELSE NoModel
           out == IF plug THEN {} ELSE {"detached", "terminal"}
           o == Observe(c, t)
<1>1. ~s.unread /\ s.maint # "idle" /\ Finish(w, y, out, Observe(c, t), t)
  BY DEF MaintenanceTurn
<1>2. Good(s, media) /\ plug \in BOOLEAN /\ m \in Model /\ ~s.rest
  BY <1>1 DEF IInv, World, ModelInv, Good, Inhibit
<1>3. Good(c, media) /\ Stored(s, c)
  BY <1>1, <1>2, BeginGood
<1> HIDE DEF c
<1>4. /\ c \in Services /\ c.ctl \in Control /\ c.rec = s.rec /\ c.maint = s.maint
      /\ ~c.rest /\ ~c.unread /\ c.failed = s.failed
  BY <1>1, <1>2, <1>3 DEF Stored, Good, Services0, Services
<1>5. /\ Good(v, media) /\ v.unread = c.unread
      /\ v.rec.latch \in {"none", c.rec.latch}
      /\ ~plug => v.rec.latch = "none" /\ v.maint = "idle"
      /\ plug => v.maint # "idle" /\ (Latched(c.rec) => v = c)
  BY <1>1, <1>2, <1>3, <1>4, MaintenanceGood
<1>6. ~v.failed => /\ ~c.failed /\ v.rec.basis \in {None, c.rec.basis}
                   /\ v = c \/ (v.maint = "waitRelease" => v.rec.latch = "none")
  BY <1>4, MaintenanceSays
<1> HIDE DEF v
<1>7. /\ Good(w, media) /\ w.unit = v.rec /\ w.rec = v.rec /\ w.maint = v.maint
      /\ w.failed = v.failed
  BY <1>4, <1>5, TryPersistGood
<1> HIDE DEF w
<1>8. Observed(o)
  BY <1>4, ObserveSays
<1> HIDE DEF o
<1>9. y \in Model /\ "fullq" \notin out
  BY <1>2, NoModelOK
<1>10. ASSUME ~lapsed, ~w.failed PROVE Leaves(w, y, out, o)
  <2>1. Earned
    BY <1>10 DEF Earning
  <2>2. Known(m.basis, o) /\ Known(s.rec.basis, o) /\ Counted(s.rec)
    BY <2>1 DEF Earned, Carried, Known
  <2>3. Known(y.basis, o) /\ Known(v.rec.basis, o)
    BY <1>4, <1>6, <1>7, <1>10, <2>2 DEF Known, NoModel
  <2>4. Counted(v.rec)
    <3> SUFFICES ASSUME v.rec.latch = "full" PROVE Owed(v.rec.basis) = 0
      BY DEF Counted
    <3>1. v = c
      BY <1>2, <1>5 DEF Latched
    <3> QED
      BY <1>4, <2>2, <3>1 DEF Counted
  <2>5. v.maint = "waitRelease" => v.rec.latch = "none"
    BY <1>4, <1>6, <1>7, <1>10, <2>1 DEF Earned, Followed
  <2>6. v.maint = "idle" => Follows(y, v.rec)
    BY <1>5 DEF Follows, Live, Granted, NoModel
  <2> QED
    BY <1>7, <1>9, <2>3, <2>4, <2>5, <2>6 DEF Leaves
<1>11. w \in Services
  BY <1>7 DEF Good, Services0
<1>12. Ready1(w, y, out, Observe(c, t))
  BY <1>9, <1>10, <1>11 DEF Ready1, o
<1> HIDE DEF y, out
<1> QED
  BY <1>1, <1>4, <1>12, FinishEarned

LEMMA RefusedEarned ==
  ASSUME IInv, IInv', Earning, NEW t \in Turns, Possible(t), RefusedTurn(t)
  PROVE  Earning'
<1> DEFINE q == Polled(s, t)
           c == SetInhibit(q.ctl, "sup", TRUE, t.io)
           w == [q EXCEPT !.ctl = c]
           o == Observe(w, t)
<1>1. /\ t.io \in Io /\ Good(s, media) /\ s.unread /\ m \in Model
      /\ Finish(w, m, {}, o, t)
  BY DEF Turns, IInv, ModelInv, RefusedTurn
<1>2. Good(q, media) /\ SameJournal(s, q)
  BY <1>1, PolledGood
<1> HIDE DEF q
<1>3. q \in Services /\ CtlOK(q.ctl)
  BY <1>2 DEF Good, Services0
<1>4. c \in Control
  <2>1. PICK b \in BOOLEAN : b = TRUE
    OBVIOUS
  <2>2. Inhibited(q.ctl, "sup", b, SetInhibit(q.ctl, "sup", b, t.io))
    BY <1>1, <1>3, SetInhibitOK
  <2> QED
    BY <2>1, <2>2 DEF Inhibited, CtlOK
<1> HIDE DEF c
<1>5. w \in Services /\ w.ctl = c /\ SameJournal(q, w)
  BY <1>3, <1>4 DEF Services, SameJournal
<1> HIDE DEF w
<1>6. w.rec = s.rec /\ w.unit = s.unit /\ w.maint = s.maint /\ w.failed = s.failed
  BY <1>2, <1>5 DEF SameJournal
<1>7. Observed(o)
  BY <1>4, <1>5, ObserveSays
<1> HIDE DEF o
<1>8. ASSUME ~lapsed PROVE Leaves(w, m, {}, o)
  <2>1. Earned
    BY <1>8 DEF Earning
  <2>2. Known(m.basis, o) /\ Known(s.rec.basis, o) /\ Known(s.unit.basis, o)
    BY <2>1 DEF Earned, Carried, Known
  <2> QED
    BY <1>6, <2>1, <2>2 DEF Leaves, Earned, Followed
<1>9. Ready1(w, m, {}, Observe(w, t))
  BY <1>1, <1>5, <1>8 DEF Ready1, o
<1> QED
  BY <1>1, <1>4, <1>5, <1>9, FinishEarned DEF o

-----------------------------------------------------------------------------
(* The other steps, and the theorem.                                       *)

LEMMA InitEarned == Init => Earning
<1> SUFFICES ASSUME Init PROVE Earned
  BY DEF Earning
<1>1. /\ early = FALSE /\ s.failed = FALSE /\ s.rec = NoRecord /\ s.unit = NoRecord
      /\ media = NoRecord /\ m = NoModel /\ due = [b \in {} |-> 0] /\ s.maint = "idle"
  BY DEF Init
<1>2. /\ NoRecord.basis = None /\ NoRecord.latch = "none"
      /\ NoModel.basis = None /\ NoModel.phase = "detached"
  BY DEF NoRecord, NoModel
<1>3. DOMAIN due = {}
  BY <1>1
<1>4. Followed
  BY <1>1, <1>2 DEF Followed, Follows, Live, Granted
<1> QED
  BY <1>1, <1>2, <1>3, <1>4 DEF Earned, Carried, Counted

\* A step that neither counts nor takes a record nor changes the model.
LEMMA StillEarned ==
  ASSUME Earning, UNCHANGED <<acr, session, m, l, due, early, lapsed>>,
         s'.rec = s.rec, s'.unit = s.unit, s'.maint = s.maint, s'.failed = s.failed,
         media' \in {media, s.unit}
  PROVE  Earning'
<1> SUFFICES ASSUME Earned PROVE Earned'
  BY DEF Earning
<1>1. ~early' /\ ~s'.failed
  BY DEF Earned
<1>2. (\A b \in DOMAIN due : Sound(b))'
  BY DEF Earned, Sound, On, Bound
<1>3. Carried'
  BY DEF Earned, Carried
<1>4. Counted(s.rec)' /\ Counted(s.unit)' /\ Counted(media)'
  BY DEF Earned, Counted, Owed
<1>5. Followed'
  BY DEF Earned, Followed, Follows, Granted, Live, Owed
<1> QED
  BY <1>1, <1>2, <1>3, <1>4, <1>5 DEF Earned

\* What was counted in full stays so.
LEMMA CountEarned ==
  ASSUME IInv, Earning, NEW unit \in {1, -1}, Count(unit)
  PROVE  Earning'
<1> DEFINE D == DOMAIN due
<1>1. /\ acr' = acr + unit /\ due' = [b \in D |-> IF due[b] = 0 THEN 0 ELSE due[b] - unit]
      /\ UNCHANGED <<session, s, m, l, media, early, lapsed>>
  BY DEF Count, flash
<1>2. /\ acr \in Int /\ D \subseteq Basis /\ \A b \in D : due[b] \in Nat
  BY BudgetAssumption DEF IInv, World, Acr, Owing
<1>3. DOMAIN due' = D /\ \A b \in D : due'[b] = IF due[b] = 0 THEN 0 ELSE due[b] - unit
  BY <1>1
<1> SUFFICES ASSUME Earned PROVE Earned'
  BY <1>1 DEF Earning
<1> HIDE DEF D
<1>4. ASSUME NEW b \in D PROVE Sound(b)'
  <2>1. /\ b.start \in Int /\ b.target \in Int /\ due[b] \in Nat
        /\ due'[b] = IF due[b] = 0 THEN 0 ELSE due[b] - unit
    BY <1>2, <1>3, CapAssumption, BudgetAssumption DEF Basis, Acr
  <2>2. Sound(b)
    BY DEF Earned, D
  <2> QED
    BY <1>1, <1>2, <2>1, <2>2 DEF Sound, On, Bound
<1>5. Carried'
  BY <1>1, <1>3 DEF Earned, Carried, D
<1>6. ASSUME NEW b \in D, Owed(b) = 0 PROVE Owed(b)' = 0
  BY <1>3, <1>6 DEF Owed, D
<1>7. /\ s.rec.basis \in D \cup {None} /\ s.unit.basis \in D \cup {None}
      /\ media.basis \in D \cup {None} /\ m.basis \in D \cup {None}
      /\ RecOK(s.rec) /\ RecOK(s.unit) /\ RecOK(media)
  BY DEF Earned, Carried, D, IInv, Good, Services0
<1>8. ASSUME NEW r, RecOK(r), Counted(r), r.basis \in D \cup {None}
      PROVE  r.latch = "full" => Owed(r.basis)' = 0
  BY <1>6, <1>8 DEF Counted, RecOK, Valid
<1>9. Counted(s.rec)' /\ Counted(s.unit)' /\ Counted(media)'
  <2>1. PICK r1, r2, r3 : r1 = s.rec /\ r2 = s.unit /\ r3 = media
    OBVIOUS
  <2>2. ASSUME NEW r \in {r1, r2, r3} PROVE r.latch = "full" => Owed(r.basis)' = 0
    <3>1. RecOK(r) /\ Counted(r) /\ r.basis \in D \cup {None}
      BY <1>7, <2>1, <2>2 DEF Earned
    <3> QED
      BY <1>8, <3>1
  <2>3. /\ r1.latch = "full" => Owed(r1.basis)' = 0
        /\ r2.latch = "full" => Owed(r2.basis)' = 0
        /\ r3.latch = "full" => Owed(r3.basis)' = 0
    BY <2>2
  <2> QED
    BY <1>1, <2>1, <2>3 DEF Counted, Owed
<1>10. Followed'
  <2>1. ASSUME s.maint = "idle", Granted(m) PROVE Owed(m.basis)' = 0
    <3>1. Owed(m.basis) = 0 /\ m.basis # None
      BY <1>7, <2>1 DEF Earned, Followed, Follows, Granted, RecOK, Valid
    <3>2. PICK b : b = m.basis
      OBVIOUS
    <3>3. b \in D /\ Owed(b) = 0
      BY <1>7, <3>1, <3>2
    <3>4. Owed(b)' = 0
      BY <1>6, <3>3
    <3> QED
      BY <1>1, <3>2, <3>4 DEF Owed
  <2> QED
    BY <1>1, <2>1 DEF Earned, Followed, Follows, Granted, Live
<1> QED
  BY <1>1, <1>3, <1>4, <1>5, <1>9, <1>10 DEF Earned

\* A reset takes up what is on flash; the learner's generation is on flash
\* too, and has seen the latest power-up of the gauge, or the reset is excused.
LEMMA ResetEarned ==
  ASSUME IInv, IInv', Earning, NEW por \in BOOLEAN, NEW io, NEW bad \in BOOLEAN,
         Reset(por, io, bad)
  PROVE  Earning'
<1>1. /\ s'.rec = (IF bad THEN NoRecord ELSE media) /\ s'.unit = media
      /\ ~s'.failed /\ s'.maint \in {"idle", "waitInhibit"}
      /\ m' = NoModel /\ l' = [bound |-> None, pack |-> lm]
      /\ acr' = (IF por THEN 0 ELSE acr) /\ session' = (IF por THEN 1 ELSE 0)
      /\ lapsed' = (lapsed \/ lm # l.pack \/ (~por /\ session # 0 /\ l.bound # session))
      /\ UNCHANGED <<media, due, early>>
  BY DEF Reset, flash
<1> SUFFICES ASSUME ~lapsed' PROVE Earned'
  BY DEF Earning
<1>2. /\ Earned /\ lm = l.pack /\ (por \/ session = 0 \/ l.bound = session)
  BY <1>1 DEF Earning
<1>3. /\ NoRecord.basis = None /\ NoRecord.latch = "none"
      /\ NoModel.basis = None /\ NoModel.phase = "detached"
  BY DEF NoRecord, NoModel
<1>4. /\ l'.pack = l.pack /\ l'.bound = None
  BY <1>1, <1>2
<1>5. ASSUME NEW b \in DOMAIN due PROVE Sound(b)'
  <2>1. Sound(b)
    BY <1>2 DEF Earned
  <2>2. CASE por
    <3>1. ~Bound'
      BY <1>1, <1>4, <2>2 DEF Bound, Behind
    <3> QED
      BY <1>4, <2>1, <3>1 DEF Sound, On
  <2>3. CASE ~por
    <3>1. Bound
      <4>1. session \in Nat /\ (l.bound # None => l.bound \in Nat /\ l.bound <= session)
        BY BudgetAssumption DEF IInv, GaugeInv, Learner, Sessions
      <4> QED
        BY <1>2, <2>3, <4>1, NoneAssumption DEF Bound, Behind
    <3> QED
      BY <1>1, <1>4, <2>1, <2>3, <3>1 DEF Sound, On
  <2> QED
    BY <2>2, <2>3
<1>6. Carried'
  BY <1>1, <1>2, <1>3 DEF Earned, Carried
<1>7. Counted(s.rec)' /\ Counted(s.unit)' /\ Counted(media)'
  BY <1>1, <1>2, <1>3 DEF Earned, Counted, Owed
<1>8. Followed'
  BY <1>1, <1>3 DEF Followed, Follows, Live, Granted
<1> QED
  BY <1>1, <1>2, <1>5, <1>6, <1>7, <1>8 DEF Earned

\* Every step keeps the count of each basis in use, and takes a FULL from one
\* that is owed nothing.
LEMMA NextEarned == IInv /\ IInv' /\ Earning /\ [Next]_vars => Earning'
<1> SUFFICES ASSUME IInv, IInv', Earning, [Next]_vars PROVE Earning'
  OBVIOUS
<1>1. ASSUME NEW t \in Choices, Turn(t) PROVE Earning'
  <2>1. t \in Turns /\ Possible(t)
    BY <1>1, ChoicesAreTurns DEF Turn
  <2> QED
    BY <1>1, <2>1, RefusedEarned, MaintenanceEarned, RestoreEarned, ModelEarned DEF Turn
<1>2. s \in Services
  BY DEF IInv, Good, Services0
<1>3. CASE Commit
  <2>1. /\ s'.rec = s.rec /\ s'.unit = s.unit /\ s'.maint = s.maint
        /\ s'.failed = s.failed /\ media' = s.unit
    BY <1>2, <1>3 DEF Commit, Services
  <2>2. UNCHANGED <<acr, session, m, l, due, early, lapsed>>
    BY <1>3 DEF Commit, pack, history, count
  <2> QED
    BY <2>1, <2>2, StillEarned
<1>4. CASE \/ CommitLearner \/ Plug \/ Unplug
           \/ \E stat \in {"full", "fault"} : BqEnds(stat)
  <2>1. UNCHANGED <<acr, session, s, m, l, due, early, lapsed, media>>
    BY <1>4 DEF CommitLearner, Plug, Unplug, BqEnds, pack, flash, history, count
  <2> QED
    BY <2>1, StillEarned
<1>5. ASSUME NEW unit \in {1, -1}, Count(unit) PROVE Earning'
  BY <1>5, CountEarned
<1>6. ASSUME NEW inhibit \in BOOLEAN, Debug(inhibit) PROVE Earning'
  <2>1. PICK c : s' = [s EXCEPT !.ctl = c]
    BY <1>6 DEF Debug
  <2>2. /\ s'.rec = s.rec /\ s'.unit = s.unit /\ s'.maint = s.maint
        /\ s'.failed = s.failed
    BY <1>2, <2>1 DEF Services
  <2>3. UNCHANGED <<acr, session, m, l, due, early, lapsed, media>>
    BY <1>6 DEF Debug, flash, history, count
  <2> QED
    BY <2>2, <2>3, StillEarned
<1>7. ASSUME NEW por \in BOOLEAN, NEW bad \in BOOLEAN, NEW io \in Io, Reset(por, io, bad)
      PROVE  Earning'
  BY <1>7, ResetEarned
<1>8. CASE UNCHANGED vars
  <2>1. UNCHANGED <<acr, session, s, m, l, due, early, lapsed, media>>
    BY <1>8 DEF vars, pack, flash, history, count
  <2> QED
    BY <2>1, StillEarned
<1> QED
  BY <1>1, <1>3, <1>4, <1>5, <1>6, <1>7, <1>8 DEF Next

\* Every FULL that the supervisor announces (BATTERY_CHARGE_SUPERVISOR_RESULT_
\* FULL_QUALIFIED) rests on a charge that the gauge counted in since the target
\* was frozen, through stops that are taken up again after a reset and through
\* power-ups of the gauge: the journal and the learner keep the count of one pack
\* apart from the next one's.  The two excuses are in the statement.
THEOREM FullsAreEarned == Spec => []FullIsEarned
<1>1. IInv /\ IInv' /\ Earning /\ [Next]_vars => Earning'
  BY NextEarned
<1>2. Earning => FullIsEarned
  <2>1. early /\ ~lapsed => ~Earning
    BY DEF Earning, Earned
  <2> QED
    BY <2>1 DEF FullIsEarned
<1> QED
  BY InitEarned, <1>1, <1>2, SupervisorInvariant, PTL DEF Spec

=============================================================================
