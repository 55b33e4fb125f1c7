-------------------------- MODULE ChargeSupervisor --------------------------
(***************************************************************************)
(* Who may stop a charge, and how the stop survives                         *)
(* (services/battery_charge_supervisor_logic.c, _service.c,                 *)
(* charger_control_service.c, and poll_battery in app_status_runtime.c).    *)
(*                                                                          *)
(* The supervisor freezes what is missing in the pack when a charge begins, *)
(* counts the charge that goes in, and when the target is reached journals  *)
(* a stop, raises /CE of the charger once the journal is on flash, and      *)
(* tells the learner that the pack is FULL once /CE reads back disabled.    *)
(* A FULL pack left on the charger is recharged at most once per FULL, by a *)
(* transaction of its own.  One action is one turn of poll_battery.         *)
(*                                                                          *)
(* Of the learner only the identity of the pack is kept: its generation and *)
(* the gauge session it is bound to.  What it reports of capacity and level *)
(* is any report (Turns), and the gauge counts any charge at any time.      *)
(***************************************************************************)
EXTENDS Integers

CONSTANTS
    None,        \* no frozen basis, no bound session
    Cap,         \* units of input charge that replace the whole capacity
    Limit,       \* units of input charge at the safety limit
    Down, Up,    \* bounds: the gauge's counter stays in -Down..Up
    MaxFaults,   \* bound: turns without evidence, failed accesses, charger
                 \* faults, uses of the raw charger command
    MaxResets,   \* bound: resets of the processor or of the gauge
    MaxPlugs     \* bound: insertions of the cable

ASSUME NoneAssumption == None \notin Int
ASSUME CapAssumption == Cap \in Nat \ {0} /\ Limit \in Nat \ {0}
ASSUME BudgetAssumption ==
    Down \in Nat /\ Up \in Nat /\ MaxFaults \in Nat /\ MaxResets \in Nat /\ MaxPlugs \in Nat

VARIABLES
    plug,        \* the charger's cable is in
    bq,          \* STAT of the enabled charger: "active", "full" or "fault"
    acr,         \* the gauge's counter in its latest sample, relative to its power-up
    session,     \* gauge_session: gauge power-ups seen since the processor's reset
    s,           \* the services' state, see Services
    m,           \* battery_charge_supervisor_state_t, see Model
    l,           \* the learner in RAM: the session it is bound to, the pack's generation
    media,       \* the supervisor's record on flash
    lm,          \* the pack's generation on flash
    looked,      \* a turn has run since the cable moved or the processor started
    stopped,     \* history: a confirmed software stop is in force
    spent,       \* history: "no", "yes": this FULL had its pulse of /CE, or "twice"
    due,         \* history: for each frozen basis in use, the charge the gauge has
                 \* yet to count since the freeze; 0 for good once it was counted
    early,       \* history: a FULL was announced with charge due
    lapsed,      \* history: a reset made the phone forget a power-up of the gauge, or
                 \* the journal refused a record
    faults, resets, plugs

pack == <<plug, bq, acr, session>>
flash == <<media, lm>>
count == <<due, early, lapsed>>
history == <<looked, stopped, spent, count>>
budgets == <<faults, resets, plugs>>
vars == <<pack, s, m, l, flash, history, budgets>>

-----------------------------------------------------------------------------
(* The data.                                                               *)

Acr == -Down..Up
Sessions == 0..(MaxResets + 1)
Packs == 0..(MaxResets + 1)

\* What freeze_admission keeps of the moment a charge began.  known: the
\* capacity and the charge factor are confident; sure: the level was.
Basis == [start : Acr, session : Sessions, pack : Packs, target : 0..Cap,
          known : BOOLEAN, sure : BOOLEAN]

\* battery_charge_supervisor_persisted_t.  "last" is the reason of the last
\* terminal, lastFull whether it was a qualified FULL, lastNow whether it was
\* of the present charge generation; "used" is the loop guard.
Record == [basis : Basis \cup {None},
           latch : {"none", "full", "safety", "rearm"},
           used : BOOLEAN,
           last : {"none", "full", "bq", "safety", "detached", "other"},
           lastFull : BOOLEAN, lastNow : BOOLEAN]

NoRecord == [basis |-> None, latch |-> "none", used |-> FALSE,
             last |-> "none", lastFull |-> FALSE, lastNow |-> FALSE]

\* charger_control_snapshot_t and the pin behind it: charging is requested
\* when nobody inhibits it, read is the last readback.
Control == [owners : SUBSET {"sup", "dbg"},
            read : {"on", "off", "unknown"}, ce : BOOLEAN]

Phases == {"detached", "qualifying", "charging", "stopping", "completeBq",
           "completeSw", "safety", "fault", "degraded"}

\* auth is session_authoritative, cand the candidate ("bq" also stands for
\* full_pending), seen stop_control_seen, full full_qualified.
Model == [phys : BOOLEAN, phase : Phases, basis : Basis \cup {None},
          auth : BOOLEAN, cand : {"none", "bq", "sw"}, seen : BOOLEAN,
          stop : {"none", "full", "safety"}, full : BOOLEAN]

NoModel == [phys |-> FALSE, phase |-> "detached", basis |-> None,
            auth |-> FALSE, cand |-> "none", seen |-> FALSE,
            stop |-> "none", full |-> FALSE]

\* rec is s_pending_persisted, queued its persistence_pending; unit and dirty
\* are the store's copy; failed stands for persistence_failures # 0.
Services == [ctl : Control, rec : Record, queued : BOOLEAN, unit : Record,
             dirty : BOOLEAN, rel : BOOLEAN, rest : BOOLEAN,
             maint : {"idle", "waitInhibit", "hold", "waitRelease"},
             unread : BOOLEAN, failed : BOOLEAN]

Learner == [bound : Sessions \cup {None}, pack : Packs]

TypeOK ==
    /\ plug \in BOOLEAN /\ bq \in {"active", "full", "fault"}
    /\ acr \in Acr /\ session \in Sessions
    /\ s \in Services /\ m \in Model /\ media \in Record
    /\ l \in Learner /\ lm \in Packs
    /\ looked \in BOOLEAN /\ stopped \in BOOLEAN
    /\ spent \in {"no", "yes", "twice"}
    /\ DOMAIN due \subseteq Basis /\ due \in [DOMAIN due -> Nat]
    /\ early \in BOOLEAN /\ lapsed \in BOOLEAN
    /\ faults \in 0..MaxFaults /\ resets \in 0..MaxResets
    /\ plugs \in 0..MaxPlugs

-----------------------------------------------------------------------------
(* The arbiter of /CE.  io is how its accesses end in this turn: "ok",     *)
(* "noWrite" (the pin keeps its level) or "noRead".                        *)

Io == {"ok", "noWrite", "noRead"}

Requested(c) == c.owners = {}
Reading(on) == IF on THEN "on" ELSE "off"
Confirmed(c) == c.read = Reading(Requested(c))
Enabled(c) == Requested(c) /\ c.read = "on"
Disabled(c) == "sup" \in c.owners /\ c.read = "off"

ApplyTarget(c, io) ==
    [c EXCEPT !.ce = IF io = "noWrite" THEN @ ELSE Requested(c),
              !.read = IF io = "ok" THEN Reading(Requested(c)) ELSE "unknown"]

ControlPoll(c, io) ==
    LET d == [c EXCEPT !.read = IF io = "noRead" THEN "unknown"
                                                 ELSE Reading(c.ce)]
    IN  IF Confirmed(d) THEN d ELSE ApplyTarget(d, io)

(* Fault for SetInhibit: a release takes every owner with it.              *)
SetInhibitForAll(c, who, inhibit, io) ==
    ApplyTarget([c EXCEPT !.owners = IF inhibit THEN @ \cup {who} ELSE {}], io)

SetInhibit(c, who, inhibit, io) ==
    LET d == [c EXCEPT !.owners = IF inhibit THEN @ \cup {who} ELSE @ \ {who}]
    IN  IF Requested(d) = Requested(c) /\ Confirmed(d) THEN d
                                                       ELSE ApplyTarget(d, io)

-----------------------------------------------------------------------------
(* The journal.  The store takes a record at once and commits it later.    *)

\* battery_charge_supervisor_persisted_valid
Valid(r) ==
    /\ r.latch = "rearm" => r.basis = None /\ r.last # "none" /\ r.used
    /\ r.latch \in {"full", "safety"} => r.basis # None
    /\ r.lastFull => r.last \in {"full", "bq"}
    /\ r.last = "none" => ~r.used

RequestPersist(w, r) ==
    IF Valid(r) THEN [w EXCEPT !.rec = r, !.queued = TRUE]
                ELSE [w EXCEPT !.failed = TRUE]

TryPersist(w) ==
    IF w.queued
    THEN [w EXCEPT !.queued = FALSE, !.unit = w.rec,
                   !.dirty = @ \/ w.unit # w.rec]
    ELSE w

\* supervisor_store_durable.  A unit that the store has given up stays dirty.
Durable(w) == ~w.queued /\ ~w.dirty

\* service_control_preflight: an inhibit waits for its journal, a release does
\* not.
ControlPreflight(w, io) ==
    LET inhibit == w.rec.latch # "none"
        there == /\ ("sup" \in w.ctl.owners) = inhibit
                 /\ Requested(w.ctl) = ~inhibit
                 /\ Confirmed(w.ctl)
        c == SetInhibit(w.ctl, "sup", inhibit, io)
        done == there \/ Confirmed(c)
    IN  IF IF inhibit THEN ~Durable(w) ELSE ~w.rel THEN w
        ELSE [w EXCEPT !.ctl = IF there THEN @ ELSE c,
                       !.rel = @ /\ ~(done /\ ~inhibit)]

-----------------------------------------------------------------------------
(* The learner: a session it is not bound to is a new pack.                *)

Learn(o) ==
    LET same == IF l.bound = None THEN o.session = 0 ELSE l.bound = o.session
    IN  [bound |-> o.session, pack |-> IF same THEN l.pack ELSE l.pack + 1]

-----------------------------------------------------------------------------
(* What the supervisor sees in a turn.  ev is what the gauge and STAT give: *)
(* "ok", "blind" (no sample), "nostat" (no valid STAT) or "lost" (the gauge *)
(* powered up again); poll: /CE is read again, as it is every second.       *)
(* late: the dwell or deadline that runs is over; sag: the reference        *)
(* voltage is below the restart voltage; low: the voltage says LOW; flush:  *)
(* the flush of a FULL reaches flash.  The learner's report, scaled by the  *)
(* charge factor: target is what is missing, known and sure as in Basis,    *)
(* below says that a confident level is below the restart level.            *)

Turns ==
    [ev : {"ok", "blind", "nostat", "lost"}, io : Io, poll : BOOLEAN,
     late : BOOLEAN, sag : BOOLEAN, low : BOOLEAN, flush : BOOLEAN,
     target : 0..Cap, known : BOOLEAN, sure : BOOLEAN, below : BOOLEAN]

Faults(t) == (IF t.ev \in {"blind", "nostat"} THEN 1 ELSE 0)
             + (IF t.io # "ok" THEN 1 ELSE 0) + (IF t.flush THEN 0 ELSE 1)

\* A choice that no operator reads in this state is fixed.
Either(read, fixed) == IF read THEN BOOLEAN ELSE {fixed}

Choices ==
    LET more == faults < MaxFaults
        over == m.phase \in {"completeBq", "completeSw"}
        starts == /\ plug /\ bq = "active" /\ ~s.unread /\ ~s.rest
                  /\ m.phase \in {"detached", "qualifying"} \/ s.maint = "waitRelease"
        ends == m.phase \in {"charging", "stopping"} \/ s.rest
    IN  [ev : {"ok"} \cup (IF more THEN {"blind"} ELSE {})
                     \cup (IF more /\ plug THEN {"nostat"} ELSE {})
                     \cup (IF resets < MaxResets THEN {"lost"} ELSE {}),
         io : IF more THEN Io ELSE {"ok"},
         poll : Either(~Confirmed(s.ctl) \/ more, TRUE),
         late : Either(m.cand = "bq" \/ m.seen \/ s.maint = "hold", TRUE),
         sag : Either(over, TRUE), low : Either(plug /\ ~s.unread, FALSE),
         flush : Either(plug /\ more /\ ends, TRUE),
         target : IF starts THEN 0..Cap ELSE {Cap},
         known : Either(starts, TRUE), sure : Either(starts, TRUE),
         below : Either(over \/ m.cand = "bq", FALSE)]

\* Within the bounds, and without choices that make no difference.
Possible(t) ==
    /\ ~t.sure => t.known /\ t.target # Cap
    /\ ~t.sag => t.below
    /\ ~t.poll => ~Confirmed(s.ctl) \/ t.io # "ok"
    /\ t.low => t.ev \in {"ok", "nostat"}
    /\ t.ev = "lost" => resets < MaxResets
    /\ faults + Faults(t) <= MaxFaults

\* board_diag's charge_state: the pins of a disabled charger read like FULL.
Stat(c) == IF ~plug \/ c.read = "off" THEN "none"
           ELSE IF c.ce THEN bq ELSE "full"

\* collect_observation and map_admission
Observe(w, t) ==
    LET lost == t.ev = "lost"
        now == session + IF lost THEN 1 ELSE 0
    IN  [plug |-> plug, sample |-> t.ev \in {"ok", "nostat"}, lost |-> lost,
         status |-> t.ev # "nostat", charger |-> Stat(w.ctl), ctl |-> w.ctl,
         acr |-> IF lost THEN 0 ELSE acr, session |-> now, pack |-> l.pack,
         current |-> IF l.bound = None THEN now = 0 ELSE l.bound = now,
         target |-> t.target, known |-> t.known, sure |-> t.sure,
         below |-> t.below, late |-> t.late, sag |-> t.sag]

-----------------------------------------------------------------------------
(* battery_charge_supervisor_update, one operator per part of it.  Each     *)
(* takes and gives a model x with the set "out" of the results so far.      *)

Live(x) == x.phase \in {"qualifying", "charging", "stopping"}
Net(x, o) == o.acr - x.basis.start
(* Fault for OnBasis: any pack that the learner knows will do.             *)
AnyPack(b, o) == o.current

OnBasis(b, o) == b.session = o.session /\ b.pack = o.pack /\ o.current

\* The confidence that a stop by count needs: anchored, or the whole capacity.
Trusted(b) == b.known /\ (b.sure \/ b.target = Cap)

\* A terminal phase; what no later turn reads is dropped.
Ended(x, phase, full) ==
    [x EXCEPT !.phase = phase, !.full = full, !.auth = FALSE,
              !.cand = "none", !.seen = FALSE, !.stop = "none"]

\* coulomb_full_evidence
CoulombFull(x, o) ==
    /\ x.basis # None /\ x.auth /\ o.sample
    /\ Net(x, o) >= x.basis.target
    /\ x.basis.target = Cap \/ x.basis.known
    /\ OnBasis(x.basis, o)

Step(r, x, out) == [x |-> x, out |-> r.out \cup out]

Attach(r, o) ==
    IF r.x.phys THEN r
    ELSE Step(r, [NoModel EXCEPT !.phys = TRUE, !.phase = "qualifying",
                                 !.auth = o.ctl.owners = {} /\ o.ctl.read # "off"],
              {"attached"})

\* A live charge that somebody else stopped loses its authority.
Contaminate(r, o) ==
    LET expected == r.x.phase = "stopping" /\ Disabled(o.ctl)
        foreign == o.ctl.owners # {} \/ o.ctl.read = "off"
    IN  IF Live(r.x) /\ foreign /\ ~expected
        THEN Step(r, [r.x EXCEPT !.auth = FALSE], {}) ELSE r

Judge(r, o) ==
    LET x == r.x
    IN  IF Live(x) /\ o.status /\ o.charger = "fault"
        THEN IF CoulombFull(x, o)
             THEN Step(r, Ended(x, "completeBq", TRUE), {"terminal", "fullq"})
             ELSE Step(r, Ended(x, "fault", FALSE), {"terminal"})
        ELSE IF /\ x.phase = "charging"
                /\ \/ o.lost \/ ~OnBasis(x.basis, o)
                   \/ o.ctl.read = "off" \/ (o.ctl.read = "on" /\ ~Requested(o.ctl))
        THEN Step(r, Ended(x, "degraded", FALSE), {"terminal"})
        ELSE r

\* freeze_admission
Admit(r, o) ==
    IF /\ r.x.phase = "qualifying" /\ o.sample /\ o.status
       /\ o.charger = "active" /\ Enabled(o.ctl) /\ o.current
    THEN Step(r, [r.x EXCEPT !.phase = "charging",
                             !.basis = [start |-> o.acr, session |-> o.session,
                                        pack |-> o.pack, target |-> o.target,
                                        known |-> o.known, sure |-> o.sure]],
              {"admitted"})
    ELSE r

\* The charger's own completion, after its dwell.
Dwell(r, o) ==
    LET x == r.x
        sees == o.status /\ o.charger = "full" /\ Enabled(o.ctl)
        full == CoulombFull(x, o)
    IN  IF x.phase \notin {"charging", "qualifying"} THEN r ELSE
        CASE sees /\ x.cand # "bq" -> Step(r, [x EXCEPT !.cand = "bq"], {})
          [] sees /\ x.cand = "bq" /\ o.late ->
               Step(r, Ended(x, "completeBq", full),
                    {"terminal", "bq"} \cup IF full THEN {"fullq"} ELSE {})
          [] ~sees /\ x.cand = "bq" -> Step(r, [x EXCEPT !.cand = "none"], {})
          [] OTHER -> r

\* blockers_for_observation, without the bits a safety stop ignores
Unblocked(x, o) ==
    /\ x.basis # None /\ x.auth /\ o.current /\ o.sample /\ o.status
    /\ Enabled(o.ctl)

Stop(r, o) ==
    LET x == r.x
        hit == x.cand = "sw" \/ Net(x, o) >= x.basis.target
        y == [x EXCEPT !.cand = IF hit THEN "sw" ELSE @]
    IN  IF x.phase # "charging" \/ x.cand = "bq" \/ ~o.sample \/ Net(x, o) < 0 THEN r ELSE
        CASE hit /\ Unblocked(x, o) /\ Trusted(x.basis) ->
               Step(r, [y EXCEPT !.phase = "stopping", !.stop = "full"], {"stop"})
          [] ~(hit /\ Trusted(x.basis)) /\ Net(x, o) >= Limit /\ Unblocked(x, o) ->
               Step(r, [y EXCEPT !.phase = "stopping", !.stop = "safety"], {"stop"})
          [] OTHER -> Step(r, y, {})

Confirm(r, o) ==
    LET x == r.x
        full == x.stop = "full" /\ x.auth
    IN  IF x.phase # "stopping" \/ "sup" \notin o.ctl.owners THEN r ELSE
        CASE o.ctl.read = "off" ->
               Step(r, Ended(x, IF x.stop = "full" THEN "completeSw" ELSE "safety", full),
                    {"terminal", "stopped"} \cup IF full THEN {"fullq"} ELSE {})
          [] o.ctl.read # "off" /\ x.seen /\ o.late ->
               Step(r, Ended(x, "fault", FALSE), {"terminal"})
          [] OTHER -> Step(r, [x EXCEPT !.seen = TRUE], {})

Update(x, o) ==
    LET r == [x |-> x, out |-> {}]
    IN  CASE ~o.plug /\ x.phys ->
               Step(r, NoModel, {"detached", "terminal"})
          [] ~o.plug /\ ~x.phys -> r
          [] OTHER ->
               Confirm(Stop(Dwell(Admit(Judge(Contaminate(
                   Attach(r, o), o), o), o), o), o), o)

-----------------------------------------------------------------------------
(* battery_charge_supervisor_service_poll.                                 *)

\* clear_active_record, with the latch
Unlatched(r) == [r EXCEPT !.basis = None, !.latch = "none"]

LastOf(phase) == CASE phase = "completeSw" -> "full"
                   [] phase = "completeBq" -> "bq"
                   [] phase = "safety"     -> "safety"
                   [] OTHER                -> "other"

(* Fault for Terminal: the latch is kept whatever ended the charge.         *)
TerminalKeepsLatch(w, r, x, last) ==
    LET q == IF r.latch # "none" THEN r ELSE Unlatched(r)
    IN  RequestPersist(w, [q EXCEPT !.last = last, !.lastFull = x.full,
                                    !.lastNow = TRUE, !.used = @ /\ ~x.full])

\* persist_terminal
Terminal(w, r, x, last) ==
    LET kept == r.latch # "none" /\ last # "detached"
        prior == last = "bq" /\ x.basis = None /\ ~x.full /\ r.lastFull
        q == IF kept THEN [r EXCEPT !.basis = x.basis] ELSE Unlatched(r)
    IN  RequestPersist(w,
            [q EXCEPT !.last = IF prior THEN @ ELSE last,
                      !.lastFull = IF prior THEN @ ELSE x.full,
                      !.lastNow = prior => @,
                      !.used = @ /\ last # "detached" /\ ~x.full])

\* The cable is out: what was latched is released, x is the model before.
Detach(w, x) ==
    LET r == w.rec
        completed == r.latch # "none" /\ r.last = r.latch /\ r.lastNow
        v == CASE completed ->
                    RequestPersist(w, [Unlatched(r) EXCEPT !.used = FALSE])
               [] ~completed /\ (r.basis # None \/ (Live(x) /\ x.basis # None)) ->
                    Terminal(w, r, x, "detached")
               [] OTHER -> w
    IN  [IF v.rec.used THEN RequestPersist(v, [v.rec EXCEPT !.used = FALSE]) ELSE v
            EXCEPT !.rel = @ \/ r.latch # "none"]

SocReady(o) == o.sample /\ o.current /\ o.below

\* maintenance_ready
MaintenanceReady(w, y, out, o) ==
    /\ out = {} /\ w.maint = "idle" /\ o.plug /\ o.status
    /\ o.ctl.read # "unknown" /\ o.ctl.owners \subseteq {"sup"}
    /\ y.phase \in {"completeBq", "completeSw"} /\ (y.full \/ w.rec.lastFull)
    /\ SocReady(o) /\ o.sag /\ Durable(w)

\* unqualified_bq_recovery_ready
RecoveryReady(w, out, o) ==
    /\ "bq" \in out /\ "fullq" \notin out
    /\ w.maint = "idle" /\ ~w.rel /\ w.rec.latch = "none"
    /\ ~w.rec.used /\ ~w.rec.lastFull
    /\ o.status /\ o.charger = "full" /\ Enabled(o.ctl) /\ SocReady(o)

(* Fault for Arm: the FULL that authorized the attempt is kept.             *)
ArmKeepsFull(w) ==
    [RequestPersist(w, [w.rec EXCEPT !.basis = None, !.latch = "rearm", !.used = TRUE])
        EXCEPT !.maint = "waitInhibit"]

\* request_maintenance_inhibit
Arm(w) ==
    [RequestPersist(w, [w.rec EXCEPT !.basis = None, !.latch = "rearm",
                                     !.used = TRUE, !.lastFull = FALSE])
        EXCEPT !.maint = "waitInhibit"]

\* What the turn journals: x was the model, y is it now.
Settle(w, x, y, out, o) ==
    LET r == [w.rec EXCEPT !.lastNow = @ /\ "attached" \notin out]
        ended == Terminal(w, r, y, LastOf(y.phase))
    IN  IF "stop" \in out
        THEN RequestPersist(w, [r EXCEPT !.basis = y.basis, !.latch = y.stop])
        ELSE IF "detached" \in out THEN Detach(w, x)
        ELSE IF "rejected" \in out /\ w.rec.latch # "none" THEN w
        ELSE IF "terminal" \in out
        THEN IF RecoveryReady(w, out, o) THEN Arm(ended) ELSE ended
        ELSE IF "admitted" \in out THEN RequestPersist(w, [r EXCEPT !.basis = y.basis])
        ELSE IF "attached" \in out THEN RequestPersist(w, [r EXCEPT !.basis = None])
        ELSE IF MaintenanceReady(w, y, out, o) THEN Arm(w) ELSE w

Journalled(w, io) ==
    LET v == TryPersist(w) IN IF v.rel THEN ControlPreflight(v, io) ELSE v

\* battery_charge_supervisor_restore_active and _reject_restore
Restore(r, o) ==
    LET matches == /\ IF r.latch # "none" THEN Disabled(o.ctl)
                      ELSE Enabled(o.ctl) /\ o.charger \in {"active", "full"}
                   /\ OnBasis(r.basis, o)
        over == r.latch # "none" /\ r.last = r.latch /\ r.lastNow
        x == [NoModel EXCEPT !.phys = TRUE, !.basis = r.basis, !.auth = TRUE]
    IN  CASE ~matches ->
               [x |-> Ended([NoModel EXCEPT !.phys = TRUE], "degraded", FALSE),
                out |-> {"terminal", "rejected"}]
          [] matches /\ over ->
               [x |-> Ended(x, IF r.latch = "full" THEN "completeSw" ELSE "safety",
                            r.latch = "full"),
                out |-> {"restored"} \cup IF r.latch = "full" THEN {"fullq"} ELSE {}]
          [] OTHER ->
               [x |-> [x EXCEPT !.phase = IF r.latch = "none" THEN "charging"
                                                            ELSE "stopping",
                                !.stop = r.latch, !.seen = r.latch # "none",
                                !.cand = IF r.latch = "full" THEN "sw" ELSE "none"],
                out |-> {"restored"}]

\* The end of an attached maintenance: the model begins anew.
RearmDone(w) ==
    /\ w.maint = "waitRelease" /\ plug /\ Durable(w)
    /\ w.rec.latch # "rearm" /\ Enabled(w.ctl)

\* service_maintenance_step, but for RearmDone
MaintenanceStep(w, t) ==
    CASE ~plug ->
           [RequestPersist(w, [Unlatched(w.rec) EXCEPT !.used = FALSE])
               EXCEPT !.rel = TRUE, !.maint = "idle"]
      [] plug /\ w.maint = "waitInhibit" ->
           [w EXCEPT !.maint = IF Durable(w) /\ w.rec.latch = "rearm" /\ Disabled(w.ctl)
                               THEN "hold" ELSE @]
      [] plug /\ w.maint = "hold" /\ ~Disabled(w.ctl) ->
           [w EXCEPT !.maint = "waitInhibit"]
      [] plug /\ w.maint = "hold" /\ Disabled(w.ctl) /\ t.late ->
           ControlPreflight([RequestPersist(w, [w.rec EXCEPT !.latch = "none"])
                                EXCEPT !.rel = TRUE, !.maint = "waitRelease"], t.io)
      [] OTHER -> w

\* battery_charge_supervisor_service_release_for_battery_floor
FloorRelease(w, io) ==
    LET needed == ~w.unread /\ (w.rec.latch # "none" \/ "sup" \in w.ctl.owners \/ w.rel)
        v == IF w.rel /\ w.rec.latch = "none" THEN w
             ELSE RequestPersist(w, Unlatched(w.rec))
    IN  IF needed
        THEN ControlPreflight([v EXCEPT !.rest = FALSE, !.rel = TRUE,
                                        !.maint = "waitRelease"], io)
        ELSE w

-----------------------------------------------------------------------------
(* A turn of poll_battery.                                                 *)

Polled(w, t) == IF t.poll THEN [w EXCEPT !.ctl = ControlPoll(@, t.io)] ELSE w

Begin(t) ==
    ControlPreflight(TryPersist(Polled(s, t)), t.io)

Charging(c, stat) == plug /\ c.ce /\ stat = "active"

\* The charge that the gauge has yet to count for b; all of it if just frozen.
Owed(b) == IF b \in DOMAIN due THEN due[b] ELSE b.target

\* What follows the supervisor: the learner, the flush of an anchor, the floor.
Finish(w, y, out, o, t) ==
    LET full == "fullq" \in out
        flushed == full /\ o.plug /\ o.sample /\ t.flush
        recovers == o.sample /\ o.status /\ o.charger = "active" /\ Enabled(w.ctl)
        low == t.low /\ o.sample /\ o.plug /\ ~recovers
        d == IF flushed THEN [w EXCEPT !.dirty = FALSE] ELSE w
        v == IF low THEN FloorRelease(d, t.io) ELSE d
        armed == v.rec.latch = "rearm" /\ s.rec.latch # "rearm"
        held == v.maint = "hold"
    IN  /\ s' = v
        /\ m' = IF Live(y) THEN y ELSE [y EXCEPT !.basis = None]
        /\ l' = Learn(o)
        /\ media' = IF flushed THEN w.unit ELSE media
        /\ lm' = IF flushed THEN l'.pack ELSE lm
        /\ bq' = IF plug /\ v.ctl.ce THEN bq ELSE "active"
        /\ acr' = o.acr /\ session' = o.session
        /\ looked' = TRUE
        /\ stopped' = (/\ stopped \/ "stopped" \in out
                       /\ "detached" \notin out /\ ~armed /\ ~(low /\ ~w.unread))
        /\ spent' = IF "detached" \in out \/ (full /\ ~("restored" \in out /\ s.rec.lastFull))
                    THEN "no"
                    ELSE CASE armed /\ spent = "yes" -> "twice"
                           [] held /\ spent = "no"   -> "yes"
                           [] OTHER                  -> spent
        /\ due' = [b \in {m'.basis, v.rec.basis, v.unit.basis, media'.basis} \ {None} |->
                      Owed(b)]
        /\ early' = (early \/ (full /\ (y.basis = None \/ Owed(y.basis) # 0)))
        /\ faults' = faults + Faults(t)
        /\ resets' = resets + IF o.lost THEN 1 ELSE 0
        /\ lapsed' = (lapsed \/ v.failed)
        /\ UNCHANGED <<plug, plugs>>

\* The record could not be read at boot: the charger stays inhibited.
RefusedTurn(t) ==
    LET w == [Polled(s, t) EXCEPT !.ctl = SetInhibit(@, "sup", TRUE, t.io)]
    IN  s.unread /\ Finish(w, m, {}, Observe(w, t), t)

MaintenanceTurn(t) ==
    LET w == Begin(t)
        gone == IF plug THEN {} ELSE {"detached", "terminal"}
    IN  /\ ~s.unread /\ s.maint # "idle" /\ ~RearmDone(w)
        /\ Finish(TryPersist(MaintenanceStep(w, t)), IF plug THEN m ELSE NoModel,
                  gone, Observe(w, t), t)

RestoreTurn(t) ==
    LET w == [Begin(t) EXCEPT !.rest = FALSE]
        o == Observe(w, t)
        r == IF plug THEN Restore(w.rec, o)
             ELSE [x |-> m, out |-> {"detached", "terminal"}]
        ready == o.status /\ o.sample /\ o.ctl.read # "unknown"
    IN  /\ ~s.unread /\ s.maint = "idle" /\ s.rest
        /\ IF plug /\ ~ready
           THEN Finish(Journalled(Begin(t), t.io), m, {}, o, t)
           ELSE Finish(Journalled(Settle(w, m, r.x, r.out, o), t.io), r.x, r.out, o, t)

ModelTurn(t) ==
    LET w == Begin(t)
        again == RearmDone(w)
        x == IF again THEN NoModel ELSE m
        o == Observe(w, t)
        r == Update(x, o)
        out == r.out \cup IF again THEN {"restarted"} ELSE {}
        v == Settle([w EXCEPT !.maint = "idle"], x, r.x, out, o)
    IN  /\ ~s.unread /\ ~s.rest /\ (s.maint = "idle" \/ again)
        /\ Finish(Journalled(v, t.io), r.x, out, o, t)

Turn(t) ==
    /\ Possible(t)
    /\ RefusedTurn(t) \/ MaintenanceTurn(t) \/ RestoreTurn(t) \/ ModelTurn(t)

-----------------------------------------------------------------------------
(* The store, the pack, the cable and the processor.                       *)

Commit ==
    /\ s.dirty
    /\ s' = [s EXCEPT !.dirty = FALSE]
    /\ media' = s.unit
    /\ UNCHANGED <<pack, m, l, lm, history, budgets>>

CommitLearner ==
    /\ lm # l.pack
    /\ lm' = l.pack
    /\ UNCHANGED <<pack, s, m, l, media, history, budgets>>

\* The next sample of the gauge has counted a unit in or out.  What was frozen
\* is owed that much less, until it was counted in full.
Count(unit) ==
    /\ acr + unit \in Acr
    /\ acr' = acr + unit
    /\ due' = [b \in DOMAIN due |-> IF due[b] = 0 THEN 0 ELSE due[b] - unit]
    /\ UNCHANGED <<plug, bq, session, s, m, l, flash, looked, stopped, spent,
                   early, lapsed, budgets>>

\* The charger ends on its own, at any charge, or fails.
BqEnds(stat) ==
    /\ Charging(s.ctl, bq)
    /\ stat = "fault" => faults < MaxFaults
    /\ bq' = stat
    /\ faults' = faults + IF stat = "fault" THEN 1 ELSE 0
    /\ UNCHANGED <<plug, acr, session, s, m, l, flash, history, resets, plugs>>

Plug ==
    /\ ~plug /\ plugs < MaxPlugs
    /\ plug' = TRUE /\ plugs' = plugs + 1
    /\ looked' = FALSE
    /\ UNCHANGED <<bq, acr, session, s, m, l, flash, stopped, spent, count,
                   faults, resets>>

Unplug ==
    /\ plug
    /\ plug' = FALSE /\ bq' = "active" /\ looked' = FALSE
    /\ UNCHANGED <<acr, session, s, m, l, flash, stopped, spent, count, budgets>>

\* board_diag_debug_set_charger_enabled
Debug(inhibit) ==
    /\ inhibit => faults < MaxFaults
    /\ ~inhibit => "dbg" \in s.ctl.owners
    /\ s' = [s EXCEPT !.ctl = SetInhibit(@, "dbg", inhibit, "ok")]
    /\ faults' = faults + IF inhibit THEN 1 ELSE 0
    /\ bq' = IF plug /\ s'.ctl.ce THEN bq ELSE "active"
    /\ UNCHANGED <<plug, acr, session, m, l, flash, history, resets, plugs>>

\* A reset of the processor, of the whole board if por, and the boot up to the
\* first turn; bad: the supervisor's record cannot be read.
Reset(por, io, bad) ==
    LET cost == (IF io = "ok" THEN 0 ELSE 1) + IF bad THEN 1 ELSE 0
        c == [owners |-> IF media.latch # "none" \/ bad THEN {"sup"} ELSE {},
              read |-> "unknown", ce |-> ~por /\ s.ctl.ce]
        rearm == ~bad /\ media.latch = "rearm"
    IN  /\ resets < MaxResets /\ faults + cost <= MaxFaults
        /\ s' = [ctl |-> ApplyTarget(c, io), rec |-> IF bad THEN NoRecord ELSE media,
                 queued |-> FALSE, unit |-> media, dirty |-> FALSE, rel |-> FALSE,
                 rest |-> ~bad /\ ~rearm /\ media.basis # None,
                 maint |-> IF rearm THEN "waitInhibit" ELSE "idle",
                 unread |-> bad, failed |-> FALSE]
        /\ m' = NoModel
        /\ l' = [bound |-> None, pack |-> lm]
        /\ acr' = IF por THEN 0 ELSE acr
        /\ session' = IF por THEN 1 ELSE 0
        /\ bq' = IF plug /\ s'.ctl.ce THEN bq ELSE "active"
        /\ looked' = FALSE
        /\ lapsed' = (lapsed \/ lm # l.pack \/ (~por /\ session # 0 /\ l.bound # session))
        /\ faults' = faults + cost /\ resets' = resets + 1
        /\ UNCHANGED <<plug, flash, stopped, spent, due, early, plugs>>

Init ==
    /\ plug = FALSE /\ bq = "active" /\ acr = 0 /\ session = 0
    /\ s = [ctl |-> [owners |-> {}, read |-> "on", ce |-> TRUE], rec |-> NoRecord,
            queued |-> FALSE, unit |-> NoRecord, dirty |-> FALSE, rel |-> FALSE,
            rest |-> FALSE, maint |-> "idle", unread |-> FALSE, failed |-> FALSE]
    /\ m = NoModel
    /\ l = [bound |-> 0, pack |-> 0] /\ lm = 0
    /\ media = NoRecord
    /\ looked = TRUE /\ stopped = FALSE /\ spent = "no"
    /\ due = [b \in {} |-> 0] /\ early = FALSE /\ lapsed = FALSE
    /\ faults = 0 /\ resets = 0 /\ plugs = 0

Next ==
    \/ \E t \in Choices : Turn(t)
    \/ Commit \/ CommitLearner \/ Plug \/ Unplug
    \/ \E unit \in {1, -1} : Count(unit)
    \/ \E stat \in {"full", "fault"} : BqEnds(stat)
    \/ \E inhibit \in BOOLEAN : Debug(inhibit)
    \/ \E por, bad \in BOOLEAN, io \in Io : Reset(por, io, bad)

Spec == Init /\ [][Next]_vars

-----------------------------------------------------------------------------

\* The variables have their types, and a confirmed software stop keeps the
\* charger off, whatever is retried, reset or released by others, until the
\* cable is out, a maintenance begins or the battery floor releases it.
StaysStopped == TypeOK /\ (stopped => ~s.ctl.ce)

\* Every FULL rests on a count that was made: since its target was frozen, the
\* gauge has counted that charge in, also when the stop, the baseline or the FULL
\* itself is taken up again after a reset, and whatever the gauge counted before
\* or after a power-up of its own.  Excused (lapsed): a reset before the learner's
\* new generation of the pack is on flash, which forgets the power-up; a refused
\* record, whose latch then stays for the next charge.
FullIsEarned == early => lapsed

\* A FULL earns one pulse of /CE: the next one waits for the next FULL or for a
\* detach, also when a reset falls into the transaction.
OneRearmPerFull == spent # "twice"

\* Once a turn has seen the cable out, no latch remains, and the inhibit is off
\* or its release is being retried, unless the journal refused a record.
DetachReleases ==
    ~plug /\ looked /\ ~s.unread /\ ~s.failed =>
        s.rec.latch = "none" /\ ("sup" \in s.ctl.owners => s.rel)

=============================================================================
