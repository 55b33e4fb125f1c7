------------------------------ MODULE ModemPower ------------------------------
(***************************************************************************)
(* Power of the cellular module: the power half of                         *)
(* src/src/services/modem_service.c, with modem_vendor_telit.c (what a     *)
(* reading of PWRMON means), shared_3v8_service.c (the rail the module     *)
(* shares with the buzzer) and the failure screen of power_app.c.          *)
(*                                                                         *)
(* The service is one record s; each C function is an operator that takes  *)
(* it and gives the s that follows, and each action is one way through a   *)
(* part of modem_service_tick, or a request of the application.  The       *)
(* module itself, the samples of PWRMON and PG, the levels of CTS and RX   *)
(* and the deadlines belong to the environment.  One command stands for    *)
(* initialisation, one setting for provisioning.                           *)
(***************************************************************************)
EXTENDS Naturals

CONSTANTS
    RestartLimit,  \* MODEM_STARTUP_RESTART_LIMIT
    MaxAsks,       \* bound on the requests of the application
    MaxFaults,     \* bound on false samples, drops, lost answers, late wake-ups
    MaxSounds      \* bound on the times the buzzer takes the rail

ASSUME ModemPowerAssumption ==
    RestartLimit \in Nat /\ MaxAsks \in Nat /\ MaxFaults \in Nat /\ MaxSounds \in Nat

VARIABLES
    s,       \* the static variables of modem_service.c: see Service
    audio,   \* the rail's owner bit of the buzzer
    down,    \* the rail is "up", or it is down: "brief" or "long" for a discharge
    mod,     \* the module: "off", "starting" (PWRMON still low) or "on"
    order,   \* what the module was told and has not done: "leave" or "reboot"
    wish,    \* the application's latest request
    shown,   \* app->power_off_failed
    lost,    \* history: a restart cancelled the shutdown that was asked for
    asks, faults, sounds

world == <<audio, down, mod, order>>
vars  == <<s, world, wish, shown, lost, asks, faults, sounds>>

States   == {"off", "railwait", "pulse", "modwait", "probe", "init", "provision",
             "ready", "discharge", "failed"}
Live     == {"probe", "init", "provision", "ready"}
Reads    == {"sim", "sms"}                    \* storage reads that cannot be aborted
Drains   == {"simdrain", "smsdrain"}          \* and the wait for their late final
Commands == {"ping", "init", "query", "set", "reboot", "off", "work"} \cup Reads
Reading  == {"on", "low", "bad"}              \* a sample of PWRMON; "bad" is invalid

Service ==
    [st : States, cmd : Commands \cup Drains \cup {"none"},
     deferred : (Commands \ {"ping"}) \cup {"none"},   \* s_deferred_kind
     waking : BOOLEAN,                                 \* s_dtr_wake_pending
     onPend : BOOLEAN, offPend : BOOLEAN, parked : BOOLEAN,
     recycled : BOOLEAN, restarts : 0 .. RestartLimit, done : BOOLEAN,
     rebooted : BOOLEAN, rebootReq : BOOLEAN, cycle : BOOLEAN, drop : BOOLEAN,
     phase : {"query", "set", "verify", "done"},       \* of the one setting
     live : BOOLEAN, supply : BOOLEAN, qualify : BOOLEAN, \* s_failed_...
     stage : {"none", "software", "graceful", "unconditional", "terminal"},
     pulsing : BOOLEAN, failure : BOOLEAN,
     sense : {"no", "now", "past"},     \* PWRMON low: not, since less than 500 ms, more
     owner : BOOLEAN,                   \* the modem's owner bit of the rail
     dwell : {"none", "running", "over"}, moved : BOOLEAN] \* moved: transition_count

TypeOK ==
    /\ s \in Service /\ audio \in BOOLEAN /\ down \in {"up", "brief", "long"}
    /\ mod \in {"off", "starting", "on"} /\ order \in {"none", "leave", "reboot"}
    /\ wish \in {"on", "off"} /\ shown \in BOOLEAN /\ lost \in BOOLEAN
    /\ asks \in 0 .. MaxAsks /\ faults \in 0 .. MaxFaults /\ sounds \in 0 .. MaxSounds
    /\ (down = "up") = (s.owner \/ audio)

Init ==
    /\ s = [st |-> "off", cmd |-> "none", deferred |-> "none", waking |-> FALSE,
            onPend |-> FALSE, offPend |-> FALSE, parked |-> TRUE, recycled |-> FALSE,
            restarts |-> 0, done |-> FALSE, rebooted |-> FALSE, rebootReq |-> FALSE,
            cycle |-> FALSE, drop |-> FALSE, phase |-> "query", live |-> FALSE,
            supply |-> FALSE, qualify |-> FALSE, stage |-> "none", pulsing |-> FALSE,
            failure |-> FALSE, sense |-> "no", owner |-> FALSE, dwell |-> "running",
            moved |-> FALSE]
    /\ audio = FALSE /\ down = "brief" /\ mod = "off" /\ order = "none"
    /\ wish = "off" /\ shown = FALSE /\ lost = FALSE
    /\ asks = 0 /\ faults = 0 /\ sounds = 0

----------------------------------------------------------------------------
(* The rail, the shutdown ladder and the waits.                            *)

Release(x)   == [x EXCEPT !.owner = FALSE, !.moved = @ \/ (x.owner /\ ~audio)]
StartDwell(x) == [x EXCEPT !.dwell = "running", !.moved = FALSE]

(* Fault for DwellStale: a rail that was up in between is not noticed.     *)
DwellStaleIfNone(x) == x.dwell = "none"

DwellStale(x) == x.dwell = "none" \/ x.moved

ResetEscalation(x) == [x EXCEPT !.stage = "none", !.pulsing = FALSE]
Asleep(x)          == [x EXCEPT !.waking = FALSE]   \* the DTR wake is over

EnterModuleWait(x) ==
    [ResetEscalation(x) EXCEPT !.st = "modwait", !.qualify = FALSE, !.sense = "no"]

EnterOff(x) ==
    LET y == Release([ResetEscalation(Asleep(x)) EXCEPT
                         !.st = "off", !.cmd = "none", !.deferred = "none",
                         !.cycle = FALSE, !.drop = FALSE, !.live = FALSE,
                         !.supply = FALSE, !.qualify = FALSE, !.failure = FALSE,
                         !.offPend = FALSE, !.parked = TRUE])
    IN  IF audio THEN [y EXCEPT !.dwell = "none"] ELSE StartDwell(y)

Fail(x, live) ==
    LET y == [Asleep(x) EXCEPT
                 !.st = "failed", !.cmd = "none", !.deferred = "none", !.live = live,
                 !.supply = FALSE, !.qualify = FALSE, !.pulsing = FALSE,
                 !.stage = IF @ = "terminal" THEN @ ELSE "none",
                 !.cycle = FALSE, !.drop = FALSE, !.offPend = FALSE]
    IN  IF live THEN y ELSE Release([y EXCEPT !.parked = TRUE])

FailSupply(x, live) == [Fail(x, live) EXCEPT !.supply = TRUE]

Recover(x, r) ==
    EnterModuleWait([Asleep(x) EXCEPT !.parked = @ \/ r # "on", !.onPend = FALSE,
                                      !.live = FALSE, !.supply = FALSE])

(* Every rung has failed.  The rail stays, the application is told, unless *)
(* a newer request to switch on takes the module back into service.        *)
Terminal(x, r) ==
    LET y == [Fail([x EXCEPT !.stage = "terminal", !.failure = TRUE], TRUE)
                 EXCEPT !.qualify = TRUE]
    IN  IF x.onPend THEN Recover([y EXCEPT !.failure = FALSE], r) ELSE y

(* The alarm that ends a pulse may not be had; the pulse is not begun then. *)
StartFallback(x, stage, armed, r) ==
    IF armed THEN [x EXCEPT !.stage = stage, !.pulsing = TRUE] ELSE Terminal(x, r)

SupplyFaultShutdown(x, armed, r) ==
    LET y == [ResetEscalation(x) EXCEPT !.failure = FALSE, !.qualify = FALSE,
                 !.live = FALSE, !.st = "discharge", !.parked = TRUE]
    IN  [StartFallback(y, "graceful", armed, r) EXCEPT !.supply = FALSE]

BeginDischarge(x) ==
    [x EXCEPT !.failure = FALSE, !.stage = "software", !.pulsing = FALSE, !.sense = "no",
              !.st = "discharge", !.parked = TRUE, !.cmd = "none"]

(* A command goes out at once if CTS is asserted, as it never is while the *)
(* UART is parked, or else after the DTR wake.                             *)
Send(x, kind, awake) ==
    IF (awake /\ ~x.parked) \/ kind = "ping" THEN [x EXCEPT !.cmd = kind]
    ELSE [x EXCEPT !.deferred = kind, !.waking = TRUE]

BeginOn(x) ==
    IF x.st \notin {"off", "failed"} THEN x
    ELSE [ResetEscalation(Asleep(x)) EXCEPT
             !.done = FALSE, !.supply = FALSE, !.failure = FALSE, !.offPend = FALSE,
             !.live = FALSE, !.qualify = FALSE, !.owner = TRUE, !.dwell = "none",
             !.moved = FALSE, !.cmd = "none", !.st = "railwait"]

----------------------------------------------------------------------------
(* modem_service_power_on and modem_begin_power_off.                       *)

FreshSession(x) ==
    [x EXCEPT !.recycled = FALSE, !.restarts = 0, !.done = FALSE, !.rebooted = FALSE,
              !.rebootReq = FALSE, !.cycle = FALSE, !.drop = FALSE]

PowerOn(x, r) ==
    CASE x.deferred = "off" -> [Asleep(x) EXCEPT !.deferred = "none"]
      [] x.deferred # "off" /\ x.offPend -> [x EXCEPT !.offPend = FALSE]
      [] x.deferred # "off" /\ ~x.offPend /\ (x.cmd = "off" \/ x.st = "discharge") ->
            [x EXCEPT !.onPend = TRUE]
      [] OTHER ->
            IF x.st = "failed"
            THEN LET y == [FreshSession(x) EXCEPT !.failure = FALSE] IN
                 IF x.live THEN Recover(y, r) ELSE EnterOff([y EXCEPT !.onPend = TRUE])
            ELSE IF x.st # "off" THEN x
            ELSE LET up    == x.owner \/ audio
                     y     == FreshSession(x)
                     stale == DwellStale(y)
                     z     == IF ~up /\ stale THEN StartDwell(y) ELSE y
                 IN  IF up \/ stale \/ z.dwell # "over" THEN [z EXCEPT !.onPend = TRUE]
                     ELSE BeginOn(z)

(* Fault for Overrides: the queued restart stays.                          *)
OverridesNothing(x) == [x EXCEPT !.failure = FALSE]

(* The latest request wins: a restart that was queued is forgotten.        *)
Overrides(x) == [x EXCEPT !.onPend = FALSE, !.failure = FALSE]

BeginOff(x0, r, awake, armed) ==
    LET x == Overrides(x0)
        y == [x EXCEPT !.cmd = "none", !.deferred = "none"] IN
    CASE x.offPend \/ x.st = "discharge" \/ x.cmd = "off" -> x
      [] ~x.offPend /\ x.st = "off" -> EnterOff(x)
      [] ~x.offPend /\ x.cmd \in Reads \cup Drains -> [x EXCEPT !.offPend = TRUE]
      [] OTHER ->
            IF y.st = "failed" /\ y.supply /\ y.live THEN SupplyFaultShutdown(y, armed, r)
            ELSE IF y.st \in {"pulse", "modwait"} \/ (y.st = "railwait" /\ r = "on")
            THEN [y EXCEPT !.offPend = TRUE]
            ELSE IF y.st = "failed" /\ y.live /\ y.parked
            THEN EnterModuleWait([y EXCEPT !.offPend = TRUE, !.live = FALSE])
            ELSE IF y.st \in Live \/ (y.st = "failed" /\ y.live) \/ r = "on"
            THEN Send(y, "off", awake)
            ELSE EnterOff(y)

----------------------------------------------------------------------------
(* Restarts of the module.                                                 *)

NoteDrop(x) == [Asleep(x) EXCEPT !.drop = TRUE, !.parked = TRUE]

ReinitWait(x) == EnterModuleWait([Asleep(x) EXCEPT !.phase = "query"])

RebootWait(x) ==
    ReinitWait([x EXCEPT !.rebooted = TRUE, !.rebootReq = FALSE, !.cycle = TRUE])

StartupRestart(x) ==
    ReinitWait([x EXCEPT !.restarts = @ + 1, !.deferred = "none", !.cmd = "none",
                         !.rebootReq = FALSE, !.parked = TRUE])

(* inTime: within MODEM_STARTUP_RESTART_WINDOW_MS of the first restart.    *)
MayRestart(x, inTime) ==
    /\ ~x.done /\ x.restarts < RestartLimit
    /\ (x.restarts = 0 \/ inTime) /\ ~x.cycle

(* Fault for Complete: any low sample will do.                             *)
CompleteAtOnce(x, r) == r = "low"

(* telit_off_complete, and what it leaves in its two static variables.     *)
Sensed(x, r)   == [x EXCEPT !.sense = IF r # "low" THEN "no"
                                      ELSE IF @ = "no" THEN "now" ELSE @]
Complete(x, r) == r = "low" /\ x.sense = "past"

----------------------------------------------------------------------------
(* The environment's part of a step.                                       *)

True == IF mod = "on" THEN "on" ELSE "low"

(* A sample is true, or false at the cost of a fault.  A false "low" is    *)
(* shorter than 500 ms, so it does not prolong one that was seen before.   *)
Sample(r) ==
    \/ r = True /\ UNCHANGED faults
    \/ r # True /\ r # "on" /\ (r = "low" => s.sense = "no")
       /\ faults < MaxFaults /\ faults' = faults + 1

(* What the module makes of a step from s to x.  It may ignore a command,  *)
(* a pulse or a start.  ON_OFF_N switches a module on that is off, also    *)
(* when the pulse was meant to switch it off.                              *)
Reacts(x) ==
    IF ~x.owner /\ ~audio THEN {<<"off", "none">>}
    ELSE {<<mod, order>>}
         \cup (IF x.cmd = "off" /\ s.cmd # "off" /\ mod = "on"
               THEN {<<"on", "leave">>} ELSE {})
         \cup (IF x.cmd = "reboot" /\ s.cmd # "reboot" /\ mod = "on"
               THEN {<<"on", "reboot">>} ELSE {})
         \cup (IF x.st = "pulse" /\ s.st # "pulse" /\ mod = "off"
               THEN {<<"starting", "none">>} ELSE {})
         \cup (IF x.pulsing /\ x.stage = "graceful" /\ s.stage # "graceful"
               THEN CASE mod = "on"  -> {<<"on", "leave">>}
                      [] mod = "off" -> {<<"starting", "none">>}
                      [] OTHER       -> {} ELSE {})
         \cup (IF x.pulsing /\ x.stage = "unconditional" /\ s.stage # "unconditional"
               THEN {<<"off", "none">>} ELSE {})

Become(x) ==
    /\ s' = x
    /\ \E m \in Reacts(x) : mod' = m[1] /\ order' = m[2]
    /\ down' = IF x.owner \/ audio THEN "up"
               ELSE IF down = "up" THEN "brief" ELSE down

(* A step of the service alone.                                            *)
Steps(x)  == Become(x) /\ UNCHANGED <<audio, wish, shown, lost, asks, sounds>>
Calm(x)   == Steps(x) /\ UNCHANGED faults
Faulty(x) == Steps(x) /\ faults < MaxFaults /\ faults' = faults + 1

(* A module that is not on does not answer; that one that is on stays      *)
(* silent is a fault.                                                      *)
Silent(x) == IF mod = "on" THEN Faulty(x) ELSE Calm(x)

----------------------------------------------------------------------------
(* modem_runtime_power_tick: the samples taken every 250 ms.               *)

DropExpected == s.cmd \in {"off", "reboot"}

WatchSupply == s.st \in Live /\ Faulty(FailSupply(s, TRUE))

WatchModule ==
    /\ s.st \in Live /\ Sample("low")
    /\ \/ s.cycle /\ DropExpected /\ ~s.drop /\ Steps(NoteDrop(s))
       \/ /\ ~DropExpected
          /\ \E inTime \in BOOLEAN :
                IF MayRestart(s, inTime)
                THEN /\ Become(StartupRestart(s))
                     /\ lost' = (lost \/ (s.deferred = "off" /\ wish = "off"))
                     /\ UNCHANGED <<audio, wish, shown, asks, sounds>>
                ELSE Steps(Fail(s, TRUE))

WatchFailed == \E r \in Reading :
    /\ s.st = "failed" /\ s.qualify /\ Sample(r)
    /\ Steps(IF Complete(s, r) THEN EnterOff(Sensed(s, r)) ELSE Sensed(s, r))

(* modem_transport_tick: the module's CTS after its DTR was asserted.      *)
WakeDone ==
    /\ s.waking /\ ~s.parked
    /\ Calm(LET x == Asleep(s) IN
            IF s.deferred = "none" THEN x
            ELSE Send([x EXCEPT !.deferred = "none"], s.deferred, TRUE))

WakeLate ==
    /\ s.waking /\ ~s.parked
    /\ LET x == [Asleep(s) EXCEPT !.deferred = "none"]
       IN Silent(IF s.deferred = "off" THEN BeginDischarge(x) ELSE Fail(x, TRUE))

(* RI asks for the wake-up of a module whose CTS is not asserted.          *)
RingWakes ==
    /\ s.st = "ready" /\ ~s.parked /\ ~s.waking
    /\ Calm([s EXCEPT !.waking = TRUE])

----------------------------------------------------------------------------
(* drain_rx: a final result; process_timeout: none came in time.           *)

Ends(cmds)   == s.cmd \in cmds
Idle(x)      == [x EXCEPT !.cmd = "none"]
Answered(x)  == mod = "on" /\ Calm(x)
BeginProvision(x) == [x EXCEPT !.st = "provision", !.phase = "query", !.rebootReq = FALSE]

(* A command that goes wrong is tried again, left out, or ends the session, *)
(* as its place in the vendor's tables has it.                             *)
Mishap(again, skip) == \E x \in {again, skip, Fail(s, TRUE)} : Silent(x)

PingDone ==
    /\ Ends({"ping"}) /\ mod = "on"
    /\ LET x == Idle(s) IN
       IF x.offPend
       THEN \E awake \in BOOLEAN : Calm(Send([x EXCEPT !.offPend = FALSE], "off", awake))
       ELSE Calm([x EXCEPT !.st = "init", !.deferred = "none"])

(* Fault for Recycled: the one recycle is not counted.                     *)
RecycledUncounted(x) == x

(* late: the boot deadline is over.  The failed start is retired through   *)
(* the shutdown, once, with a restart queued behind it.                    *)
Recycled(x) == [x EXCEPT !.recycled = TRUE]

PingFails == \E late, awake, armed \in BOOLEAN :
    /\ Ends({"ping"})
    /\ LET x == Idle(s) IN
       Silent(IF ~late THEN x
              ELSE IF x.offPend THEN Fail(x, TRUE)
              ELSE IF ~x.recycled
              THEN [BeginOff(Recycled(x), True, awake, armed) EXCEPT !.onPend = TRUE]
              ELSE Fail(x, TRUE))

InitDone  == Ends({"init"}) /\ Answered(BeginProvision(Idle(s)))
InitFails == Ends({"init"}) /\ Mishap(Idle(s), BeginProvision(Idle(s)))

(* The setting is as wanted, or it must be written; one that still differs *)
(* after the reboot is a fault.                                            *)
Written(x, mustReboot) == [x EXCEPT !.phase = "done", !.rebootReq = @ \/ mustReboot]

QueryDone ==
    /\ Ends({"query"})
    /\ LET x == Idle(s) IN
       \/ s.phase = "query"  /\ Answered([x EXCEPT !.phase = "done"])
       \/ s.phase = "query"  /\ ~s.rebooted /\ Answered([x EXCEPT !.phase = "set"])
       \/ s.phase = "verify" /\ \E must \in BOOLEAN : Answered(Written(x, must))

QueryFails ==
    /\ Ends({"query"})
    /\ \E phase \in {s.phase} \cup (IF s.phase = "verify" THEN {"set"} ELSE {}) :
          Mishap([Idle(s) EXCEPT !.phase = phase], [Idle(s) EXCEPT !.phase = "done"])

SetDone  == Ends({"set"}) /\ Answered([Idle(s) EXCEPT !.phase = "verify"])
SetFails == Ends({"set"}) /\ \/ Mishap(Idle(s), [Idle(s) EXCEPT !.phase = "done"])
                             \/ Silent([Idle(s) EXCEPT !.phase = "verify"])

RebootDone    == Ends({"reboot"}) /\ Calm(RebootWait(Idle(s)))
RebootRefused == Ends({"reboot"}) /\ mod = "on" /\ Faulty(Fail(s, TRUE))

(* With or without its final, the shutdown may be under way.               *)
OffDone == Ends({"off"}) /\ Calm(BeginDischarge(s))

WorkDone == Ends({"work"}) /\ (Answered(Idle(s)) \/ Silent(Idle(s)))

(* A shutdown that waited for the read is begun after its final.           *)
ReadDone == \E awake, armed \in BOOLEAN :
    /\ Ends(Reads \cup Drains)
    /\ LET x == Idle(s) IN
       Answered(IF x.offPend THEN BeginOff([x EXCEPT !.offPend = FALSE], True, awake, armed)
                ELSE x)

ReadLate ==
    \/ Ends({"sim"}) /\ Silent([s EXCEPT !.cmd = "simdrain"])
    \/ Ends({"sms"}) /\ Silent([s EXCEPT !.cmd = "smsdrain"])
    \/ Ends({"simdrain"}) /\ Silent(Fail([s EXCEPT !.failure = s.offPend], TRUE))
    \/ Ends({"smsdrain"}) /\ Silent(Fail(s, TRUE))

PulseEnds == s.st = "pulse" /\ Calm(EnterModuleWait(s))

----------------------------------------------------------------------------
(* advance_state.                                                          *)

Free == s.cmd = "none" /\ ~s.waking /\ s.deferred = "none"

AdvanceOff ==
    /\ Free /\ s.st = "off"
    /\ IF s.owner \/ audio THEN s.dwell # "none" /\ Calm([s EXCEPT !.dwell = "none"])
       ELSE IF DwellStale(s) THEN Calm(StartDwell(s))
       ELSE s.dwell = "over" /\ s.onPend /\ Calm(BeginOn([s EXCEPT !.onPend = FALSE]))

DischargePulseEnds ==
    Free /\ s.st = "discharge" /\ s.pulsing
    /\ Calm([s EXCEPT !.pulsing = FALSE, !.sense = "no"])

(* late: the time of this rung is over; the next one is taken.             *)
NextRung(x, armed, r) ==
    CASE x.stage = "software" -> StartFallback(x, "graceful", armed, r)
      [] x.stage = "graceful" -> StartFallback(x, "unconditional", armed, r)
      [] OTHER                -> Terminal(x, r)

AdvanceDischarge == \E r \in Reading, late \in BOOLEAN :
    /\ Free /\ s.st = "discharge" /\ ~s.pulsing /\ Sample(r)
    /\ LET x == Sensed(s, r) IN
       IF Complete(s, r) THEN ~late /\ Steps(EnterOff(x))
       ELSE IF late THEN \E armed \in BOOLEAN : Steps(NextRung(x, armed, r))
       ELSE x # s /\ Steps(x)

RailGood == \E r \in Reading :
    /\ Free /\ s.st = "railwait" /\ Sample(r)
    /\ Steps(IF r = "on" THEN EnterModuleWait(s) ELSE [s EXCEPT !.st = "pulse"])

RailLate == Free /\ s.st = "railwait" /\ Faulty(FailSupply(s, FALSE))

ModuleWaitSupply == Free /\ s.st = "modwait" /\ Faulty(FailSupply(s, TRUE))

(* idle: RX is at rest, so that the UART may be turned on.  late: the boot *)
(* deadline is over, which a module that is starting has never let happen. *)
AdvanceModuleWait == \E r \in Reading, idle, late \in BOOLEAN :
    /\ Free /\ s.st = "modwait" /\ Sample(r) /\ (late => mod # "starting")
    /\ LET off  == Complete(s, r)
           seen == Sensed(s, r)
           wait == seen.cycle /\ ~seen.drop
           x    == IF wait /\ r = "low" THEN NoteDrop(seen) ELSE seen
           y    == IF r = "on" /\ idle THEN [x EXCEPT !.parked = FALSE] ELSE x
       IN  IF wait /\ r # "low"
           THEN IF late THEN Steps(Fail(x, TRUE)) ELSE x # s /\ Steps(x)
           ELSE IF r = "on" /\ ~y.parked
           THEN Steps([y EXCEPT !.cycle = FALSE, !.st = "probe"])
           ELSE IF ~late THEN y # s /\ Steps(y)
           ELSE IF off /\ y.offPend THEN Steps(EnterOff([y EXCEPT !.offPend = FALSE]))
           ELSE IF off /\ ~y.recycled
           THEN Steps(EnterOff([Recycled(y) EXCEPT !.onPend = TRUE]))
           ELSE Steps(Fail(y, ~off))

AdvanceProvision(awake) ==
    IF s.phase = "query" \/ s.phase = "verify" THEN Calm(Send(s, "query", awake))
    ELSE IF s.phase = "set" THEN Calm(Send(s, "set", awake))
    ELSE IF ~s.rebootReq THEN Calm([s EXCEPT !.st = "ready", !.done = TRUE])
    ELSE IF s.rebooted THEN Calm(Fail(s, TRUE))
    ELSE Calm([Send(s, "reboot", awake) EXCEPT !.cycle = TRUE, !.drop = FALSE])

Advance == \E awake \in BOOLEAN :
    /\ Free
    /\ \/ s.st = "probe" /\ awake /\ Calm(Send(s, "ping", awake))
       \/ s.st = "init"  /\ Calm(Send(s, "init", awake))
       \/ s.st = "provision" /\ AdvanceProvision(awake)

Work == \E awake \in BOOLEAN, kind \in {"work"} \cup Reads :
    Free /\ s.st = "ready" /\ Calm(Send(s, kind, awake))

----------------------------------------------------------------------------
(* The module, the buzzer, and time.                                       *)

Hardware == UNCHANGED <<wish, shown, lost, asks>>

Obeys ==
    /\ mod = "on" /\ order # "none" /\ order' = "none"
    /\ mod' = IF order = "leave" THEN "off" ELSE "starting"
    /\ UNCHANGED <<s, audio, down, faults, sounds>> /\ Hardware

Boots == mod = "starting" /\ mod' = "on"
         /\ UNCHANGED <<s, audio, down, order, faults, sounds>> /\ Hardware

Drops ==
    /\ mod = "on" /\ mod' \in {"starting", "off"} /\ order' = "none"
    /\ faults < MaxFaults /\ faults' = faults + 1
    /\ UNCHANGED <<s, audio, down, sounds>> /\ Hardware

LowLasts == s.sense = "now" /\ mod # "on" /\ s' = [s EXCEPT !.sense = "past"]
            /\ UNCHANGED <<world, faults, sounds>> /\ Hardware

(* The dwell's deadline.  The rail has discharged if it was down all along. *)
DwellEnds ==
    /\ s.dwell = "running" /\ s' = [s EXCEPT !.dwell = "over"]
    /\ down' = IF down = "brief" /\ ~s.moved THEN "long" ELSE down
    /\ UNCHANGED <<audio, mod, order, faults, sounds>> /\ Hardware

SoundBegins ==
    /\ ~audio /\ audio' = TRUE /\ sounds < MaxSounds /\ sounds' = sounds + 1
    /\ s' = [s EXCEPT !.moved = @ \/ ~s.owner] /\ down' = "up"
    /\ UNCHANGED <<mod, order, faults>> /\ Hardware

SoundEnds ==
    /\ audio /\ audio' = FALSE
    /\ s' = [s EXCEPT !.moved = @ \/ ~s.owner] /\ down' = (IF s.owner THEN "up" ELSE "brief")
    /\ IF s.owner THEN UNCHANGED <<mod, order>> ELSE mod' = "off" /\ order' = "none"
    /\ UNCHANGED <<faults, sounds>> /\ Hardware

----------------------------------------------------------------------------
(* The application.                                                        *)

PoweredOff == s.st = "off" /\ ~s.onPend

AskOn == \E r \in Reading :
    /\ wish = "off" /\ wish' = "on" /\ asks < MaxAsks /\ asks' = asks + 1
    /\ Sample(r) /\ Become(PowerOn(s, r)) /\ shown' = FALSE /\ lost' = FALSE
    /\ UNCHANGED <<audio, sounds>>

AskOff == \E r \in Reading, awake, armed \in BOOLEAN :
    /\ wish' = "off" /\ asks < MaxAsks /\ asks' = asks + 1
    /\ Sample(r) /\ Become(BeginOff(s, r, awake, armed)) /\ shown' = FALSE
    /\ UNCHANGED <<audio, sounds, lost>>

(* tick_power_off: the warning goes when the module has gone after all.    *)
TickPowerOff ==
    /\ wish = "off"
    /\ IF shown /\ PoweredOff THEN shown' = FALSE /\ UNCHANGED s
       ELSE s.failure /\ shown' = TRUE /\ s' = [s EXCEPT !.failure = FALSE]
    /\ UNCHANGED <<world, wish, lost, asks, faults, sounds>>

Watch    == WatchModule \/ WatchFailed
Wake     == WakeDone \/ WakeLate
Finals   == \/ PingDone \/ PingFails \/ InitDone \/ InitFails \/ QueryDone \/ QueryFails
            \/ SetDone \/ SetFails \/ RebootDone \/ OffDone \/ WorkDone \/ ReadDone
            \/ ReadLate \/ PulseEnds
Advances == \/ AdvanceOff \/ DischargePulseEnds \/ AdvanceDischarge \/ RailGood
            \/ AdvanceModuleWait \/ Advance
Faults   == WatchSupply \/ RebootRefused \/ RailLate \/ ModuleWaitSupply \/ Drops

Next ==
    \/ Watch \/ Wake \/ Finals \/ Advances \/ Work \/ RingWakes \/ Faults
    \/ Obeys \/ Boots \/ LowLasts \/ DwellEnds \/ SoundBegins \/ SoundEnds
    \/ AskOn \/ AskOff \/ TickPowerOff

(* The service's tick and the application's run in every turn of the main  *)
(* loop.  The module may ignore what it is told and never switch off.      *)
Fairness ==
    /\ WF_vars(Watch) /\ WF_vars(Wake) /\ WF_vars(Finals) /\ WF_vars(Advances)
    /\ WF_vars(TickPowerOff)
    /\ WF_vars(Boots) /\ WF_vars(LowLasts) /\ WF_vars(DwellEnds) /\ WF_vars(SoundEnds)

Spec == Init /\ [][Next]_vars /\ Fairness

----------------------------------------------------------------------------
(* Properties.                                                             *)

(* The modem's hold on the rail is released (modem_enter_off, and failures *)
(* with nothing live) only when the module is not on, and while it starts  *)
(* only in a shutdown: neither a short dip of PWRMON nor a deadline alone  *)
(* takes the supply from a running module.                                 *)
SupplyHeld ==
    [][s.owner /\ ~s'.owner =>
          mod # "on" /\ (mod = "starting" => s.st \in {"discharge", "failed"})]_vars

(* A start, the first or a queued one, begins from a rail that has been    *)
(* down for the whole dwell, whatever the buzzer does with it meanwhile.   *)
RestartsFromCold ==
    [][s.st # "railwait" /\ s'.st = "railwait" => down = "long"]_vars

LeavingOff == s.st = "discharge" \/ s.cmd = "off" \/ s.deferred = "off"

(* The latest request holds at every moment.  After "off" the module is    *)
(* off, on its way or to be shut down, with no restart behind it; or a     *)
(* fault has ended the session, and when the whole ladder failed the user  *)
(* is told.  After "on" no shutdown is pending, and one that cannot be     *)
(* stopped has a restart behind it.  The exception is named by lost: a     *)
(* restart of the module cancels a shutdown that waits for CTS.  The       *)
(* variables have their types.                                             *)
IntentKept ==
    /\ TypeOK
    /\ wish = "off" =>
          \/ lost \/ s.offPend
          \/ ~s.onPend /\ (s.st = "off" \/ LeavingOff)
          \/ s.st = "failed" /\ (s.qualify => s.failure \/ shown)
    /\ wish = "on" =>
          ~s.offPend /\ (s.st = "off" \/ LeavingOff => s.onPend)

(* A wake-up that began, or was left, while the UART is parked: nothing    *)
(* ends it, and while it lasts no state advances.                          *)
Wedged == s.waking /\ s.parked

(* When requests and faults end, so does all work on the power: the phone  *)
(* is where its user wants it, or has failed and said so.                  *)
Converges ==
    <>[](\/ wish = "on"  /\ s.st \in {"ready", "failed"}
         \/ wish = "off" /\ PoweredOff
         \/ wish = "off" /\ s.st = "failed" /\ ~s.failure /\ (s.qualify => shown)
         \/ lost /\ s.st = "ready"
         \/ Wedged)

(* docs/modem_shutdown_recovery.md: the normal path and both fallbacks are *)
(* finite and preserve the newest power intent.  A request to switch off   *)
(* ends in OFF or in a reported failure.                                   *)
OffConcludes ==
    (wish = "off") ~> (wish = "on" \/ PoweredOff \/ s.st = "failed" \/ lost)

============================================================================
