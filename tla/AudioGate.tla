----------------------------- MODULE AudioGate ------------------------------
(***************************************************************************)
(* Sound and silence (src/src/services/core1_services.c, the control of    *)
(* src/src/audio/audio_service.c and nau88c22_codec.c).  Core 0 posts      *)
(* commands to a queue that drops its oldest entry when full; core 1 takes *)
(* them, plays, and parks its DMA when core 0 asks for silence.  The codec *)
(* chip, its clock and the shared rail belong to core 0.                   *)
(*                                                                         *)
(* What a command sounds like is left out: it starts a tone of the codec,  *)
(* one of the buzzer, the vibrator or the voice bridge, or it ends some.   *)
(* Time is not counted.  The one delay that matters is the silence before  *)
(* the gate closes, see QuietLong.                                         *)
(***************************************************************************)
EXTENDS Naturals, Sequences

CONSTANTS
    QueueLen,   \* CORE1_COMMAND_QUEUE_LEN
    MaxNaks,    \* bound on the I2C sequences that fail
    MaxAborts,  \* bound on the DMA aborts that do not finish
    MaxPosts    \* bound on the commands and power changes of the user

ASSUME AudioGateAssumption ==
    QueueLen \in Nat \ {0} /\ MaxNaks \in Nat /\ MaxAborts \in Nat /\ MaxPosts \in Nat

VARIABLES
    on,         \* the phone is switched on (its route is not POWER_OFF)
    enabled,    \* s_gate_enabled
    idled,      \* s_codec_idled
    requested,  \* s_gate_requested
    moved,      \* s_audio_resume_count differs from s_gate_resume_snapshot
    quiet,      \* "no", "yes" (s_audio_quiet_valid) or "long" (for the hold-off)
    owned,      \* s_audio_3v8_owned, and with it the owner bit of the rail
    mclk,       \* the codec's clock runs
    chip,       \* the codec driver's flags: see Chip
    dac,        \* what the codec does with samples: "live" or "muted"
    queue,      \* commands, the oldest first
    cmd,        \* the command core 1 is dispatching, or "none"
    gated,      \* s_audio_gated
    dma,        \* of the codec side: "live", "stopped" or "stuck"
    tone,       \* s_audio.kind: "none", "codec" or "buzzer"
    vibra,      \* s_vibra_pulse_active or s_vibra_pulse_loop
    bridge,     \* "no", "pending" (for the modem's clock) or "active"
    active,     \* s_audio_active, as core 0 sees it
    naks, aborts, posts,
    excused,    \* history: why nobody knows that the codec is silent
    lapse       \* history: why the gate waits in vain: see GateTick

core0 == <<on, enabled, idled, requested, moved, quiet, owned>>
codec == <<mclk, chip, dac>>
play  == <<tone, vibra, bridge, active>>
core1 == <<cmd, gated, dma, play>>
hist  == <<excused, lapse>>
vars  == <<core0, codec, queue, core1, naks, aborts, posts, hist>>

Starters == {"click", "ring", "call"}
Commands == Starters \cup {"buzz", "stop", "hangup", "gate", "ungate"}
Chip == [ready : BOOLEAN, pending : BOOLEAN, idle : BOOLEAN, synced : BOOLEAN]

TypeOK ==
    /\ on \in BOOLEAN /\ enabled \in BOOLEAN /\ idled \in BOOLEAN
    /\ requested \in BOOLEAN /\ moved \in BOOLEAN /\ quiet \in {"no", "yes", "long"}
    /\ owned \in BOOLEAN /\ mclk \in BOOLEAN /\ chip \in Chip /\ dac \in {"live", "muted"}
    /\ queue \in Seq(Commands) /\ Len(queue) <= QueueLen
    /\ cmd \in Commands \cup {"none"}
    /\ gated \in BOOLEAN /\ dma \in {"live", "stopped", "stuck"}
    /\ tone \in {"none", "codec", "buzzer"} /\ vibra \in BOOLEAN
    /\ bridge \in {"no", "pending", "active"} /\ active \in BOOLEAN
    /\ naks \in 0 .. MaxNaks /\ aborts \in 0 .. MaxAborts /\ posts \in 0 .. MaxPosts
    /\ excused \subseteq {"abort", "route", "standby", "awake"}
    /\ lapse \subseteq {"refused", "dropped", "unidle"}

(* main has initialised the codec, app_runtime_init has put it to standby.  *)
Init ==
    /\ on = FALSE /\ enabled = TRUE /\ idled = FALSE /\ requested = FALSE
    /\ moved = FALSE /\ quiet = "no" /\ owned = FALSE
    /\ mclk = TRUE /\ dac = "muted"
    /\ chip = [ready |-> FALSE, pending |-> FALSE, idle |-> FALSE, synced |-> TRUE]
    /\ queue = <<>> /\ cmd = "none" /\ gated = FALSE /\ dma = "live"
    /\ tone = "none" /\ vibra = FALSE /\ bridge = "no" /\ active = FALSE
    /\ naks = 0 /\ aborts = 0 /\ posts = 0 /\ excused = {"standby"} /\ lapse = {}

-----------------------------------------------------------------------------
(* The codec driver.  A sequence of I2C writes ends "ok", with a "nak"     *)
(* among them, or "dead" when the failures in a row reached their limit.   *)
(* An operation is a set of outcomes [chip, dac, ok, naks].                *)

Sequences(n) == {"ok"} \cup IF n < MaxNaks THEN {"nak", "dead"} ELSE {}

Noted(c, result) == IF result = "dead" THEN [c EXCEPT !.ready = FALSE, !.pending = TRUE] ELSE c

(* A sequence that leaves the codec as "level" when every write arrives,   *)
(* and as it was or muted otherwise.                                       *)
Written(c, n, level, was) ==
    UNION { IF r = "ok" THEN {[chip |-> c, dac |-> level, ok |-> TRUE, naks |-> n]}
            ELSE { [chip |-> Noted(c, r), dac |-> d, ok |-> FALSE, naks |-> n + 1] :
                   d \in {was, "muted"} } : r \in Sequences(n) }

(* nau88c22_codec_set_playback_idle.                                       *)
PlaybackIdle(c, d, n, idle) ==
    IF c.idle = idle /\ c.synced
    THEN {[chip |-> c, dac |-> d, ok |-> TRUE, naks |-> n]}
    ELSE IF ~ c.ready
    THEN {[chip |-> [c EXCEPT !.idle = idle, !.synced = FALSE], dac |-> d, ok |-> FALSE, naks |-> n]}
    ELSE { [o EXCEPT !.chip.synced = o.ok] :
           o \in Written([c EXCEPT !.idle = idle], n, IF idle THEN "muted" ELSE "live", d) }

(* nau88c22_codec_init: nothing to do for a chip that is ready.            *)
ChipInit(c, d, n) ==
    IF c.ready THEN {[chip |-> c, dac |-> d, ok |-> TRUE, naks |-> n]}
    ELSE { IF o.ok THEN [o EXCEPT !.chip.ready = TRUE, !.chip.pending = FALSE, !.chip.synced = TRUE]
                   ELSE o :
           o \in Written([c EXCEPT !.pending = TRUE, !.idle = FALSE], n, "live", d) }

(* The microphone's supplies and the route: muted at first, and muted it   *)
(* stays while playback is idle.                                           *)
Routed(c, d, n) ==
    IF ~ c.ready THEN {[chip |-> c, dac |-> d, ok |-> FALSE, naks |-> n]}
    ELSE LET level == IF c.idle THEN "muted" ELSE "live" IN Written(c, n, level, level)

(* What core 0 does after an init: the route must be the accessory's.      *)
Reconciled(o) ==
    { [p EXCEPT !.chip.pending = @ \/ ~ p.ok, !.ok = o.ok] :
      p \in Routed(o.chip, o.dac, o.naks) }

BringUp(c, d, n) ==
    UNION { IF o.ok THEN Reconciled(o) ELSE {o} : o \in ChipInit(c, d, n) }

(* Effects of an outcome.  A codec that can be heard excuses nothing more. *)
Apply(o, reasons) ==
    /\ chip' = o.chip /\ dac' = o.dac /\ naks' = o.naks
    /\ excused' = reasons \ (IF o.dac = "live" THEN {"route", "standby", "awake"} ELSE {})

-----------------------------------------------------------------------------
(* Core 0: posting.                                                        *)

(* push_command_locked.                                                    *)
Pushed(q, c) == Append(IF Len(q) >= QueueLen THEN Tail(q) ELSE q, c)

Dropped == IF Len(queue) >= QueueLen /\ queue[1] = "gate" THEN {"dropped"} ELSE {}

(* audio_gate_unidle: the clock first, then the codec; the flag goes only  *)
(* when the codec is back.                                                 *)
(* Fault for StillIdled: the flag goes whatever the codec says.           *)
StillIdledNever(o) == FALSE

(* Fault for StillIdled: the flag stays although the codec is back.       *)
StillIdledAlways(o) == TRUE

StillIdled(o) == ~ o.ok

Unidled ==
    /\ IF idled
       THEN \E o \in PlaybackIdle(chip, dac, naks, FALSE) :
              /\ mclk' = TRUE /\ Apply(o, excused) /\ idled' = StillIdled(o)
              /\ lapse' = IF o.ok THEN {} ELSE {"unidle"}
       ELSE lapse' = {} /\ UNCHANGED <<idled, codec, naks, excused>>
    /\ requested' = FALSE /\ quiet' = "no"

(* core1_post_command and post_composer_packed.  The prologue of a sound   *)
(* brings the rail and the codec up before the command can be taken.       *)
Post(c) ==
    /\ on /\ posts < MaxPosts /\ posts' = posts + 1
    /\ queue' = Pushed(queue, c)
    /\ IF c \in Starters THEN Unidled
       ELSE /\ lapse' = lapse \cup Dropped
            /\ UNCHANGED <<idled, requested, quiet, codec, naks, excused>>
    /\ owned' = (owned \/ c = "ring")
    /\ UNCHANGED <<on, enabled, moved, core1, aborts>>

(* modem_bridge_follow_call_state: a call becomes active, or stops being   *)
(* so.  What the route's writes return is not looked at.                   *)
CallFollow(c) ==
    /\ on /\ posts < MaxPosts /\ posts' = posts + 1
    /\ \E o \in Routed(chip, dac, naks) :
         LET after == IF c = "call" /\ idled THEN PlaybackIdle(o.chip, o.dac, o.naks, FALSE) ELSE {o}
             reasons == excused \cup IF o.ok \/ ~ chip.ready THEN {} ELSE {"route"}
         IN  \E p \in after :
               /\ Apply(p, reasons)
               /\ IF c = "call"
                  THEN /\ idled' = (idled /\ StillIdled(p)) /\ mclk' = (mclk \/ idled)
                       /\ requested' = FALSE /\ quiet' = "no"
                       /\ lapse' = IF idled /\ ~ p.ok THEN {"unidle"} ELSE {}
                  ELSE /\ lapse' = lapse \cup Dropped
                       /\ UNCHANGED <<idled, mclk, requested, quiet>>
    /\ queue' = Pushed(queue, c)
    /\ UNCHANGED <<on, enabled, moved, owned, core1, aborts>>

(* core1_services_audio_gate_set_enabled, from the console.                *)
SetEnabled(b) ==
    /\ on /\ posts < MaxPosts /\ posts' = posts + 1
    /\ enabled' = b
    /\ IF enabled /\ ~ b
       THEN Unidled /\ queue' = Pushed(queue, "ungate")
       ELSE /\ requested' = FALSE /\ quiet' = "no"
            /\ UNCHANGED <<idled, codec, naks, hist, queue>>
    /\ UNCHANGED <<on, moved, owned, core1, aborts>>

-----------------------------------------------------------------------------
(* Core 0: the phone's power, and the codec's repair.                      *)

(* core1_services_codec_init: with a chip that came up the gate's          *)
(* bookkeeping starts again.                                               *)
GateForgets == idled' = FALSE /\ requested' = FALSE /\ quiet' = "no"

CodecUp(o) ==
    /\ mclk' = o.ok
    /\ Apply(o, excused \cup IF chip.ready /\ chip.idle THEN {"awake"} ELSE {})
    /\ IF o.ok THEN GateForgets ELSE UNCHANGED <<idled, requested, quiet>>

(* power_on, or an alarm that switches the phone on.                       *)
SwitchOn ==
    /\ ~ on /\ posts < MaxPosts /\ posts' = posts + 1
    /\ on' = TRUE
    /\ \E o \in BringUp(chip, dac, naks) : CodecUp(o)
    /\ UNCHANGED <<enabled, moved, owned, queue, core1, aborts, lapse>>

(* nau88c22_codec_power_standby: muted first, whatever becomes of it.      *)
Standby ==
    IF chip.ready
    THEN \E o \in Written(chip, naks, "muted", dac) :
           Apply([o EXCEPT !.chip.ready = FALSE], excused \cup {"standby"})
    ELSE UNCHANGED <<chip, dac, naks, excused>>

(* power_off.                                                              *)
SwitchOff ==
    /\ on /\ on' = FALSE
    /\ queue' = Pushed(Pushed(queue, "stop"), "hangup")
    /\ Standby
    /\ UNCHANGED <<enabled, idled, requested, moved, quiet, owned, mclk, core1, aborts, posts, lapse>>

(* battery_play_charger_insert_tone of a phone that is off: the codec is   *)
(* brought up first, and nothing is heard when that fails.                 *)
Chirp ==
    /\ ~ on /\ posts < MaxPosts /\ posts' = posts + 1
    /\ \E o \in BringUp(chip, dac, naks) :
         CodecUp(o) /\ queue' = IF o.ok THEN Pushed(queue, "click") ELSE queue
    /\ lapse' = lapse \cup Dropped
    /\ UNCHANGED <<on, enabled, moved, owned, core1, aborts>>

(* Charging ends while the phone is off.                                   *)
ChargeEnd ==
    /\ ~ on /\ Standby
    /\ UNCHANGED <<core0, mclk, queue, core1, aborts, posts, lapse>>

(* core1_services_codec_recover_tick.                                      *)
Recover ==
    /\ on /\ chip.pending
    /\ \E o \in ChipInit(chip, dac, naks) :
         IF o.ok
         THEN \E p \in Routed(o.chip, o.dac, o.naks) :
                /\ Apply([p EXCEPT !.chip.pending = ~ p.ok],
                         excused \cup IF chip.ready /\ chip.idle THEN {"awake"} ELSE {})
                /\ mclk' = TRUE /\ GateForgets
         ELSE /\ Apply(o, excused)
              /\ mclk' = (bridge = "active" \/ active)
              /\ UNCHANGED <<idled, requested, quiet>>
    /\ UNCHANGED <<on, enabled, moved, owned, queue, core1, aborts, posts, lapse>>

-----------------------------------------------------------------------------
(* Core 0: core1_services_audio_gate_tick.                                 *)

(* audio_3v8_release_tick, at any time after its hold-off: no command is   *)
(* queued or under way, and nothing sounds.                                *)
(* Fault for MayRelease: a command that core 1 has taken is overlooked.   *)
MayReleaseIfEmpty == queue = <<>> /\ ~ active

MayRelease == queue = <<>> /\ cmd = "none" /\ ~ active

RailTick == owned' \in {owned} \cup IF MayRelease THEN {FALSE} ELSE {}

GateRests == ~ enabled \/ idled

(* Something sounds: the silence starts again.                             *)
GateSounds ==
    /\ ~ GateRests /\ (active \/ bridge = "active")
    /\ quiet' = "no" /\ requested' = FALSE
    /\ UNCHANGED <<idled, moved, codec, queue, naks, hist>>

GateListens ==
    /\ ~ GateRests /\ ~ active /\ bridge # "active" /\ quiet = "no"
    /\ quiet' = "yes"
    /\ UNCHANGED <<idled, requested, moved, codec, queue, naks, hist>>

GateRequests ==
    /\ ~ GateRests /\ ~ active /\ bridge # "active" /\ quiet = "long" /\ ~ requested
    /\ requested' = TRUE /\ moved' = FALSE /\ queue' = Pushed(queue, "gate")
    /\ lapse' = {}
    /\ UNCHANGED <<idled, quiet, codec, naks, excused>>

(* Core 1 resumed since the request: a sound raced in.                     *)
GateRaced ==
    /\ ~ GateRests /\ ~ active /\ bridge # "active" /\ quiet # "no" /\ requested /\ moved
    /\ requested' = FALSE /\ quiet' = "no"
    /\ UNCHANGED <<idled, moved, codec, queue, naks, hist>>

(* Core 1 has parked: the codec goes down, marked so whatever it says.     *)
GateCloses ==
    /\ ~ GateRests /\ ~ active /\ bridge # "active" /\ quiet # "no"
    /\ requested /\ gated /\ ~ moved
    /\ \E o \in PlaybackIdle(chip, dac, naks, TRUE) : Apply(o, excused \ {"awake"})
    /\ mclk' = FALSE /\ idled' = TRUE /\ requested' = FALSE /\ lapse' = {}
    /\ UNCHANGED <<moved, quiet, queue>>

(* Nothing for the gate to do but, perhaps, give the rail back.            *)
GateWaits ==
    /\ \/ GateRests
       \/ ~ active /\ bridge # "active" /\ quiet # "no" /\
          \/ ~ requested /\ quiet = "yes"
          \/ requested /\ ~ moved /\ ~ gated
    /\ UNCHANGED <<idled, requested, moved, quiet, codec, queue, naks, hist>>

GateTick ==
    /\ RailTick
    /\ GateSounds \/ GateListens \/ GateRequests \/ GateRaced \/ GateCloses \/ GateWaits
    /\ UNCHANGED <<on, enabled, core1, aborts, posts>>

(* The hold-off passes.  Core 1 empties its queue many times in it, and a  *)
(* repair that is tried every second and fails keeps it from passing.      *)
QuietLong ==
    /\ quiet = "yes" /\ quiet' = "long"
    /\ queue = <<>> /\ cmd = "none" /\ ~ (on /\ chip.pending /\ chip.ready)
    /\ UNCHANGED <<on, enabled, idled, requested, moved, owned, codec, queue, core1,
                   naks, aborts, posts, hist>>

-----------------------------------------------------------------------------
(* Core 1.                                                                 *)

Sounds(t, v, b) == t # "none" \/ v \/ b # "no"

Pop ==
    /\ cmd = "none" /\ queue # <<>>
    /\ cmd' = Head(queue) /\ queue' = Tail(queue)
    /\ UNCHANGED <<core0, codec, gated, dma, play, naks, aborts, posts, hist>>

(* Parked plumbing is resumed before anything that sounds.                 *)
(* Fault for Resumes: the bridge is thought to bring its own.             *)
ResumesForTones == gated /\ cmd \in {"click", "ring", "ungate"}

Resumes == gated /\ cmd \in Starters \cup {"ungate"}

(* audio_service_command and the bridge's start and stop.  A tone may turn *)
(* out silent, a bridge may find no transport.                             *)
PlayTone(t) ==
    /\ tone' \in {t, "none"} /\ UNCHANGED <<vibra, bridge>>

Play ==
    \/ cmd = "click" /\ PlayTone("codec")
    \/ cmd = "ring" /\ PlayTone("buzzer")
    \/ cmd = "buzz" /\ vibra' = TRUE /\ UNCHANGED <<tone, bridge>>
    \/ cmd = "stop" /\ tone' = "none" /\ vibra' = FALSE /\ UNCHANGED bridge
    \/ cmd = "call" /\ bridge' \in {"pending", "no"} /\ UNCHANGED <<tone, vibra>>
    \/ cmd = "hangup" /\ bridge' = "no" /\ UNCHANGED <<tone, vibra>>

(* What is played is published before the dispatch is over.                *)
DispatchSound ==
    /\ cmd \notin {"none", "gate", "ungate"} /\ cmd' = "none"
    /\ gated' = (gated /\ ~ Resumes)
    /\ dma' = IF Resumes THEN "live" ELSE dma
    /\ moved' = (moved \/ Resumes)
    /\ Play /\ active' = Sounds(tone', vibra', bridge')
    /\ UNCHANGED <<on, enabled, idled, requested, quiet, owned, codec, queue,
                   naks, aborts, posts, hist>>

DispatchUngate ==
    /\ cmd = "ungate" /\ cmd' = "none"
    /\ gated' = FALSE
    /\ dma' = IF Resumes THEN "live" ELSE dma
    /\ moved' = (moved \/ Resumes)
    /\ UNCHANGED <<on, enabled, idled, requested, quiet, owned, codec, queue, play,
                   naks, aborts, posts, hist>>

(* audio_i2s_hal_flash_quiesce, whose abort may not finish in its bound.   *)
Quiesced ==
    \/ dma' = "stopped" /\ excused' = excused \ {"abort"} /\ UNCHANGED aborts
    \/ /\ aborts < MaxAborts /\ aborts' = aborts + 1
       /\ dma' = "stuck" /\ excused' = excused \cup {"abort"}

DispatchGate ==
    /\ cmd = "gate" /\ cmd' = "none"
    /\ IF ~ gated /\ ~ active /\ bridge # "active"
       THEN Quiesced /\ gated' = (dma' = "stopped")
       ELSE UNCHANGED <<dma, gated, aborts, excused>>
    /\ lapse' = lapse \cup IF gated' THEN {} ELSE {"refused"}
    /\ UNCHANGED <<core0, codec, queue, play, naks, posts>>

(* A tone ends in the interrupt of its DMA; core 0 hears of it at the tick.*)
ToneEnd ==
    /\ tone # "none" /\ dma = "live" /\ tone' = "none"
    /\ UNCHANGED <<core0, codec, queue, cmd, gated, dma, vibra, bridge, active,
                   naks, aborts, posts, hist>>

(* audio_service_tick: the vibrator stops, the modem's clock comes or is   *)
(* lost, and the flag is published.                                        *)
ServiceTick ==
    /\ cmd = "none" /\ queue = <<>>
    /\ vibra' \in {vibra, FALSE}
    /\ bridge' \in {bridge} \cup
                   CASE bridge = "pending" -> {"active"}
                     [] bridge = "active"  -> {"no"}
                     [] OTHER              -> {}
    /\ active' = Sounds(tone, vibra', bridge')
    /\ UNCHANGED <<core0, codec, queue, cmd, gated, dma, tone, naks, aborts, posts, hist>>

(* core1_flash_park, as far as the codec side goes: stopped and started    *)
(* again around a flash operation, also when it was stuck.                 *)
Park ==
    /\ cmd = "none" /\ ~ gated /\ dma = "stuck"
    /\ dma' = "live" /\ excused' = excused \ {"abort"}
    /\ UNCHANGED <<core0, codec, queue, cmd, gated, play, naks, aborts, posts, lapse>>

-----------------------------------------------------------------------------
User ==
    \/ \E c \in {"click", "ring", "buzz", "stop"} : Post(c)
    \/ \E c \in {"call", "hangup"} : CallFollow(c)
    \/ \E b \in BOOLEAN : SetEnabled(b)
    \/ SwitchOn \/ SwitchOff \/ Chirp \/ ChargeEnd

CoreOne == Pop \/ DispatchSound \/ DispatchUngate \/ DispatchGate \/ ServiceTick

Next == User \/ Recover \/ GateTick \/ QuietLong \/ CoreOne \/ ToneEnd \/ Park

Spec == Init /\ [][Next]_vars

(* The rail is given back some time after its hold-off.                    *)
RailTicks == GateTick /\ ~ owned'

FairSpec ==
    /\ Spec
    /\ WF_vars(GateTick) /\ WF_vars(RailTicks) /\ WF_vars(QuietLong)
    /\ WF_vars(Recover) /\ WF_vars(CoreOne)

-----------------------------------------------------------------------------
(* Properties.                                                             *)

(* core1_services_standby_ready.                                           *)
StandbyReady ==
    /\ queue = <<>> /\ cmd = "none" /\ ~ requested /\ gated /\ idled
    /\ ~ owned /\ ~ active /\ bridge = "no" /\ ~ chip.pending

ThroughCodec == tone = "codec" \/ bridge = "active"

Heard == mclk /\ dac = "live" /\ dma = "live"

(* A sound goes through a codec that plays it, or the phone knows that the *)
(* codec is not up and will try again: at the next sound (idled), or every *)
(* second (chip.pending).  The exceptions are an abort of the DMA that did *)
(* not finish, a route whose writes failed, the codec of a phone that is   *)
(* off, and power-on over a chip that is ready, whose DACs stay muted      *)
(* though the flag that they are idled is cleared.  The variables have     *)
(* their types.                                                            *)
Audible ==
    /\ TypeOK
    /\ ThroughCodec => Heard \/ idled \/ chip.pending \/ excused # {}

(* The rail is not taken away under the buzzer, whether core 1 has begun   *)
(* to play or has only taken the command (audio_3v8_release_tick).         *)
RailHeld == tone = "buzzer" \/ cmd = "ring" => owned

(* Why the gate may wait for ever, until the next sound: core 1 refused    *)
(* the request, or the queue dropped it; the codec did not come up for a   *)
(* sound, after which the flag that it is down keeps the gate at rest.     *)
Stuck == (requested /\ lapse # {}) \/ (idled /\ "unidle" \in lapse)

(* A silent phone becomes ready to sleep, unless the gate is stuck.        *)
Settles == []<>(~ on \/ ~ enabled \/ active \/ StandbyReady \/ Stuck)
=============================================================================
