---------------------------- MODULE FlashAccess ----------------------------
(***************************************************************************)
(* How core 0 takes the flash from core 1 (src/src/storage/nvm_flash_hal.c *)
(* and the park handshake of src/src/services/core1_services.c), under the *)
(* runtime watchdog.  Both cores execute from the flash, so core 1 must be *)
(* held in RAM, its interrupts off and its DMA stopped, while core 0       *)
(* programs or erases.  The same handshake holds core 1 for standby sleep. *)
(*                                                                         *)
(* The two flags s_flash_pause_req and s_flash_parked are read and written *)
(* one access a step.  Time is not counted: a deadline of core 0 may pass  *)
(* only when core 1 is held up, has refused, or sleeps without a wake-up.  *)
(***************************************************************************)
EXTENDS RuntimeWatchdog

CONSTANTS
    StreakLimit,        \* NVM_FLASH_PARK_FAIL_REBOOT
    MaxUnits,           \* bound on the pages or sectors of one call
    MaxStalls,          \* bound on the times core 1 is held up
    MaxFaults,          \* bound on the DMA aborts that do not finish
    NotedPhases         \* the phases the main loop publishes

ASSUME FlashAccessAssumption ==
    /\ StreakLimit \in Nat \ {0} /\ MaxUnits \in Nat \ {0}
    /\ MaxStalls \in Nat /\ MaxFaults \in Nat
    /\ NotedPhases \subseteq Phases \ {"none", "flash"}

VARIABLES
    c0,         \* where core 0 is: see Core0Points
    why,        \* what the pause is for: "flash" or "sleep"
    left,       \* units the present flash call has still to do
    dirty,      \* the store has something to commit
    streak,     \* s_park_fail_streak
    req,        \* s_flash_pause_req
    parked,     \* s_flash_parked
    event,      \* core 1's event register, set by __sev, taken by __wfe
    c1,         \* where core 1 is: see Core1Points
    gated,      \* s_audio_gated: the codec side is parked for silence
    running,    \* modem_i2s_hal's s_running
    codec,      \* DMA of the codec side: "live", "stopped" or "stuck"
    modem,      \* DMA of the modem side
    wd,         \* the watchdog
    evidence,   \* s_boot_evidence
    stalled,    \* core 1 is held up for longer than core 0 waits
    refused,    \* core 1 found its DMA busy since the request was made
    stalls, faults,
    raced,      \* history: the park was published between drain and request
    lastReset   \* history: what the last reset was

core0 == <<c0, why, left, dirty, streak>>
audio == <<gated, running, codec, modem>>
dog   == <<wd, evidence, lastReset>>
env   == <<stalled, refused, stalls, faults>>
vars  == <<core0, req, parked, event, c1, audio, dog, env, raced>>

Core0Points == {"run", "drain", "arm", "wait", "check", "withdraw", "held", "op",
                "dormant", "release", "unpark"}
Core1Points == {"off", "init", "loop", "park", "ack", "spin", "resume", "serve", "idle"}
Dma == {"live", "stopped", "stuck"}

TypeOK ==
    /\ c0 \in Core0Points /\ why \in {"flash", "sleep"}
    /\ left \in 0 .. MaxUnits /\ dirty \in BOOLEAN
    /\ streak \in 0 .. StreakLimit - 1
    /\ req \in BOOLEAN /\ parked \in BOOLEAN /\ event \in BOOLEAN
    /\ c1 \in Core1Points
    /\ gated \in BOOLEAN /\ running \in BOOLEAN /\ codec \in Dma /\ modem \in Dma
    /\ wd \in Watchdog /\ evidence \in Evidence
    /\ stalled \in BOOLEAN /\ refused \in BOOLEAN
    /\ stalls \in 0 .. MaxStalls /\ faults \in 0 .. MaxFaults
    /\ raced \in BOOLEAN /\ lastReset \in [timeout : BOOLEAN, flash : BOOLEAN]

Init ==
    /\ c0 = "run" /\ why = "flash" /\ left = 0 /\ dirty = FALSE /\ streak = 0
    /\ req = FALSE /\ parked = FALSE /\ event = FALSE
    /\ c1 = "off" /\ gated = FALSE /\ running = FALSE
    /\ codec = "stopped" /\ modem = "stopped"
    /\ wd = [started |-> FALSE, depth |-> 0, lease |-> "off", phase |-> "none"]
    /\ evidence = [timeout |-> FALSE, phase |-> "none"]
    /\ stalled = FALSE /\ refused = FALSE /\ stalls = 0 /\ faults = 0
    /\ raced = FALSE /\ lastReset = [timeout |-> FALSE, flash |-> FALSE]

-----------------------------------------------------------------------------
(* Resets.  Everything but the stamped phase starts again.                 *)

InFlash == why = "flash" /\ c0 \in {"op", "release", "unpark"}

Reset(timeout) ==
    /\ c0' = "run" /\ why' = "flash" /\ left' = 0 /\ dirty' = FALSE /\ streak' = 0
    /\ req' = FALSE /\ parked' = FALSE /\ event' = FALSE
    /\ c1' = "off" /\ gated' = FALSE /\ running' = FALSE
    /\ codec' = "stopped" /\ modem' = "stopped"
    /\ wd' = Captured(wd) /\ evidence' = CapturedEvidence(wd, timeout)
    /\ stalled' = FALSE /\ refused' = FALSE /\ UNCHANGED <<stalls, faults>>
    /\ raced' = FALSE /\ lastReset' = [timeout |-> timeout, flash |-> InFlash]

(* The lease runs out: core 0 hangs, wherever it is.                       *)
Bite == wd.lease # "off" /\ Reset(TRUE)

-----------------------------------------------------------------------------
(* Core 0: the main loop between two pauses.                               *)

(* core1_services_start and runtime_watchdog_start, in the order of main.  *)
CoreOneStart ==
    /\ c0 = "run" /\ c1 = "off"
    /\ c1' = "init"
    /\ UNCHANGED <<core0, req, parked, event, audio, dog, env, raced>>

WatchdogStart ==
    /\ c0 = "run" /\ c1 # "off" /\ ~ wd.started
    /\ wd' = Started(wd)
    /\ UNCHANGED <<core0, req, parked, event, c1, audio, evidence, lastReset, env, raced>>

NotePhase(phase) ==
    /\ c0 = "run" /\ wd.started
    /\ wd' = Noted(wd, phase)
    /\ UNCHANGED <<core0, req, parked, event, c1, audio, evidence, lastReset, env, raced>>

(* A command is queued for core 1, which is woken.                         *)
Post ==
    /\ c0 = "run" /\ c1 # "off" /\ event' = TRUE
    /\ UNCHANGED <<core0, req, parked, c1, audio, dog, env, raced>>

Change ==
    /\ c0 = "run" /\ ~ dirty /\ dirty' = TRUE
    /\ UNCHANGED <<c0, why, left, streak, req, parked, event, c1, audio, dog, env, raced>>

-----------------------------------------------------------------------------
(* Core 0: core1_flash_pause_begin.                                        *)

(* Before core 1 is launched there is nothing to hold.                     *)
PauseBegin == c0' = IF c1 = "off" THEN "held" ELSE "drain"

StoreTick ==
    /\ c0 = "run" /\ dirty
    /\ \E n \in 1 .. MaxUnits : left' = n
    /\ why' = "flash" /\ PauseBegin
    /\ UNCHANGED <<dirty, streak, req, parked, event, c1, audio, dog, env, raced>>

(* core1_services_standby_ready, with the storage and the modem at rest.   *)
StandbyReady == c1 # "off" /\ ~ req /\ ~ parked /\ gated /\ ~ running /\ ~ dirty

SleepTick ==
    /\ c0 = "run" /\ wd.started /\ StandbyReady
    /\ why' = "sleep" /\ PauseBegin
    /\ UNCHANGED <<left, dirty, streak, req, parked, event, c1, audio, dog, env, raced>>

(* begin returns false: a flash call gives up with BUSY, and the phone     *)
(* restarts when that happened too often in a row; sleep tries later.      *)
Streak == streak + 1
(* Fault for GivesUp: one refusal too many.                               *)
GivesUpLate == Streak > StreakLimit
GivesUp == Streak >= StreakLimit

Refuse(reqAfter) ==
    IF why = "flash" /\ GivesUp
    THEN Reset(FALSE)
    ELSE /\ c0' = "run" /\ left' = 0 /\ req' = reqAfter
         /\ streak' = IF why = "flash" THEN Streak ELSE streak
         /\ UNCHANGED <<why, dirty, parked, event, c1, audio, dog, env, raced>>

(* The loop that drains a park left over from an earlier request.          *)
(* Fault for NoResidue: no drain.                                         *)
NoResidueAssumed == TRUE
NoResidue == ~ parked

Drained ==
    /\ c0 = "drain" /\ NoResidue
    /\ c0' = "arm" /\ raced' = FALSE
    /\ UNCHANGED <<why, left, dirty, streak, req, parked, event, c1, audio, dog, env>>

(* Core 1 is parked and will not move in time.                             *)
Wedged == parked /\ (stalled \/ (c1 = "spin" /\ req))

DrainTimeout == c0 = "drain" /\ Wedged /\ Refuse(req)

Arm ==
    /\ c0 = "arm"
    /\ req' = TRUE /\ event' = TRUE /\ refused' = FALSE
    /\ c0' = "wait"
    /\ UNCHANGED <<why, left, dirty, streak, parked, c1, audio, dog, stalled, stalls,
                   faults, raced>>

Acked ==
    /\ c0 = "wait" /\ parked
    /\ c0' = "held"
    /\ UNCHANGED <<why, left, dirty, streak, req, parked, event, c1, audio, dog, env, raced>>

Asleep == c1 = "idle" /\ ~ event /\ codec # "live"
Deadline == stalled \/ refused \/ Asleep

WaitTimeout ==
    /\ c0 = "wait" /\ ~ parked /\ Deadline
    /\ c0' = "check"
    /\ UNCHANGED <<why, left, dirty, streak, req, parked, event, c1, audio, dog, env, raced>>

(* The flag is read once more after the loop, and the request taken back.  *)
Check ==
    /\ c0 = "check"
    /\ c0' = IF parked THEN "held" ELSE "withdraw"
    /\ UNCHANGED <<why, left, dirty, streak, req, parked, event, c1, audio, dog, env, raced>>

(* Fault for Withdraw: request left standing.                             *)
WithdrawLeft == c0 = "withdraw" /\ Refuse(req)
Withdraw == c0 = "withdraw" /\ Refuse(FALSE)

-----------------------------------------------------------------------------
(* Core 0: core 1 is held.  One page or sector, or one sleep.              *)

FlashBegin ==
    /\ c0 = "held" /\ why = "flash"
    /\ wd' = FlashBegun(wd) /\ streak' = 0
    /\ c0' = "op"
    /\ UNCHANGED <<why, left, dirty, req, parked, event, c1, audio, evidence, lastReset,
                   env, raced>>

FlashOp ==
    /\ c0 = "op"
    /\ wd' = Checkpointed(wd) /\ left' = left - 1
    /\ c0' = "release"
    /\ UNCHANGED <<why, dirty, streak, req, parked, event, c1, audio, evidence, lastReset,
                   env, raced>>

(* standby_sleep_try_enter looks at its blockers again, then sleeps.       *)
SleepRecheck ==
    /\ c0 = "held" /\ why = "sleep"
    /\ c0' \in {"dormant", "release"}
    /\ UNCHANGED <<why, left, dirty, streak, req, parked, event, c1, audio, dog, env, raced>>

SleepEnd ==
    /\ c0 = "dormant" /\ c0' = "release"
    /\ UNCHANGED <<why, left, dirty, streak, req, parked, event, c1, audio, dog, env, raced>>

Release ==
    /\ c0 = "release"
    /\ req' = FALSE /\ event' = TRUE
    /\ c0' = "unpark"
    /\ UNCHANGED <<why, left, dirty, streak, parked, c1, audio, dog, env, raced>>

(* A flash call goes on with its next unit, or the store is clean.         *)
Unparked ==
    /\ c0 = "unpark" /\ ~ parked
    /\ wd' = IF why = "flash" THEN FlashEnded(wd) ELSE wd
    /\ IF why = "flash" /\ left > 0
       THEN PauseBegin /\ UNCHANGED dirty
       ELSE c0' = "run" /\ dirty' = (dirty /\ why = "sleep")
    /\ UNCHANGED <<why, left, streak, req, parked, event, c1, audio, evidence, lastReset,
                   env, raced>>

UnparkTimeout == c0 = "unpark" /\ Wedged /\ Reset(FALSE)

-----------------------------------------------------------------------------
(* Core 1: the DMA of its two sides.                                       *)

(* Quiesce: the abort ends, or is found still busy.                        *)
Quiesced == {"stopped"} \union {s \in {"stuck"} : faults < MaxFaults}
(* Resume does nothing unless the last quiesce was complete.               *)
Resumed(side) == IF side = "stuck" THEN "stuck" ELSE "live"
FaultsAfter(c, m) == faults + IF "stuck" \in {c, m} /\ faults < MaxFaults THEN 1 ELSE 0

(* Core 1: core1_flash_park.  gated and running change on core 1 alone, so *)
(* the copies it takes at its start are these.                             *)
ParkQuiesce ==
    /\ c1 = "park"
    /\ \E c \in IF gated THEN {codec} ELSE Quiesced,
          m \in IF running THEN Quiesced ELSE {modem} :
          /\ IF "stuck" \in {c, m}
             THEN /\ codec' = IF ~ gated /\ c = "stopped" THEN Resumed(c) ELSE c
                  /\ modem' = IF running /\ m = "stopped" THEN Resumed(m) ELSE m
                  /\ refused' = TRUE /\ c1' = "serve"
             ELSE /\ codec' = c /\ modem' = m
                  /\ refused' = refused /\ c1' = "ack"
          /\ faults' = FaultsAfter(c, m)
    /\ UNCHANGED <<core0, req, parked, event, gated, running, dog, stalled, stalls, raced>>

Ack ==
    /\ c1 = "ack"
    /\ parked' = TRUE /\ c1' = "spin"
    /\ raced' = (raced \/ c0 = "arm")
    /\ UNCHANGED <<core0, req, event, audio, dog, env>>

LeaveSpin ==
    /\ c1 = "spin" /\ ~ req
    /\ c1' = "resume"
    /\ UNCHANGED <<core0, req, parked, event, audio, dog, env, raced>>

(* Fault for CodecAfter: resumed even when gated.                         *)
CodecAfterAlways == Resumed(codec)
CodecAfter == IF gated THEN codec ELSE Resumed(codec)

Unpark ==
    /\ c1 = "resume"
    /\ codec' = CodecAfter
    /\ modem' = IF running THEN Resumed(modem) ELSE modem
    /\ parked' = FALSE
    /\ c1' = "serve"
    /\ UNCHANGED <<core0, req, event, gated, running, dog, env, raced>>

-----------------------------------------------------------------------------
(* Core 1: its loop.                                                       *)

CoreOneInit ==
    /\ c1 = "init" /\ c1' = "loop" /\ codec' = "live"
    /\ UNCHANGED <<core0, req, parked, event, gated, running, modem, dog, env, raced>>

Look ==
    /\ c1 = "loop"
    /\ c1' = IF req THEN "park" ELSE "serve"
    /\ UNCHANGED <<core0, req, parked, event, audio, dog, env, raced>>

(* What a command, or the service tick, does to the two sides.             *)
Gate ==
    /\ ~ gated /\ ~ running
    /\ codec' \in Quiesced /\ gated' = (codec' = "stopped")
    /\ faults' = FaultsAfter(codec', modem)
    /\ UNCHANGED <<running, modem>>

Sound ==
    /\ gated
    /\ gated' = FALSE /\ codec' = Resumed(codec)
    /\ UNCHANGED <<running, modem, faults>>

BridgeStart ==
    /\ ~ running
    /\ gated' = FALSE
    /\ codec' = IF gated THEN Resumed(codec) ELSE codec
    /\ modem' = Resumed(modem) /\ running' = (modem' = "live")
    /\ UNCHANGED faults

Resync ==
    /\ running
    /\ \E c, m \in Quiesced :
          /\ codec' = Resumed(c) /\ modem' = Resumed(m)
          /\ faults' = FaultsAfter(c, m)
    /\ UNCHANGED <<gated, running>>

BridgeStop ==
    /\ running
    /\ modem' \in Quiesced /\ running' = (modem' # "stopped")
    /\ faults' = FaultsAfter(codec, modem')
    /\ UNCHANGED <<gated, codec>>

(* A pass ends in a wait for an event, or after 1 ms when there is sound.  *)
Serve ==
    /\ c1 = "serve"
    /\ \/ Gate \/ Sound \/ BridgeStart \/ Resync \/ BridgeStop
       \/ UNCHANGED <<audio, faults>>
    /\ c1' \in {"loop", "idle"} /\ (running' => c1' = "loop")
    /\ UNCHANGED <<core0, req, parked, event, dog, stalled, refused, stalls, raced>>

Wake ==
    /\ c1 = "idle" /\ ~ Asleep
    /\ c1' = "loop" /\ event' = FALSE
    /\ UNCHANGED <<core0, req, parked, audio, dog, env, raced>>

(* Core 1 may be held up in its startup, in a command, in the service tick *)
(* and in the two HALs.                                                    *)
Stall ==
    /\ c1 \in {"init", "loop", "serve", "park", "resume"} /\ ~ stalled
    /\ stalls < MaxStalls
    /\ stalled' = TRUE /\ stalls' = stalls + 1
    /\ UNCHANGED <<core0, req, parked, event, c1, audio, dog, refused, faults, raced>>

Unstall ==
    /\ stalled /\ stalled' = FALSE
    /\ UNCHANGED <<core0, req, parked, event, c1, audio, dog, refused, stalls, faults, raced>>

-----------------------------------------------------------------------------
Idle == \/ CoreOneStart \/ WatchdogStart \/ Post \/ Change \/ SleepTick
        \/ \E phase \in NotedPhases : NotePhase(phase)

Core0 == \/ Drained \/ DrainTimeout \/ Arm \/ Acked \/ WaitTimeout \/ Check \/ Withdraw
         \/ FlashBegin \/ FlashOp \/ SleepRecheck \/ SleepEnd \/ Release \/ Unparked
         \/ UnparkTimeout

Core1 == /\ ~ stalled
         /\ \/ CoreOneInit \/ Look \/ ParkQuiesce \/ Ack \/ LeaveSpin \/ Unpark
            \/ Serve \/ Wake

Next == Idle \/ StoreTick \/ Core0 \/ Core1 \/ Stall \/ Unstall \/ Bite

Spec == Init /\ [][Next]_vars

(* Each core runs, and the main loop calls the store on every turn.  A     *)
(* core 1 that is held up may stay so for ever.                            *)
Fairness == WF_vars(Core0) /\ WF_vars(Core1) /\ SF_vars(StoreTick)

FairSpec == Spec /\ Fairness

-----------------------------------------------------------------------------
(* Core 1 neither executes from the flash nor owns a live DMA channel.     *)
CoreOneHeld ==
    /\ c1 \in {"off", "spin"}
    /\ codec = "stopped" /\ modem = "stopped"

(* While XIP is down, or the chip sleeps, core 1 is held: unless its park  *)
(* was published between the drain of the old flag and the new request.    *)
HeldUnlessRaced == c0 \in {"op", "dormant"} /\ ~ raced => CoreOneHeld

(* What the comments of core1_flash_pause_begin promise: the drain is      *)
(* enough, core 0 never touches the flash while core 1 runs from it.       *)
Excludes == c0 \in {"op", "dormant"} => c1 \in {"off", "spin"}

(* A pause leaves the audio as it found it: outside a park the codec side  *)
(* is stopped exactly when the gate holds it, and the modem side only when *)
(* no bridge owns it.  A side whose abort failed is neither.               *)
AudioAsFound ==
    c1 \in {"loop", "serve", "idle"} =>
        /\ gated <=> codec = "stopped"
        /\ running <=> modem # "stopped"
        /\ ~ (gated /\ running)

(* The flash lease is armed exactly while a flash operation is under way;  *)
(* otherwise the main lease is, or none before the watchdog is started.    *)
LeaseMatches ==
    wd.lease = IF InFlash THEN "flash" ELSE IF wd.started THEN "main" ELSE "off"

(* After a reset the evidence says whether the watchdog made it, and blames *)
(* the flash exactly when a flash operation was under way.                 *)
EvidenceIsTrue ==
    /\ evidence.timeout <=> lastReset.timeout
    /\ evidence.phase = "flash" <=> lastReset.timeout /\ lastReset.flash
    /\ evidence.phase # "none" <=> lastReset.timeout

(* What the store has to commit is committed, or the phone restarts: a     *)
(* core 1 that does not park cannot keep core 0 trying for ever.  And a    *)
(* park ends, whether its request was served or taken back, unless core 1  *)
(* is held up in it.                                                       *)
PausesEnd ==
    /\ dirty ~> ~ dirty
    /\ parked ~> ~ parked \/ stalled
=============================================================================
