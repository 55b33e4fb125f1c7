# Sisu DCP-3: a verification model in TLA+

The Sisu DCP-3 is a feature phone: C firmware for an RP2354B microcontroller
with two cores, a cellular modem behind an AT command line, a 2 MB flash, and a
battery. This directory models the parts of the firmware whose correctness
depends on the order of events (who acts when, what fails, where the power is
cut), checks them with TLC on small instances and proves the most important
facts for all instances with TLAPS.

Paths below are relative to `src/`, the repository.

- [Inventory](#inventory)
- [Modules](#modules)
- [Runs](#runs)
- [Findings](#findings)
- [Proofs](#proofs)
- [Abstractions](#abstractions)
- [Not modelled](#not-modelled)
- [Plan](#plan)

## Inventory

Core 0 runs one cooperative loop (`src/main.c`): each service has a tick, and
nothing else on core 0 preempts a tick except interrupts that only set flags or
fill rings. So most of the concurrency is between a tick and the world: the
modem, the flash device, the network, the SIM, the user, the power supply. Core 1
moves audio samples; the two cores share memory, and meet in the handshake that
parks core 1 while flash is programmed.

| Component | State | Operations | Interacts with | Hard behaviour | What makes it correct |
|---|---|---|---|---|---|
| Message service (`services/message_service.c`) | files in three flash collections; RAM indexes of them; a queue of eight arrivals; one request per kind; one tracked receipt; retry and backoff state | receive, receive tracked, sent copy, list/read/save/delete, pop a result, tick, sleep readiness | modem service (arrivals, receipts), message application (requests), object store, sleep | storage calls that fail before or after their commit; power cuts between two calls; full collections; damaged files; stale RAM indexes | nothing accepted is lost; messages are whole; deletions stay; receipts are true; every request is answered |
| Message codec (`services/message_file_codec.c`) | none | merge, complete, control, encode, decode | message service | concatenation references are reused | parts of two messages are never spliced |
| Modem record recovery (`services/modem_sms_recovery.c`, driver in `modem_service.c`) | a step, a slot index, a record's bytes, flags | request, command, line, payload, final, committed, rejected, defer, reset | modem (CPMS, CMGR, CMGD), stores (receipts), SIM state, debug console | late answers, records that change, SIM and session loss, resets at any step | the modem's copy goes only when the phone holds the same bytes; every record is recovered in the end |
| SMS direct delivery (`services/modem_sms_direct.c`, `modem_sms_protocol.c`) | framing of one +CMT, its deadline | line, step, acknowledge | modem, stores | a body split from its header, a timeout in the middle | acknowledged only when admitted |
| Object store (`storage/storage_lfs.c`) | littlefs volumes, an identifier counter, block budgets | write, read, remove, state, scan, allocate | all stores, flash HAL | cuts, full volume, damaged files | a write is atomic; identifiers are never reused; one category does not starve another |
| Record stores (`storage/store_*.c`) | cached records with dirty marks | get, set, tick, flush | applications, power off | flush before power off, retries | the last value set is the one found after a restart |
| Flash access and watchdog (`storage/nvm_flash_hal.c`, `services/runtime_watchdog.c`) | core 1 parked or not, lease depth | erase, program, feed, begin/end lease | core 1, all stores | core 1 parks late, refuses or never parks; a lease taken before the watchdog is started | core 1 never runs from flash during an operation; the watchdog is never left off; core 0 does not retry for ever |
| Modem power (`services/modem_service.c`) | power state, rung of the shutdown ladder, deadlines | power on, shut down, fail, recover | shared rail, charger, standby | a rung that times out, a late OK | the rail outlives the modem; shutdown ends |
| Shared 3.8 V rail (`services/shared_3v8_service.c`) | owner mask | require, release, force off | modem, audio, diagnostics | overlapping owners | on exactly while owned |
| Call model (`services/modem_call_model.c`) | call slots, transactions, the CLCC reconciliation | URCs, command results, user actions, timers | modem, call application | URCs and results that cross | every call ends; at most one active call |
| Modem maintenance, network monitor (`services/modem_maintenance.c`, `netmon_control_service.c`) | an exclusive session and its saved settings | begin, step, cancel, restore | modem service | cancelled or failing half-way | what was changed is put back |
| Power off and standby (`services/power_sleep.c`, `standby_sleep.c`) | phase, blockers, wake sources | request, tick, wake | all services | a wake between the check and the sleep | no work is slept on, no wake is lost |
| Battery and charger (`services/battery_*.c`, `charger_control_service.c`) | the supervisor's model and its journal, the owners and readback of /CE, the learner's pack generation and ledger | a turn of `poll_battery`, the floor's release, the console's override, boot | charger, gauge, stores, learner | turns without evidence, writes of /CE that fail, resets between the stop, its journal and the learner's anchor, other owners of /CE | a confirmed stop holds; every FULL rests on a charge that was counted; a FULL earns one pulse; a detach releases the latch |
| Core 1 and audio (`services/core1_services.c`, `audio/*`) | command queue, park request and acknowledgement, silence gate, DMA of the codec and modem sides | park, gate, sound, bridge start and stop, resynchronise, shut down | core 0, modem | a park that crosses a gate or a bridge; DMA that does not stop; an acknowledgement that comes late | a pause gives the audio back as it was; rings do not overrun |
| Interface (`apps/*`, `ui/*`, `app*.c`) | screens and editors | keys, ticks | all services | modal flows | |

`PROJECT.json` lists every component with what is modelled, and, under
`hazards`, every place in the modelled and planned code where something can go
wrong that a test would hardly reach, with the properties that cover it.

## Modules

```
MessageFile          the meaning of a message file: merge, complete, control
   ^ EXTENDS
MessageService       message_service.c and the object store it uses
   | INSTANCE (refinement)     ^ EXTENDS  MessageService_proofs, theorems
DurableReceipt       what the store promises about a tracked delivery
   ^ INSTANCE (environment)
SmsRecovery          modem_sms_recovery.c, its driver, and the modem
   ^ EXTENDS
SmsRecovery_proofs   theorems about single steps and a whole pass

MCMessageService, MCSmsRecovery   instances for TLC

RuntimeWatchdog      runtime_watchdog.c, as operators on its state
   ^ EXTENDS
FlashAccess          nvm_flash_hal.c and the park handshake of both cores
   ^ EXTENDS
FlashAccess_proofs   theorems

AudioGate            core1_services.c between a sound and silence
   ^ EXTENDS
AudioGate_proofs     theorems

StoreCommit          the commit engine of store_service.c
   ^ EXTENDS
ReceivedParts        store_tones.c and store_pictures.c on that engine
   | INSTANCE (refinement)      ^ EXTENDS  MCReceivedParts, its instance,
   |                                       and ReceivedParts_proofs, theorems
PersistentRecords    what a set of saved records promises

CallModel            modem_call_model.c, as operators on its table
   ^ EXTENDS
CallService          the call half of modem_service.c, the user, the modem
   ^ EXTENDS         and the network
CallInvariant        what is inductive about the calls and the dials
   ^ EXTENDS
CallService_proofs   theorems

ModemPower           the power half of modem_service.c, the shared rail, the
                     module and the power application
   ^ EXTENDS
ModemPower_proofs    theorems

ChargeSupervisor     battery_charge_supervisor_*.c, charger_control_service.c and
                     the pack's generation, with the gauge, the charger and resets
   ^ EXTENDS
ChargeSupervisor_proofs   theorems
```

**MessageFile** translates `message_file_codec.c`. A fragment is a value that
stands for the bytes of one PDU, its group is what `same_group` finds out, a
file is a set of fragments.

**MessageService** translates `message_service.c`. The media (`staged`,
`published`, `outbox`, attributes, damage, the identifier counter) survive a
power cut, the RAM (`ready`, the indexes, `queue`, `req`, the retry counters,
the receipt) does not. The calls of other services are actions (`Receive`,
`ReceiveTracked`, `ReceiptForget`, `Sent`, `Ask`, `PopResult`).
`message_service_tick` is split into one action per path through it:

| Code path of the tick | Action |
|---|---|
| reload fails | `TickReloadFailed` |
| `perform`: list, read, save, delete | `TickList`, `TickRead`, `TickSave`, `TickDelete` |
| `cleanup_incomplete` | `TickCleanup` |
| the publication loop and `publish` | `TickPublish` |
| nothing to do | `TickIdle` |
| `receive_one`: known, unreadable, part list full, merged, staged, sent copy | `TickServeKnown`, `TickServeUnread`, `TickServeFull`, `TickServeMerge`, `TickServeStage`, `TickServeSent` |

Every action first reloads when `ready` is false, so the operators `Pend`, `Blk`,
`In` and `Out` are the indexes as the rest of the tick finds them, and ends in
`Settle`, which is `failure` or the reset of the failure count. A storage call has
an outcome: `ok`, `lost` (error, nothing written), `late` (error, written),
`busy` and `busyLate` (the same with BUSY), `full`. A cut between two storage
calls of one tick leaves on the media what a failed second call leaves, so
`PowerCut` is an action between ticks that clears the RAM. Three variables are history that only
properties read: `owed`, what has been accepted and must not be lost; `erased`, what was reported as
deleted; and `stray`, the fragments that were staged under the identifier of a published message.

**DurableReceipt** is the contract between the store and its callers: a tracked
delivery is waiting or committed, it is committed only when its fragment is on
the media, and it is forgotten by a restart. `MessageService` implements it
(property `KeepsReceiptPromise`, a refinement under a mapping), `SmsRecovery`
uses it as its environment, where it stands for the text, ringtone and picture
stores alike.

**SmsRecovery** translates `modem_sms_recovery.c` function by function: the
recovery state is a record and each C function a function from records to
records (`Requested`, `Done`, `Deferred`, `Advanced`, `Commanded`, `Selected`,
`Headed`, `Loaded`, `Finished`, ...). Around them are the driver in
`modem_service.c` (`Start`, `StartAdmit`, `StartRefused`, `Final`, `Timeout`,
`Reset`, the actions for SIM and session loss, the debug command) and the modem:
its slots, the command on the wire and how much of the answer has arrived.

**RuntimeWatchdog** translates `runtime_watchdog.c`: the watchdog is a record
(started, nesting depth, the lease the hardware counts, the phase in a scratch
register) and each C function an operator on it. The hardware's own state, the
scratch register, is what survives a reset.

**FlashAccess** is the handshake of the two cores, with the flags
`s_flash_pause_req` (`req`) and `s_flash_parked` (`parked`) read and written one
access a step. Core 0 is at a point `c0` and core 1 at a point `c1`:

| Core 0 | Code | Actions |
|---|---|---|
| `run` | the main loop | `StoreTick`, `SleepTick`, `NotePhase`, `Post`, `Change` |
| `drain`, `arm`, `wait`, `check`, `withdraw` | `core1_flash_pause_begin`: wait for an old park to end, raise the request, wait for the park, look once more, take the request back | `Drained`, `DrainTimeout`, `Arm`, `Acked`, `WaitTimeout`, `Check`, `Withdraw` |
| `held`, `op` | `nvm_safe_exec` between the two calls | `FlashBegin`, `FlashOp` |
| `dormant` | `standby_sleep_try_enter` between the two calls | `SleepRecheck`, `SleepEnd` |
| `release`, `unpark` | `core1_flash_pause_end` | `Release`, `Unparked`, `UnparkTimeout` |

| Core 1 | Code | Actions |
|---|---|---|
| `init`, `loop`, `serve`, `idle` | `core1_main`: startup, the look at the request, commands and service tick, the wait for an event | `CoreOneInit`, `Look`, `Serve`, `Wake` |
| `park`, `ack`, `spin`, `resume` | `core1_flash_park`: stop the DMA, publish, spin, resume | `ParkQuiesce`, `Ack`, `LeaveSpin`, `Unpark` |

`codec` and `modem` are the DMA of the two sides: live, stopped, or stuck when an
abort did not finish. `gated` (`s_audio_gated`) and `running` (the modem HAL's
`s_running`) say who owns them. `Serve` does what any command or the service tick
may do to them (`Gate`, `Sound`, `BridgeStart`, `Resync`, `BridgeStop`). `Reset`
is a restart, by core 0's own decision (a streak of refusals, a core 1 that does
not unpark) or by the watchdog (`Bite`, possible whenever a lease is armed, since
core 0 may hang anywhere). `raced` and `lastReset` are history variables.

**AudioGate** is the other half of `core1_services.c`. Core 0 posts commands to a
ring that drops its oldest entry when full (`Pushed`), wakes the codec before a
sound (`Unidled`), and, in its tick, gives the shared rail back and asks core 1
for silence (`GateTick`: `GateSounds`, `GateListens`, `GateRequests`, `GateRaced`,
`GateCloses`, `GateWaits`, one per way through `core1_services_audio_gate_tick`).
Core 1 takes a command (`Pop`), resumes its DMA for those that sound and plays
(`DispatchSound`), or stops its DMA (`DispatchGate`). The codec chip is a record of
what the driver knows of it (`ready`, `pending`, `idle`, `synced`) beside what its
DACs really do (`dac`): an I2C sequence ends `ok`, with a refused write (`nak`) or
with a chip that is given up (`dead`). Power-on, power-off, the charger's chirp
and the recovery of the codec are actions too. `lapse` and `excused` are history:
what has gone wrong that a property makes an exception for.

**StoreCommit** is the engine: which units are dirty, how often each has failed,
where the round robin stands, what is on the medium and which media could be
opened at boot. Its operations are actions on the RAM they are given
(`TickHolds`, `TickWrites`, `Flush`, `Sleep`, `PowerCut`, `Boot`, `BootFlush`), so
that a module with contents for the units can put its own step before them, as
`store_service_tick` does with `store_ringtone_expire`. A write has the outcomes of
`MessageService`; a write that is late leaves the record replaced.

**ReceivedParts** gives the units contents: settings, pictures and ringtones.
`Receive` is the arrival of one part, `Proof` the question whether the modem's copy
may go, `Show` and `Consume` what the user does with a complete one.
**PersistentRecords** is the abstract specification: what is found after an
orderly power-off is what was there, and after a cut each record is one that it
has had since it was last saved.

**CallModel** translates the reducer of `modem_call_model.c`. The table is a record
with its legs, its transactions, the incoming-call episode, the listing under way
and the published state, and each C function an operator on it, composed as the C
functions call each other (`ClccOk` = commit the rows, reconcile, resolve).
`Reconcile` is `reconcile_pass`, `Tick` the clocks, `Project` what the user is shown.

**CallService** drives it as `modem_service.c` does, one AT command at a time:

| Code | Actions |
|---|---|
| `modem_service_request_*`, `modem_service_new_call_abandoned` | `Ask`, `AbandonNewCall` |
| a pass of `modem_service_tick` with nothing on the wire: a queued request, a release the table wants, or a listing | `Turn` |
| a final line, with the rows of a listing before it | `Answers`, `Refuses`, `Misses` (one row is lost) |
| the command's deadline | `TimesOut` |
| RING, +CLIP, call events, NO CARRIER | `Arrives`, `Rings`, `RemoteAnswers`, `EndsWithEvent`, `EndsWithFinal`, `EndsUnheard` |
| the table's deadlines | `Deadline`, `Slow` |

The service takes any final line for the answer to the command it waits for. The
modem answers in order, so `owed` holds every command that has not been answered,
and after a deadline an answer may end a later command than its own. The network
(`net`) has at most one call per id with a serial number (`call`), which only the
properties look at: `lost`, `given` and `calls` are history.

**ModemPower** translates the functions of `modem_service.c` that decide about the
module's power. The service is a record `s`; each C function is an operator on it
(`BeginOn`, `BeginOff`, `Fail`, `Terminal`, `Recover`, `StartupRestart`, `EnterOff`, ...), and
`modem_service_tick` is split into one action per way through its parts:

| Part of the tick | Actions |
|---|---|
| `modem_runtime_power_tick`, every 250 ms | `WatchSupply`, `WatchModule`, `WatchFailed` |
| `modem_transport_tick` | `WakeDone`, `WakeLate`, `RingWakes` |
| `drain_rx` and `process_timeout`: a final, or none in time | `PingDone`, `PingFails`, `InitDone`, `InitFails`, `QueryDone`, `QueryFails`, `SetDone`, `SetFails`, `RebootDone`, `RebootRefused`, `OffDone`, `WorkDone`, `ReadDone`, `ReadLate`, `PulseEnds` |
| `advance_state` | `AdvanceOff`, `DischargePulseEnds`, `AdvanceDischarge`, `RailGood`, `RailLate`, `ModuleWaitSupply`, `AdvanceModuleWait`, `Advance`, `Work` |

The power key is `AskOn` and `AskOff`, the application's tick `TickPowerOff`. The shutdown ladder is
`s.stage`: AT#SHDN, a pulse on ON_OFF_N, a pulse on HW_SHUTDOWN_N, and the terminal failure, in
which the rail stays. The module (`mod`) starts, leaves or restarts some time after it was told
(`order`), drops by itself, and may ignore what it is told: `Reacts` is what it makes of a step. A
sample of PWRMON is true or a fault (`Sample`); `s.sense` is what
`telit_off_complete` remembers of the samples. `audio` is the buzzer's bit in the owner mask, and
`down` says how long the rail has been down, which the code cannot measure.

**ChargeSupervisor** is a charge from the cable in to the cable out. One action is one turn of
`poll_battery`, since the supervisor, the learner and the floor see one another within a turn; `t` is
what the turn meets (evidence, accesses of /CE, deadlines, the learner's report). The services' state is a record `s`, the
model's state a record `m`, and `battery_charge_supervisor_update` is a chain of operators in the order
of its parts:

| Code | Definitions |
|---|---|
| `battery_charge_supervisor_update` | `Attach`, `Contaminate`, `Judge`, `Admit`, `Dwell`, `Stop`, `Confirm` |
| `battery_charge_supervisor_service_poll`: unreadable record, maintenance, restore, the model | `RefusedTurn`, `MaintenanceTurn`, `RestoreTurn`, `ModelTurn` |
| what a turn journals, by its result | `Settle`, with `Terminal`, `Detach`, `Arm` |
| `try_persist`, `service_control_preflight` | `TryPersist`, `ControlPreflight` |
| `charger_control_service.c` | `ApplyTarget`, `ControlPoll`, `SetInhibit` |
| the learner's pack generation in `battery_learning_update` | `Learn` |
| `poll_battery` after the supervisor | `Finish`, with `FloorRelease` |

`Reset` is a reset of the processor, or of the board, up to the first turn; `Commit` and `CommitLearner`
are the store's writes. `Count` moves the gauge's counter up or down between any two steps: before the learner has
polled the gauge, before a record is flushed, while a charge is live or being restored. What the learner reports (what
is missing in the pack, already scaled by the charge factor, and how far it is trusted) is any report in any turn. The
ledger, the factor, the level guessed from a voltage and the EMPTY endpoint decide which report comes; here every one may.

Some modules define, right before an operator, a second one whose comment begins
with "Fault for". These are plausible mistakes in that operator: each property
was seen to fail with one of them, which shows that it depends on the code.
No action uses them.

## Runs

All runs are exhaustive within their bounds. `MaxArrivals`, `MaxRequests`,
`MaxFaults`, `MaxCuts`, `MaxRot`, `MaxReceipts` and `MaxTrouble` bound how often
the environment acts; `MaxId` bounds identifiers, and reaching it is the code's
own exhaustion of the counter.

| Run | Question | Bounds | Distinct states |
|---|---|---|---|
| `store` | Is anything accepted ever lost; do indexes follow the media; is a receipt true; is a sent copy one file? | a two-part message with two candidate second parts and a single control, a sent copy and a draft, 2 identifiers, 2 tracked receipts, 2 faults, 1 cut, 1 request | 248 thousand |
| `mailbox` | Is what the user sees whole; do deletions stay; is what is not deleted kept? | a message, a two-part control, a clock that moves, one damaged file, 1 fault, which may have committed, 1 cut | 454 thousand |
| `live` | Is every request answered and every complete message published? | three fragments under one reference, three kinds of request, 1 fault, fair tick | 18 thousand |
| `recovery` | Is the modem's copy safe, and is every record recovered? | two fragments and a control, two slots, bounded arrivals and trouble, fair phone and modem | 218 thousand |
| `flash` | Is core 1 held while flash is down; is audio given back; are lease and evidence true; do commits and parks end? | calls of 1 or 2 pages, restart after 2 refusals, core 1 held up once, 1 failed DMA abort, fair cores | 181 thousand |
| `gate` | Is what plays heard; is the rail held; does a silent phone get ready to sleep? | a ring of 2 commands, 3 posts or power changes, 1 failed I2C sequence, 1 failed DMA abort, fair cores | 122 thousand |
| `commit` | Is a proof durable; is a dead medium spared; are records replaced whole and saved in the end? | settings, pictures, ringtones; four parts, three of them rivals for two places; one damaged record, one medium that may die, 2 faults | 178 thousand |
| `calls` | Does a request take its own call only; does a poll drop a live one; does the table settle? | two call ids, four transaction slots, two calls, two requests of six kinds, one fault of five kinds, fair service and modem | 214 thousand |
| `power` | Is the supply taken from a running module; does a start begin from a discharged rail; does the latest request hold, and end? | 3 requests, 2 faults (false samples, drops, lost answers), 1 restart of a starting module, 1 sound on the rail, fair service | 247 thousand |
| `charger` | Does a confirmed stop hold; does every FULL rest on a charge that was counted; does it earn one pulse; does a detach release the latch? | a target of 0 or 1 unit, known and sure or not, a safety limit of 1, a counter from -1 to 0, its value at a power-up, 1 fault, 1 reset of the processor or the gauge, 1 insertion of the cable | 375 thousand |
| `race`, `wedged` | See the findings | as small as shows them | |

Why the bounds are enough. The properties are about one message against one
other: a part and its rival, a copy and its duplicate, a message and the one
behind it in the queue. Two fragments of one message, one rival and one
unrelated message give every combination the merge distinguishes. Limits of 1 or
2 for the mailbox, staging and queue make the full cases happen with these few
messages. One fault that commits and reports failure, followed by one that does
not, is the longest chain the code treats differently: the retry limit of three
changes how long the tick waits and whether the phone may sleep meanwhile, and
neither time nor sleep is in these runs.

For `flash`: the handshake has no memory of earlier calls but the two flags, the
streak and a park still under way, so two pages, two refusals and one hold-up
give an old park meeting each point of a new request. `StreakLimit` is 20 in the
code; 2 is the least that tells a first refusal from a last one. The theorems do
not depend on any of these bounds.

For `gate`: a ring of two is the least that drops a command while another waits,
where the code has 32 places; the gate's flags forget everything at each sound, so three posts let
a sound, its end and another sound meet every phase of one closing. For `commit`:
`FailLimit` 2 tells a first failure from a last one (8 in the code), three units let the round
robin pass over a parked one and a unit that is written again. For `calls`: the
reducer compares a leg with the others, never counts beyond two, and gives each
decision to an active and a held leg; the third id of a real modem would let a
held call, an active one and a waiting one meet, which these runs leave out. The
same properties were also checked with all ten kinds of request and two queued
ones (498 thousand states).

For `power`: the third request meets what the first two left behind, a restart queued behind a
shutdown or a shutdown behind a start; two faults let a false sample fall into what another
one began. A start is restarted once where the code allows two (`RestartLimit`), and the buzzer takes
the rail once, at any moment of any dwell. The run with three faults was also checked (386 thousand
states).

For `charger`: a target is reached or not, so one unit is enough to tell a charge that was counted from one that was
not. A charge that starts below the power-up value reaches its target by counting, or seems to reach it when the gauge
loses power; one that starts at it is led out of reach first. The safety limit is reached together with the target,
and stops the charges whose target is not trusted. The run with a counter from -1 to 1 and a limit of 2 was also
checked (802 thousand states). One fault meets each turn of each phase, and one reset each gap between the freeze, the
stop, its journal, the learner's record and the maintenance transaction. Two insertions, or two resets, are beyond
five minutes of checking: the excuse of `FullIsEarned` that needs a power-up of the gauge and then a reset of the
processor is met by the theorem only. `Possible` and `Choices` leave out choices that nothing reads in the state at
hand.

What the properties say:

- The invariants `NoLoss`, `Audible`, `ProofIsDurable`, `NeverResurrected`, `IntentKept` and
  `StaysStopped` include the types of their modules.

- `NoLoss`: a body that was accepted is on the media or in the queue until it is
  deleted, expires or is filtered. (A power cut loses the queue by design.) A fragment in `stray` is
  excepted (see the smaller observations).
- `IndexIsMedia`: while `ready` holds the RAM indexes name the readable files and
  no other. This is what a failure that may have committed endangers.
- `KeepsReceiptPromise`: `MessageService` implements `DurableReceipt`.
- `InboxWhole`, `StaysDeleted`, `FilesKept`: the user's view. `StaysDeleted` excepts a message whose
  identifier a queue entry still had when it was deleted (see the smaller observations). `FilesKept` is
  about damaged files and receipt times.
- `SentOnce`: the outbox.
- `RequestsAnswered`, `CompleteIsPublished`: progress.
- `DeletedIsStored`: the modem's copy goes only when its bytes are on the media,
  or are a control that is not to be kept.
- `WireIsExpected`, `ReceiptIsCurrent`: an answer, or a receipt, is never taken
  for that of another command or record.
- `NothingStranded`, `Recovered`: when no pass is due, only refused records are
  left, and every record is recovered or refused in the end.

- `HeldUnlessRaced`: core 1 is in its spin with both DMA sides stopped while XIP is
  down or the chip sleeps, unless the race of finding 1 happened since the drain.
  `Excludes` is the same without the exception.
- `AudioAsFound`: whatever a pause met, the codec side is stopped afterwards
  exactly when the gate holds it, the modem side exactly when no bridge owns it.
- `LeaseMatches`, `EvidenceIsTrue`: the lease that is armed is the one for what core 0
  does, and the evidence found after a reset names what happened.
- `PausesEnd`: a store that has to commit does so or the phone restarts;
  a park, even one nobody waits for, ends.
- `Audible`: a sound of the codec or a call is played by live DACs, clock and DMA, or the
  phone knows that they are not and tries again. The exceptions are named in
  `excused`: a DMA that did not stop, a route whose writes failed, the codec of a phone that
  is off, and power-on over a chip that is ready (see the smaller observations).
- `RailHeld`: the rail stays while a buzzer plays or a command that starts it has been
  taken, though core 0 sees the queue empty.
- `Settles` (gate): a silent phone becomes ready to sleep, unless core 1 refused the request
  or the ring dropped it: then the gate waits for the next sound (`Stuck`).
- `ProofIsDurable`: a part is reported as stored, and a complete melody or picture is
  shown, only when the medium holds it.
- `Endurance`: a medium that refuses every write is written a bounded number of times,
  but for the one retry per re-arm, whatever changes and however often power-off is tried.
- `KeepsRecords`: `ReceivedParts` implements `PersistentRecords`; `Persists`: a change
  reaches a medium that takes it.
- `BindsOwnCall`: a dial, cancelled or not, takes the leg of its own call, or of a call of a dial that is
  forgotten or has another leg (after a command was cut short answers go astray, and so may legs); never an
  incoming call, nor the call of a dial that waits for it or has it. What a cancelled dial waits for is excepted
  in two cases: another cancelled dial takes it, or the table let go of it (see the smaller observations).
- `PollNeverDropsLive`: as long as every command ends with its own answer, a listing that
  lacks a row drops no call that goes on.
- `Settles` (calls): if nothing but an unheard end goes wrong, the table and the network
  agree for ever once the user and the network are quiet, with nothing left to do.
- `NeverResurrected`: a call the table gave up never comes back as a live one, whatever is listed, asked for or
  goes wrong, unless the table let go of its leg while it went on (see the smaller observations).
- `StaysStopped`: a confirmed software stop keeps the charger off until the cable is out, a maintenance begins
  or the floor releases it, whatever is reset, retried or asked for by others.
- `FullIsEarned`: a FULL is announced only when the gauge has counted in, since the charge was admitted, what its
  admission asked for: by the charger's end, by a stop, by a fault or by a restore after a reset, whatever the counter
  did before the record was written or after another power-up of the gauge. `due` is that count, kept beside the phone
  for every basis that some copy of the record still has. Excused (`lapsed`): a reset that made the phone forget a
  power-up of the gauge, and a refused record. It does not say that the pack is full: that would need the ledger's
  arithmetic, and nothing here is about it.
- `OneRearmPerFull`: a FULL earns one pulse of /CE, also when a reset falls into the transaction.
- `DetachReleases`: once a turn has seen the cable out, no latch remains and the inhibit is off or its
  release being retried, unless the journal refused a record.
- `SupplyHeld`: the modem lets go of the rail only when the module is not on; neither a dip of PWRMON
  nor a deadline alone takes its supply.
- `RestartsFromCold`: every start, the first or a queued one, begins from a rail that was down for
  the whole dwell, whatever the buzzer did to it meanwhile.
- `IntentKept`: at every moment the latest request is what the service works for, or the session
  has failed and, when the whole ladder was in vain, the user is told. The exception `lost` is described
  under the smaller observations.
- `Converges`: when requests and faults end, the phone is for ever where its user wants it, or has
  failed and said so; the exceptions are `lost` and finding 2, `Wedged`. `OffConcludes` is what the
  document promises of a request to switch off, without the second exception.

Fairness. `live` assumes weak fairness of `Tick`: `main.c` calls
`message_service_tick` in every turn of its loop. Faults are bounded, as a medium
that never recovers would refute any progress. `recovery` assumes weak fairness
of the phone's own steps, of the store's commit, of the modem's answers that are
not in trouble, and of the return of the SIM. A command whose answer is lost ends
in its deadline or in the loss of the session; both are faults, bounded by
`MaxTrouble`, so in every behaviour the modem answers in the end.

`flash` assumes weak fairness of each core (each executes), and strong fairness of
`StoreTick`: the main loop calls `store_service_tick` in every turn, between other
things that occupy core 0, and a commit waits only while sound plays or for its
pace. So `PausesEnd` is about sound that ends now and then, and about a medium
that takes the data (a unit whose medium refuses it is parked by `store_service`,
which is the subject of `StoreCommit`). Nothing is assumed of a core 1 that is held up: it may stay so for
ever. Deadlines fire only when core 1 is held up, has refused since the request,
or waits for an event nobody sent; a core 1 that answers in time is not timed out.

`gate` assumes weak fairness of core 0's tick, of core 1, of the codec's recovery (every second),
of the silence that lasts long enough and of the rail's hold-off running out. `commit` assumes
weak fairness of the writing tick (sound and pace hold it up, not for ever), of the re-arm every
five minutes and of the start after a power-off. `calls` assumes weak fairness of the
service's pass, of the modem's answers, of the RING that a ringing network repeats every few
seconds and of the table's deadlines, and that a listing which no event interrupts happens
again and again: an event makes the model discard the listing under way, and events of one
call come seconds apart while a listing takes a fraction of one. It is
written out, since TLC evaluates `ENABLED` of these actions far too slowly. The deadlines
of 120 s expire only when the table has caught up with the network.

`power` and `wedged` assume weak fairness of each part of the service's tick and of the application's,
which `main.c` calls in every turn, of a module that is starting to come up, of time (500 ms of low
PWRMON, the dwell) and of the buzzer to end its sound. Nothing is assumed of a module that was told
to leave: it may stay on for ever.

`CHECK_DEADLOCK FALSE` is set where the bounds on the environment let the system
come to rest.

## Findings

1. **An old acknowledgement is taken for a new one** (`race`, `code_bug`).
   `core1_flash_pause_begin` drains the flag of an abandoned park before it arms the
   new request. Core 1, still stopping its DMA for the abandoned one, may publish
   the flag between the two. It sees no request, leaves its spin and runs the
   resume code from flash, while core 0 sees the flag and erases. The window is a
   few instructions and needs core 1 to be more than 100 ms late, but the comment
   above the drain claims it is closed. `Held` proves that this is the only way.
2. **A request to switch off that never ends** (`wedged`, `code_bug`).
   `modem_transport_tick` does nothing while the UART is parked, so a DTR wake-up that is pending
   then is neither completed nor given up, and no state advances while one is pending. There are
   two ways to it: the module's AT#SHDN ends before a wake-up did that began meanwhile, and
   `modem_begin_off_discharge` parks the UART; or `provision_note_reboot_drop` has parked it, and the user switches off before
   the final of AT#REBOOT was given up, so that AT#SHDN is deferred to a wake-up. The rail stays owned, no rung
   of the ladder is taken and nobody is told, where `docs/modem_shutdown_recovery.md` says: "The normal
   path and both fallbacks are finite, preserve the newest power intent".

Smaller observations, for which no run is kept:

- Cancelled calls. A release that the modem refuses is not tried again, and one can not start while no
  transaction slot is free or, for AT+CHLD=1, while anything but a held call is beside the leg; sent with a held
  call alone, AT+CHLD=1 takes that call back. The leg's limbo runs from the
  request to release it, and its end evicts the leg although every listing shows it
  (`modem_call_model.c:413`); the next listing brings the call back as an ordinary one, where
  `modem_call_model.h:64` says "never resurrected". `NeverResurrected` excepts a call that is `lost` in this way.
- Charger. A fault of the charger in the middle of a stop that has reached its target makes the charge qualified FULL
  with the latch kept; the record that the detach writes then, with reason DETACHED and still qualified, is refused by
  `battery_charge_supervisor_persisted_valid` (logic:903), so the latch outlives the detach until the battery floor,
  where `battery_charge_supervisor_design.md:133` says "Physical detach releases the supervisor latch."
  `restore_active` (logic:1030) does not look whether the stop it restores was qualified: one that was not is
  announced as FULL after a reset, and earns another pulse. The gauge loses power, and the processor is reset before
  the learner's new generation of the pack is on flash: the session is zero again on both sides, so `restore_active`
  takes the new pack for the one of the record, where `battery_charge_supervisor_design.md:502` says that a restore
  needs pack generation, gauge session and ACR continuity to match. FULL announced again after a reset anchors a pack
  that may have discharged since. A stop under way is not degraded by a power-up of the gauge (logic:600 looks at
  CHARGING only); /CE is already being raised then. A charge admitted before the learner's first sample aims at the
  whole capacity. A FULL whose turn has no sample is lost to the learner.
- Storage. A failed merge leaves its target's identifier in the queue entry
  (`message_service.c:425`). If the target is completed by another part and published before the next
  attempt, the fragment is staged alone under the identifier of a message on display, against
  `storage_engine.md:247`. A deletion of that message removes the fragment as its duplicate
  (`message_service.c:305`), where `sms_direct_delivery_design.md:275` says "Recovery verifies byte equality
  before removing a duplicate staging copy": it is then in no file and no queue entry. `stray` marks
  such fragments. After a third
  I/O failure `message_service_sleep_ready` is true whatever waits in the queue
  (`message_service.c:627`), against "New work and transient BUSY results remain blockers" in the header.
  `store_pictures.c:219` calls a part committed when its unit is not dirty, also when the picture
  record could not be read at boot and so may not be written, nor marked dirty: `ProofIsDurable` excepts it.
- Deletion. A message that the user deleted can come back: when the write of its staging file is reported
  as failed but was done, the entry keeps its identifier, the reload finds the file, and the message may be
  published and deleted before the entry is tried again. Nothing suppresses the entry then
  (`message_service.c:409-425`), and it is staged under the same identifier as a new message. `StaysDeleted`
  excepts it, and its proof shows that nothing else brings a message back.
- Sound. A key tone, or the charger's chirp, on a phone that is off wakes the codec, and the gate idles it
  afterwards. Power-on calls `nau88c22_codec_init`, which returns at once since the chip is
  ready, and clears `s_codec_idled` (`core1_services.c:217-221`) although the DACs are still idled: the next
  sound plays into nothing. The quiet timer repairs it afterwards.
- Power. A restart of the module during its start-up (`modem_service.c:5019`) forgets a shutdown that
  waits for CTS; it is not asked for again, against `revb2_hardware_contract.md:129`, "An explicit OFF request survives the wait."
  (`lost` in `IntentKept`). A drop of PG, the deadline of MODULE_WAIT or of the ping, and the drain of a record
  recovery erase a pending request to switch off without telling the application, as the drain of a SIM read does
  (`modem_service.c:3199`): the screen is dark and the rail owned, which the comment at `modem_service.c:6891` sets
  out to prevent. A drop of PG while AT#SHDN is out abandons the qualification. The pulse on ON_OFF_N of the ladder may
  start a module that has just gone off by itself. `revb2_hardware_contract.md:127` lets the second unexpected drop
  fail; `MODEM_STARTUP_RESTART_LIMIT` is 2 (`modem_service.c:52`).
- Finals. The service matches finals by order only. After a call command timed out, its late
  final ends the next command, and every later answer is shifted by one; two listings then end
  empty and a live call is dropped. A NO CARRIER heard while a call command is out does the
  same. The comment that a late final must not complete a call guards the record recovery only.
- Dials. A dial whose command another call's NO CARRIER ended is FAILED without a record of
  what it may have started; the call is then found by the next listing, and an empty table lists
  nothing. An event on an empty table asks for no listing either (`modem_call_model.c:1513`),
  where `call_model.md` section 5.1 says every event does. Two missed rows, or one with a slow ATD, empty the
  table while a call is up, and nothing polls again. A leg that was lost in this way and
  listed again can be taken, and released, by the record of an abandoned second dial.
- Cancelled dials. The record of a dial whose call ended unheard of stays uncleaned while the table has a leg that
  could be its own, and `cm_tombstone_candidate_count` (`modem_call_model.c:2840`) counts legs that other
  dials own. If a second dial is abandoned meanwhile, before a listing shows its leg, the record in the lower slot
  takes that leg (`modem_call_model.c:2806`), where the comment above says "A tombstone must never bind such a
  leg". The leg is then released as an ordinary one, the held call is not taken back, and
  the record of the second dial blocks further calls until its two minutes are over. It takes three dials in a row,
  beyond the bounds of the run; `BindsOwnCall` excepts it.
- Answers. A second press while WAIT_ANSWER is pending sends AT+CHLD=2 twice and puts the
  answered call on hold; the operation stays until its 120 s are over. An ANSWER queued for one caller
  answers the next one, and its deadline releases a live incoming call.
- Order. A request that a cleanup should hold back is still popped by the general case at
  `modem_service.c:3692`, against the comment above it. The general release AT+CHLD=1 of a
  cleanup acts on whichever leg is active when it is carried out. A cleanup whose
  wake-up of the modem failed is not queued again (`modem_service.c:4017`).

## Proofs

`SmsRecovery_proofs` proves, for any number of slots, fragments, arrivals and
faults:

- `TypeCorrect`: `Spec => []TypeOK`;
- `AnswersAreExpected`: `Spec => []WireIsExpected`;
- `DeletionIsSafe`: `Spec => DeletedIsStored`.

All three follow from the invariant `IInv`, the conjunction of

- `TypeOK`, without which `Advanced` could not be shown to stay in range;
- `IndexInv`: while its answer is not disowned, a record being handled is in a
  slot that exists. `TypeOK` alone is not inductive: from an index of
  `Capacity + 1` at step READ the next index is out of range;
- `WireInv`: a command that reads or deletes names a slot that exists, and the
  record that a deletion on the wire names is on the media or a control;
- `BytesInv`: what is known of the bytes held at each step. The chain of reasoning
  is: a record that was read whole is a fragment (READ); its receipt is the one
  just taken (STORE); once committed the fragment is on the media, or it is a
  control (VERIFY); the slot still holds the same bytes when verification matched;
  hence so does the slot named by the deletion (DELETE). The media only grow in
  this model, and an arrival takes an empty slot, so the fact survives until the
  modem acts on the command, late or not;
- `WireIsExpected` itself, needed so that the result of one command is not
  applied to another step.

The proof has one lemma per C function (its type and what it keeps), one lemma
per action, and combines them in `NextInvariant`. The assumption used is
`SmsRecoveryAssumption`: controls are fragments, the empty record is not a
fragment, and the memory has at least one slot.

Its second half builds on that invariant and proves, about a whole pass, for any number of slots, records and
failures:

- `ReceiptsAreCurrent`: `Spec => []ReceiptIsCurrent`;
- `NothingIsStranded`: `Spec => []NothingStranded`.

Its own invariant `PInv` has three parts. `ReceiptInv`: there is a receipt exactly while a record is
admitted, it is the one of the bytes at hand, and it is gone before the answer to the next selection or
read can come. `DueInv`: whatever ended a pass early is on record as something still to do. `Pass` is
what a pass knows while nothing has disturbed it: the slots behind its index are empty or refused
(`Behind`), and it still has at least as many records to count as there are ahead (`Ahead`, a cardinality,
so that the step of the index needs facts about finite sets). A pass that runs out of records can then
have left none behind. A +CMTI, a loss of the SIM, a debug command or a retry ends the claim, and
each leaves a reason for another pass; this is why `Pass` is conditional and `DueInv` is needed.

`FlashAccess_proofs` proves, for any number of pages, refusals, stalls and faults
and any limit on the streak:

- `TypeCorrect`: `Spec => []TypeOK`;
- `Held`: `Spec => []HeldUnlessRaced`;
- `AudioRestored`: `Spec => []AudioAsFound`;
- `Lease`: `Spec => []LeaseMatches`;
- `TrueEvidence`: `Spec => []EvidenceIsTrue`.

They follow from one `IInv`, whose parts are

- `HandInv`, where core 1 may be for each point of core 0. None of the two flags
  tells it alone: `parked` says that core 1 is in its spin or its resume, `req`
  that it cannot leave the spin, and the drain that a park seen at `arm` is a
  raced one. Each of the three is needed for the step that acknowledges;
- `AudioInv`, what the DMA of each side is at each point of core 1. In the park
  both are stopped whoever owned them, so the resume must find the owners, `gated`
  and `running`, as the quiesce left them: they change on core 1 only;
- `CallInv`, what core 0 is pausing for, with a page still to do;
- `DogInv`, the depth and the phase of the watchdog at each point of core 0: the
  lease of a flash operation is taken at depth 0 only, and a lease is never armed
  before a phase is stamped.

The assumption used is `FlashAccessAssumption`: the bounds are naturals, the
limits positive, and the main loop publishes phases other than the flash's.

`MessageService_proofs` proves, for any fragments and groups, any limits of queue, staging, mailbox and
identifiers, any set of the six storage outcomes, and any number of arrivals, faults, cuts and damaged files:

- `NothingIsLost`, `IndexNamesMedia`, `SentIsFiledOnce`, `InboxIsWhole`, `DeletedStaysDeleted`: the five
  invariants of the runs `store` and `mailbox`;
- `FilesAreKept`: `Spec => FilesKept`;
- `PromiseIsKept`: `Spec => KeepsReceiptPromise`, the refinement of `DurableReceipt`. Each step is
  mapped to a step of the abstract specification or a stutter.

They follow from `StoreInvariant`, `Spec => []IInv`. None of the five is inductive by itself, and the parts
of `IInv` need each other:

- `Rows`: an index in use names every readable file and no file that is gone. `IndexIsMedia` says this of a
  store that is ready; `Rows` says it of what the tick will read after its reload;
- `Drawn`, `Apart`, `CopyOnce`: identifiers at or above the counter are unused, an identifier serves
  received messages or sent ones but not both, and one sent copy at most. Without them a write under
  an entry's identifier could replace a file of another kind;
- `OneGroup`: the parts in a file and the entries that hold its identifier are of one group, and a message
  of one part is alone. The entries matter, because of an entry whose merge failed;
- `Shelved`: a published message is complete, and what is staged under its identifier is the rest of its
  publication or in `stray`. Then the removal of either copy loses nothing;
- `Safe`, with `Durable` and `Kept`: what is owed is on the media or waits, and what waits is owed. A
  staging file that is damaged, and whose identifier an entry holds, is not relied on, since the retry
  writes it anew;
- `Begun`, `Gone`: a deletion that was begun has no staging file in its index, and what is reported as deleted
  is on the media only as a damaged staging file that no index names;
- `Tracked`: the receipt that is active belongs to one entry, and is committed only when its fragment is durable.

Each action has one lemma per part that it can disturb; the queue, which is rotated before an entry is
served again, is seen through a map of its places (`Tried`), so that most lemmas do not speak of
sequences. The assumptions are `MessageServiceAssumption` and `MessageFileAssumption`.

`AudioGate_proofs` proves, for a ring of any length and any number of failures:

- `RailIsHeld`: `Spec => []RailHeld`;
- `SoundIsAudible`: `Spec => []Audible`.

`SoundInv` adds to `RailHeld` that what sounds has been published (core 0 reads `active`) and that a ring which is
queued or taken holds the rail. `PlumbingInv` ties the DMA to the gate; `CodecInv` says of a codec
without a clock, muted, or told to idle that the phone knows it, or that an excuse is on record. Its last
conjunct is the one that took the counterexamples to find: a wake-up which finds nothing to write clears the
flag of a codec that is up, unless a repair is pending. The assumption is `AudioGateAssumption`.

`ReceivedParts_proofs` proves, for any parts, messages, fault and failure limits:

- `ReportsAreDurable`: `Spec => []ProofIsDurable`;
- `MediumIsSpared`: `Spec => []Endurance`;
- `StoresKeepRecords`: `Spec => KeepsRecords`, the refinement of `PersistentRecords`.

The invariant says of a slot that a restart accepts it, that it is for one message at most, and that it is
whole as soon as it has as many parts as its message (`Sound`; that a whole slot has a rival for every further part is
the pigeonhole principle); of a unit that is available, that it is marked or the medium has what the RAM has (`Synced`);
of what is offered to the user, that it is whole in both (`Offered`); and of the engine's books that each refusal
was counted once (`Books`). The assumptions are `StoreCommitAssumption` and `ReceivedPartsAssumption`.

`ModemPower_proofs` proves, for any number of restarts, requests, faults and sounds:

- `LatestRequestHolds`: `Spec => []IntentKept`;
- `SupplyIsHeld`: `Spec => SupplyHeld`;
- `StartsFromCold`: `Spec => RestartsFromCold`.

All three follow from `PowerInvariant`, `Spec => []IInv`, whose parts are

- `CommandInv`, the states in which each command may be out or wait for a wake-up. Without it a late final could
  take a session from OFF into the ladder;
- `OffInv`: a request to switch off that waits is the latest one, and the service is where it will look at it: in
  a start that is not over yet, or in a read that cannot be aborted;
- `FailInv`: a ladder that was in vain leaves the UART parked and no command; a session that failed with nothing
  live holds no rail; the ladder parks the UART before its first pulse, on which the first of these rests;
- `RailInv`: no module without a rail, and a dwell that is over, with the rail not seen to move, means a rail that
  has discharged;
- `Intent`, which is `IntentKept` with two additions it needs to be inductive: no restart is queued behind a
  failure while "off" is wanted, and a ladder that was in vain has not been overtaken by a request.

A step of the service is a function of its record, so the lemmas come in two layers: what each C function makes of
the record (`FailLive`, `EnterOffFacts`, `TerminalFacts`, ...), and when the result may follow the state at hand
(`Right`, with `SameRight`, `MoveRight`, `FailRight`, `LeaveRight`, `OffRight`, `OnRight`, `TerminalRight`). Each
action is then a few cases. The assumption is `ModemPowerAssumption`.

`ChargeSupervisor_proofs` proves, for any capacity of the pack and any number of faults, resets and insertions
of the cable:

- `ConfirmedStopHolds`: `Spec => []StaysStopped`;
- `OnePulsePerFull`: `Spec => []OneRearmPerFull`;
- `DetachLetsGo`: `Spec => []DetachReleases`;
- `FullsAreEarned`: `Spec => []FullIsEarned`.

The first three follow from `SupervisorInvariant`, `Spec => []IInv`, which is needed because each property looks at
one of three copies of the record (the service's, the store's, the one on flash) and a reset falls back on another:

- `Journal`: what is not queued is in the store, what is not dirty is on flash;
- `Inhibit`: the supervisor's inhibit has a stop that is latched in all three copies, or a maintenance under way,
  or nothing latched and a release that is being retried; a maintenance that holds /CE is latched in all three;
- `ModelInv`: a model that waits for /CE has its stop latched, and one without a cable has no latch;
- `StopInv` and `SpentInv`: a confirmed stop, and a FULL that is spent, are so in all three copies;
- `GaugeInv`: the power-ups of the gauge and the generations of the learner's record stay below the resets, which
  the types need.

There is one lemma per part of `battery_charge_supervisor_update` (what it may make of the model and of its results,
`Made`), one per way the service changes its record (`TerminalGood`, `DetachGood`, `ArmGood`, `SettleGood`, ...),
`FinishKept` for what follows the supervisor in a turn, and one per kind of turn that shows that it hands over
what `FinishKept` needs (`Ready0`).

`FullsAreEarned` needs a second invariant, `Earning`, inductive beside `IInv`. A FULL is announced turns, stops and
resets after its basis was frozen, from whichever copy of the record the phone still has, so the invariant follows each
basis for as long as one of them holds it. As long as the phone has `lapsed` in neither way:

- `Sound`: what is yet to be counted for a basis is at most what the counter still has to move, as long as the pack is
  that of the freeze. A power-up of the gauge moves the counter to zero and makes the learner's next generation
  another one, so what the counter then says is about no older basis;
- `Carried`: every basis in the model or in a copy of the record is followed;
- `Counted`: a copy that is latched as FULL has a basis that is owed nothing;
- `Followed`: the model and the record stand on the same basis, and a model that is about to stop for FULL
  (`Granted`) has a basis that is owed nothing.

`ObserveSays` says what a turn sees of the pack and its counter, and the lemmas on `CoulombFull` that a count that reaches
its target on its own basis has been made; one lemma per part of the update says where the basis and the grounds of a
stop come from, `SettleSays` what the journal keeps of them. `TurnEarned` joins them for every kind of turn
(`RefusedEarned`, `MaintenanceEarned`, `RestoreEarned`, `ModelEarned`); `CountEarned` and `ResetEarned` are the
counter and the resets.

The assumptions are `NoneAssumption` (a frozen basis is never a number, so that
"no value" is told from every value), `CapAssumption` and `BudgetAssumption`.

`CallService_proofs` proves, for any call ids, slots, length of the queue, requests, calls and faults:

- `GivenUpStaysGivenUp`: `Spec => []NeverResurrected`;
- `PollKeepsLive`: `Spec => PollNeverDropsLive`;
- `DialsTakeTheirCall`: `Spec => BindsOwnCall`.

The first two follow from `IInvHolds`, `Spec => []IInv`, whose parts are

- `Commands`: as long as every command ended with its own answer, the modem owes the answer of the one command
  that is out and no other. A listing then reads its own rows, or none;
- `Calls`: a leg and the call under its id are the same call, no call has two legs, and calls are numbered in
  the order they came. Without it a call that was given up could be met again under another id;
- `Armed`: while nothing was cut short and no row missed, a leg that the last listing lacked has no call, since the modem gives an
  id to a new call only when the table does not use it. Two listings are needed to remove a leg and one missed row
  is the bound of the fault, so one of the two was complete;
- `GivenUp`: a leg that is RELEASING shows a call that was given up, and a call that was given up and goes on has
  its leg or was let go of.

The passes of the table over its slots and rows are folds in which each step sees what the one before it did. What a
fold keeps is proved by induction over the sizes of finite sets, a set of naturals that has 0 and with each number the next
(`NatSetInduction`, on the well-founded order of the naturals); a fold is seen as a function on the subsets
done so far (`IsFold`), with the steps named by one operator `Do`, so that no theorem takes an operator
(`FoldInduction`). Of each operator of `CallModel` one lemma says that it gives a table again and `Keeps` its legs; the
end of a limbo `Lets` some go, and only a `Listing` adds any. `NetMoves` says the same of the network. Every
action is then `Moved` (one lemma each), and `MovedKeeps` shows once that such a step keeps `IInv`.

`DialsTakeTheirCall` follows from `DInvHolds`, `Spec => []DInv`. A dial has no id until a leg appears that may be its
own, so it takes a leg by exclusion: it must have been made after the command was sent (the baseline), place a call,
and be claimed by nobody else. That the leg that is left is the dial's own needs, beside `IInv` and the shape of the
table (`Fit`, `Tidy`):

- `Tokens`, `SentOnes`, `QueueFits`: a token names one transaction, one dial at most is open, and what is queued
  was not sent;
- `Bases`: no leg of a dial's baseline is of its own call; `NoneFree`: every leg that places a call is in the baseline
  of the dials that wait, or has its dial; `Claimed`: no answer, hang-up or release goes by a leg that a dial could
  take;
- `Second`, `Strays`, `Orphans`: what a cancelled dial still waits for, and why a later dial meets it only when the table
  let go of it;
- `Sided` and `NetFit`: a leg is placed or received as its call is, and the network sets up or connects one call at a
  time, so that a listing shows at most one new leg that a dial could take.

A step either moves the table by operations that add no leg (`Shifts`) or reads a listing (`Lists`); `ShiftsKeep` and
`ListsKeep` show that each keeps the invariant, `ShiftsBind` and `ListsBind` that a leg taken in it is the
dial's own. The invariants are in `CallInvariant`. The assumptions are `CallModelAssumption` and `CallServiceAssumption`.

All inductive invariants also hold under TLC, with the constants of the runs of their modules.

What stays with TLC. Liveness under fairness is out of the prover's reach: `Recovered`, `RequestsAnswered`,
`CompleteIsPublished`, `PausesEnd`, `Settles` (of the gate and of the calls), `Persists`, `Converges`.
What `message_file_codec.c` computes from bytes is not modelled, so nothing is
proved about it either.

## Abstractions

- Fragments, texts and drafts are values; PDUs are never built or parsed. The
  24-hour window of `same_group` is part of what a group is.
- Backoff times and deadlines are open: a deferred entry may be tried again at any
  later tick. `s_status.full` and the counters that nothing reads are left out.
- The order of the indexes (by time, for display) is left out, and so are a LIST for more rows than its caller has room for
  (`message_service.c:269`) and a row that is read while the service is not ready (254).
- After a failure the indexes are represented as empty: nothing reads them before
  `reload` rebuilds them.
- Removals and attribute updates never report FULL, because `storage_lfs.c` keeps
  a recovery reserve for them.
- A damaged file is one whose checksum or attribute fails; damage happens at rest, its
  contents are no longer owed to anybody, and a file written anew is whole again.
- In `SmsRecovery` the media only grow: what the user deletes later is the message
  service's business. Text, ringtone and picture stores share one contract.
- The capacity reported by the modem is the true one; an impossible count is a
  garbled line.
- In `FlashAccess` memory is sequentially consistent (the code has a barrier at each
  access of the flags). Time is not counted. A command is what it does to the DMA;
  the queue, the codec chip and the clock change before a pause are left out, as is
  the failure of audio to initialise. The program or erase itself is one step that
  always succeeds, as `nvm_safe_exec` takes it.
- In `AudioGate` a command is what it starts or ends; time is not counted but for `QuietLong`; a modem side that does
  not stop, which every tick of the service stops again, is left out; the park of `FlashAccess` appears as one step
  that resumes what it stopped.
- In `StoreCommit` the medium of a unit is there, missing, damaged or dead from boot; a dead
  one fails with nothing written. In `ReceivedParts` the slot that a gallery or own melody takes
  in the same record, a part too large for the rest of a message and the texts are left out; the half hour after which
  parts expire may pass at any tick; which of two complete melodies is offered first is
  open.
- In `CallModel` events name no call (the Telit adapter never trusts their ids, so `modem_call_model.c:1520-1637` has
  no caller); directions are known from listings; dispatched, bound and uncertain transactions are one state, as they
  differ in how soon a listing is wanted; the bound leg and the target of a transaction are one field; the wrap of
  generations, result latches, the journal, a listing that the transport rejects though its rows were read (it counts
  as one that failed), the wait of a listing for a call command that the single wire gives anyway, a waiting call that
  was diverted, numbers and names, the back-off of polling, and a reset of the session are left out. Alerting is part
  of dialling.
- In `CallService` a pass hears at most one line, and starts nothing in the pass that heard one.
  The modem does not reuse an id that the table still holds (`call_model.md` section 8). Queue entries
  other than calls and the wake-up of a sleeping modem before a command are left out.
- In `ModemPower` start-up is one command to initialise, one setting to read and one to set, with one
  reboot; the completion pass of the SIM is left out. A false low of PWRMON is shorter than the 500 ms that
  qualify one. The deadline of the boot does not pass while the module is starting. The levels of CTS and RX are open; the wake-up by an
  SMS, the release of RI, session counters and diagnostics are left out.
- In `ChargeSupervisor` the policy is ENFORCE_ANCHORED. Of the learner only the generation of the pack and the session it is bound
  to are kept; its report is any report. Provisioning, an incompatible profile, the minute trace, the legacy
  shadow, the reuse of a generation after a bounce of the cable, and a store that is degraded
  (`battery_charge_supervisor_service.c:222`) are left out. A turn reads /CE again or not (`poll`), as the second of
  `charger_control_service_poll` is over or not.
- littlefs is trusted to make a rename and an attribute update atomic.

## Not modelled

Codecs, drawing, menus, games, chip drivers, audio synthesis and the gauge
arithmetic: sequential data transformation with good unit tests in the
repository. The diagnostic firmware images, the host tools, littlefs. See
`PROJECT.json` for each part and the reason.

## Plan

In this order, the most important first:

1. *(done)* `MessageFile`, `MessageService`, `DurableReceipt`, `SmsRecovery`, and
   the first proofs.
2. *(done)* `RuntimeWatchdog`, `FlashAccess` and their theorems.
3. *(done)* `AudioGate`; `StoreCommit`, `ReceivedParts` and `PersistentRecords`;
   `CallModel` and `CallService`.
4. *(done)* Theorems for `MessageService`, for the passes of `SmsRecovery`, for `AudioGate`, and for
   `ReceivedParts` on `StoreCommit`, with the two refinements.
5. *(done)* `ModemPower` and `ChargeSupervisor` with their theorems. So has `CallService`.
6. `StandbySleep`: blockers checked and sleep entered, wakes in between.
7. A third call id for `CallService`: a waiting call beside a held and an active one.
