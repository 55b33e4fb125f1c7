------------------------- MODULE FlashAccess_proofs -------------------------
(***************************************************************************)
(* Proofs about FlashAccess, for any number of units, stalls, faults and   *)
(* refusals: core 1 is held while the flash is down unless its park was    *)
(* raced, a pause leaves the audio as it found it, the watchdog's lease is *)
(* the right one, and the evidence after a reset is true.                  *)
(***************************************************************************)
EXTENDS FlashAccess, TLAPS

(* The watchdog follows core 0, and a lease is never armed without a phase. *)
DogInv ==
    /\ wd.depth = IF InFlash THEN 1 ELSE 0
    /\ LeaseMatches
    /\ wd.lease # "off" => /\ wd.phase = "flash" <=> InFlash
                           /\ wd.phase # "none"
    /\ EvidenceIsTrue

(* A flash call that waits for core 1, or has it, has something to do; and *)
(* only a launched core 1 is paused for sleep.                             *)
CallInv ==
    /\ c0 = "op" => why = "flash"
    /\ c0 = "dormant" => why = "sleep"
    /\ why = "sleep" /\ c0 # "run" => c1 # "off"
    /\ why = "flash" /\ c0 \in {"drain", "arm", "wait", "check", "withdraw", "held", "op"} =>
           left > 0

(* The two flags.  Core 1 leaves its spin while a request stands only if   *)
(* its acknowledgement was published before that request.                  *)
HandInv ==
    /\ parked <=> c1 \in {"spin", "resume"}
    /\ req => c0 \in {"wait", "check", "withdraw", "held", "op", "dormant", "release"}
    /\ c0 \in {"wait", "check", "withdraw"} => req
    /\ c0 \in {"held", "op", "dormant", "release"} => req \/ c1 = "off"
    /\ c0 \in {"drain", "arm", "wait", "check", "withdraw", "dormant"} => c1 # "off"
    /\ c1 = "off" => ~ req
    /\ c0 = "arm" /\ parked => raced
    /\ c0 \in {"wait", "check", "withdraw"} /\ c1 = "resume" => raced
    /\ c0 \in {"held", "op", "dormant", "release"} /\ ~ raced => c1 \in {"off", "spin"}

(* The two DMA sides, wherever core 1 is.                                  *)
AudioInv ==
    /\ ~ (gated /\ running)
    /\ c1 \in {"off", "init"} => ~ gated /\ ~ running
    /\ c1 \in {"off", "init", "ack", "spin", "resume"} =>
           codec = "stopped" /\ modem = "stopped"
    /\ c1 \in {"loop", "serve", "idle", "park"} =>
           /\ gated <=> codec = "stopped"
           /\ running <=> modem # "stopped"

IInv == TypeOK /\ DogInv /\ CallInv /\ HandInv /\ AudioInv

-----------------------------------------------------------------------------
LEMMA InitInvariant == Init => IInv
<1> SUFFICES ASSUME Init PROVE IInv
  OBVIOUS
<1>1. TypeOK
  <2>1. wd \in Watchdog /\ evidence \in Evidence
    BY DEF Init, Watchdog, Evidence, Leases, Phases, DepthLimit
  <2>2. lastReset \in [timeout : BOOLEAN, flash : BOOLEAN]
    BY DEF Init
  <2>3. /\ left \in 0 .. MaxUnits /\ streak \in 0 .. StreakLimit - 1
        /\ stalls \in 0 .. MaxStalls /\ faults \in 0 .. MaxFaults
    BY FlashAccessAssumption DEF Init
  <2> QED
    BY <2>1, <2>2, <2>3, Zenon DEF Init, TypeOK, Dma, Core0Points, Core1Points
<1>2. DogInv /\ CallInv /\ HandInv /\ AudioInv
  BY DEF Init, DogInv, CallInv, HandInv, AudioInv, InFlash, LeaseMatches, EvidenceIsTrue
<1> QED
  BY <1>1, <1>2 DEF IInv

(* A reset, of the watchdog's making only if a lease was armed.            *)
LEMMA ResetStep ==
  ASSUME IInv, NEW timeout \in BOOLEAN, timeout => wd.lease # "off", Reset(timeout)
  PROVE  IInv'
<1>1. /\ wd \in Watchdog /\ wd.phase \in Phases /\ InFlash \in BOOLEAN
      /\ stalls \in 0 .. MaxStalls /\ faults \in 0 .. MaxFaults
  BY DEF IInv, TypeOK, Watchdog, InFlash
<1>2. /\ wd'.depth = 0 /\ wd'.lease = "off" /\ wd'.started = FALSE
      /\ wd' \in Watchdog
  BY <1>1 DEF Reset, Captured, Watchdog, Leases, DepthLimit
<1>3. /\ evidence' \in Evidence
      /\ evidence'.timeout = timeout
      /\ evidence'.phase = IF timeout THEN wd.phase ELSE "none"
  BY <1>1 DEF Reset, CapturedEvidence, Evidence, Phases
<1>4. lastReset' \in [timeout : BOOLEAN, flash : BOOLEAN]
      /\ lastReset'.timeout = timeout /\ lastReset'.flash = InFlash
  BY <1>1, Zenon DEF Reset
<1>5. TypeOK'
  <2>1. /\ left' \in 0 .. MaxUnits /\ streak' \in 0 .. StreakLimit - 1
        /\ stalls' \in 0 .. MaxStalls /\ faults' \in 0 .. MaxFaults
    BY <1>1, FlashAccessAssumption DEF Reset
  <2> QED
    BY <1>2, <1>3, <1>4, <2>1, Zenon DEF Reset, TypeOK, Dma, Core0Points, Core1Points
<1>6. EvidenceIsTrue'
  BY <1>3, <1>4 DEF IInv, DogInv, EvidenceIsTrue
<1>7. DogInv'
  BY <1>2, <1>6 DEF Reset, DogInv, InFlash, LeaseMatches
<1>8. CallInv' /\ HandInv' /\ AudioInv'
  BY DEF Reset, CallInv, HandInv, AudioInv
<1> QED
  BY <1>5, <1>7, <1>8 DEF IInv

-----------------------------------------------------------------------------
(* Steps that touch neither the watchdog nor the audio.                    *)
LEMMA QuietStep ==
  ASSUME IInv, UNCHANGED <<audio, dog, why>>, InFlash' = InFlash
  PROVE  DogInv'
BY DEF IInv, DogInv, dog, audio, LeaseMatches, EvidenceIsTrue

LEMMA IdleStep == IInv /\ Idle => IInv'
<1> SUFFICES ASSUME IInv, Idle PROVE IInv'
  OBVIOUS
<1> USE DEF core0, audio, dog, env
<1>1. CASE CoreOneStart
  <2>1. TypeOK'
    BY <1>1 DEF IInv, TypeOK, CoreOneStart, Core1Points
  <2>2. DogInv' /\ CallInv' /\ HandInv' /\ AudioInv'
    BY <1>1 DEF IInv, CoreOneStart, DogInv, CallInv, HandInv, AudioInv, InFlash,
       LeaseMatches, EvidenceIsTrue
  <2> QED
    BY <2>1, <2>2 DEF IInv
<1>2. CASE WatchdogStart
  <2>1. /\ wd' \in Watchdog
        /\ wd'.depth = wd.depth /\ wd'.lease = "main" /\ wd'.phase = "boot"
        /\ wd'.started = TRUE
    BY <1>2 DEF IInv, TypeOK, WatchdogStart, Started, Watchdog, Leases, Phases
  <2>2. TypeOK'
    BY <1>2, <2>1 DEF IInv, TypeOK, WatchdogStart
  <2>3. DogInv' /\ CallInv' /\ HandInv' /\ AudioInv'
    BY <1>2, <2>1 DEF IInv, WatchdogStart, DogInv, CallInv, HandInv, AudioInv, InFlash,
       LeaseMatches, EvidenceIsTrue
  <2> QED
    BY <2>2, <2>3 DEF IInv
<1>3. CASE Post
  <2>1. TypeOK'
    BY <1>3 DEF IInv, TypeOK, Post
  <2>2. DogInv' /\ CallInv' /\ HandInv' /\ AudioInv'
    BY <1>3 DEF IInv, Post, DogInv, CallInv, HandInv, AudioInv, InFlash,
       LeaseMatches, EvidenceIsTrue
  <2> QED
    BY <2>1, <2>2 DEF IInv
<1>4. CASE Change
  <2>1. TypeOK'
    BY <1>4 DEF IInv, TypeOK, Change
  <2>2. DogInv' /\ CallInv' /\ HandInv' /\ AudioInv'
    BY <1>4 DEF IInv, Change, DogInv, CallInv, HandInv, AudioInv, InFlash,
       LeaseMatches, EvidenceIsTrue
  <2> QED
    BY <2>1, <2>2 DEF IInv
<1>5. CASE SleepTick
  <2>1. c1 # "off" /\ c0' = "drain" /\ why' = "sleep" /\ c0 = "run"
    BY <1>5 DEF SleepTick, StandbyReady, PauseBegin
  <2>2. TypeOK'
    BY <1>5, <2>1 DEF IInv, TypeOK, SleepTick, Core0Points
  <2>3. DogInv' /\ CallInv' /\ HandInv' /\ AudioInv'
    BY <1>5, <2>1 DEF IInv, SleepTick, DogInv, CallInv, HandInv, AudioInv, InFlash,
       LeaseMatches, EvidenceIsTrue
  <2> QED
    BY <2>2, <2>3 DEF IInv
<1>6. CASE \E phase \in NotedPhases : NotePhase(phase)
  <2>1. PICK phase \in NotedPhases : NotePhase(phase)
    BY <1>6
  <2>2. phase \in Phases /\ phase # "none" /\ phase # "flash"
    BY FlashAccessAssumption
  <2>3. wd.depth = 0 /\ wd.started
    BY <2>1 DEF IInv, DogInv, InFlash, NotePhase
  <2>4. /\ wd' \in Watchdog
        /\ wd'.depth = wd.depth /\ wd'.lease = wd.lease /\ wd'.phase = phase
        /\ wd'.started = wd.started
    BY <2>1, <2>2, <2>3 DEF IInv, TypeOK, NotePhase, Noted, Watchdog
  <2>5. TypeOK'
    BY <2>1, <2>4 DEF IInv, TypeOK, NotePhase
  <2>6. DogInv' /\ CallInv' /\ HandInv' /\ AudioInv'
    BY <2>1, <2>2, <2>4 DEF IInv, NotePhase, DogInv, CallInv, HandInv, AudioInv, InFlash,
       LeaseMatches, EvidenceIsTrue
  <2> QED
    BY <2>5, <2>6 DEF IInv
<1> QED
  BY <1>1, <1>2, <1>3, <1>4, <1>5, <1>6 DEF Idle

(* A refused pause.                                                        *)
LEMMA RefuseStep ==
  ASSUME IInv, NEW r \in BOOLEAN, Refuse(r), r => req,
         \/ c0 = "drain" /\ r = req
         \/ c0 = "withdraw" /\ r = FALSE
  PROVE  IInv'
<1> USE DEF core0, audio, dog, env
<1>1. CASE why = "flash" /\ GivesUp
  <2>1. Reset(FALSE)
    BY <1>1 DEF Refuse
  <2> QED
    BY <2>1, ResetStep
<1>2. CASE ~ (why = "flash" /\ GivesUp)
  <2> DEFINE Quiet == /\ c0' = "run" /\ left' = 0 /\ req' = r
                      /\ streak' = IF why = "flash" THEN Streak ELSE streak
                      /\ UNCHANGED <<why, dirty, parked, event, c1, audio, dog, env, raced>>
  <2>1. Quiet
    BY <1>2 DEF Refuse
  <2>2. streak' \in 0 .. StreakLimit - 1 /\ left' \in 0 .. MaxUnits
    BY <1>2, <2>1, FlashAccessAssumption DEF GivesUp, Streak, IInv, TypeOK
  <2>3. TypeOK'
    BY <2>1, <2>2, Zenon DEF IInv, TypeOK, Core0Points
  <2>4. ~ req'
    BY <2>1 DEF IInv, HandInv
  <2>5. DogInv'
    BY <2>1 DEF IInv, DogInv, InFlash, LeaseMatches, EvidenceIsTrue
  <2>6. CallInv' /\ HandInv' /\ AudioInv'
    BY <2>1, <2>4 DEF IInv, CallInv, HandInv, AudioInv
  <2> QED
    BY <2>3, <2>5, <2>6 DEF IInv
<1> QED
  BY <1>1, <1>2

LEMMA PauseStep ==
  ASSUME IInv,
         \/ StoreTick \/ Drained \/ DrainTimeout \/ Arm \/ Acked
         \/ WaitTimeout \/ Check \/ Withdraw
  PROVE  IInv'
<1> USE DEF core0, audio, dog, env
<1>1. CASE StoreTick
  <2>1. /\ c0 = "run" /\ c0' = IF c1 = "off" THEN "held" ELSE "drain"
        /\ why' = "flash" /\ left' \in 1 .. MaxUnits
    BY <1>1 DEF StoreTick, PauseBegin
  <2>2. left' \in 0 .. MaxUnits /\ left' > 0
    BY <2>1, FlashAccessAssumption
  <2>3. TypeOK'
    BY <1>1, <2>1, <2>2 DEF IInv, TypeOK, StoreTick, Core0Points
  <2>4. DogInv' /\ CallInv' /\ HandInv' /\ AudioInv'
    BY <1>1, <2>1, <2>2 DEF IInv, StoreTick, DogInv, CallInv, HandInv, AudioInv,
       InFlash, LeaseMatches, EvidenceIsTrue
  <2> QED
    BY <2>3, <2>4 DEF IInv
<1>2. CASE Drained
  <2>1. TypeOK'
    BY <1>2 DEF IInv, TypeOK, Drained, Core0Points
  <2>2. DogInv' /\ CallInv' /\ HandInv' /\ AudioInv'
    BY <1>2 DEF IInv, Drained, NoResidue, DogInv, CallInv, HandInv, AudioInv,
       InFlash, LeaseMatches, EvidenceIsTrue
  <2> QED
    BY <2>1, <2>2 DEF IInv
<1>3. CASE DrainTimeout
  <2>1. c0 = "drain" /\ Refuse(req) /\ req \in BOOLEAN
    BY <1>3 DEF DrainTimeout, IInv, TypeOK
  <2> QED
    BY <2>1, RefuseStep
<1>4. CASE Arm
  <2>1. TypeOK'
    BY <1>4 DEF IInv, TypeOK, Arm, Core0Points
  <2>2. DogInv' /\ CallInv' /\ HandInv' /\ AudioInv'
    BY <1>4 DEF IInv, Arm, DogInv, CallInv, HandInv, AudioInv,
       InFlash, LeaseMatches, EvidenceIsTrue
  <2> QED
    BY <2>1, <2>2 DEF IInv
<1>5. CASE Acked
  <2>1. TypeOK'
    BY <1>5 DEF IInv, TypeOK, Acked, Core0Points
  <2>2. DogInv' /\ CallInv' /\ HandInv' /\ AudioInv'
    BY <1>5 DEF IInv, Acked, DogInv, CallInv, HandInv, AudioInv,
       InFlash, LeaseMatches, EvidenceIsTrue
  <2> QED
    BY <2>1, <2>2 DEF IInv
<1>6. CASE WaitTimeout
  <2>1. TypeOK'
    BY <1>6 DEF IInv, TypeOK, WaitTimeout, Core0Points
  <2>2. DogInv' /\ CallInv' /\ HandInv' /\ AudioInv'
    BY <1>6 DEF IInv, WaitTimeout, DogInv, CallInv, HandInv, AudioInv,
       InFlash, LeaseMatches, EvidenceIsTrue
  <2> QED
    BY <2>1, <2>2 DEF IInv
<1>7. CASE Check
  <2>1. TypeOK'
    BY <1>7 DEF IInv, TypeOK, Check, Core0Points
  <2>2. DogInv' /\ CallInv' /\ HandInv' /\ AudioInv'
    BY <1>7 DEF IInv, Check, DogInv, CallInv, HandInv, AudioInv,
       InFlash, LeaseMatches, EvidenceIsTrue
  <2> QED
    BY <2>1, <2>2 DEF IInv
<1>8. CASE Withdraw
  <2>1. c0 = "withdraw" /\ Refuse(FALSE)
    BY <1>8 DEF Withdraw
  <2> QED
    BY <2>1, RefuseStep
<1> QED
  BY <1>1, <1>2, <1>3, <1>4, <1>5, <1>6, <1>7, <1>8

-----------------------------------------------------------------------------
(* The values of the watchdog.                                             *)
LEMMA MainLeaseBack ==
  ASSUME NEW w \in Watchdog, NEW v,
         v = [w EXCEPT !.depth = 0, !.lease = "main", !.phase = "main"]
  PROVE  /\ v \in Watchdog
         /\ v.depth = 0 /\ v.lease = "main" /\ v.phase = "main"
         /\ v.started = w.started
<1>1. 0 \in 0 .. DepthLimit /\ "main" \in Leases /\ "main" \in Phases
  BY DEF DepthLimit, Leases, Phases
<1>2. v \in Watchdog
  BY <1>1, Zenon DEF Watchdog
<1>3. /\ v.depth = 0 /\ v.lease = "main" /\ v.phase = "main"
      /\ v.started = w.started
  BY Zenon DEF Watchdog
<1> QED
  BY <1>2, <1>3

LEMMA LeaseOff ==
  ASSUME NEW w \in Watchdog, NEW v,
         v = [w EXCEPT !.depth = 0, !.lease = "off"]
  PROVE  /\ v \in Watchdog
         /\ v.depth = 0 /\ v.lease = "off" /\ v.started = w.started
<1>1. 0 \in 0 .. DepthLimit /\ "off" \in Leases
  BY DEF DepthLimit, Leases
<1>2. v \in Watchdog
  BY <1>1, Zenon DEF Watchdog
<1>3. /\ v.depth = 0 /\ v.lease = "off" /\ v.started = w.started
  BY Zenon DEF Watchdog
<1> QED
  BY <1>2, <1>3

-----------------------------------------------------------------------------
(* Core 0 has core 1.                                                      *)
LEMMA HeldStep ==
  ASSUME IInv,
         \/ FlashBegin \/ FlashOp \/ SleepRecheck \/ SleepEnd \/ Release
         \/ Unparked \/ UnparkTimeout
  PROVE  IInv'
<1> USE DEF core0, audio, dog, env
<1>1. CASE FlashBegin
  <2>1. wd \in Watchdog /\ wd.depth = 0
    BY <1>1 DEF IInv, TypeOK, DogInv, InFlash, FlashBegin
  <2>2. /\ wd' \in Watchdog
        /\ wd'.depth = 1 /\ wd'.lease = "flash" /\ wd'.phase = "flash"
        /\ wd'.started = wd.started
    <3>1. wd' = [wd EXCEPT !.depth = 1, !.lease = "flash", !.phase = "flash"]
      BY <1>1, <2>1 DEF FlashBegin, FlashBegun
    <3>2. 1 \in 0 .. DepthLimit /\ "flash" \in Leases /\ "flash" \in Phases
      BY DEF DepthLimit, Leases, Phases
    <3>3. wd' \in Watchdog
      BY <2>1, <3>1, <3>2, Zenon DEF Watchdog
    <3>4. /\ wd'.depth = 1 /\ wd'.lease = "flash" /\ wd'.phase = "flash"
          /\ wd'.started = wd.started
      BY <2>1, <3>1, Zenon DEF Watchdog
    <3> QED
      BY <3>3, <3>4
  <2>3. streak' \in 0 .. StreakLimit - 1
    BY <1>1, FlashAccessAssumption DEF FlashBegin
  <2>4. TypeOK'
    BY <1>1, <2>2, <2>3 DEF IInv, TypeOK, FlashBegin, Core0Points
  <2>5. DogInv' /\ CallInv' /\ HandInv' /\ AudioInv'
    BY <1>1, <2>2 DEF IInv, FlashBegin, DogInv, CallInv, HandInv, AudioInv,
       InFlash, LeaseMatches, EvidenceIsTrue
  <2> QED
    BY <2>4, <2>5 DEF IInv
<1>2. CASE FlashOp
  <2>1. /\ InFlash /\ InFlash' /\ left > 0 /\ wd \in Watchdog
        /\ wd.depth = 1 /\ wd.lease = "flash" /\ wd.phase = "flash"
    BY <1>2 DEF IInv, TypeOK, CallInv, DogInv, InFlash, LeaseMatches, FlashOp
  <2>2. wd' = [wd EXCEPT !.phase = "flash"]
    BY <1>2, <2>1 DEF FlashOp, Checkpointed
  <2>3. /\ wd' \in Watchdog
        /\ wd'.depth = 1 /\ wd'.lease = "flash" /\ wd'.phase = "flash"
        /\ wd'.started = wd.started
    <3>1. "flash" \in Phases
      BY DEF Phases
    <3>2. wd' \in Watchdog
      BY <2>1, <2>2, <3>1, Zenon DEF Watchdog
    <3>3. /\ wd'.depth = wd.depth /\ wd'.lease = wd.lease /\ wd'.phase = "flash"
          /\ wd'.started = wd.started
      BY <2>1, <2>2, Zenon DEF Watchdog
    <3> QED
      BY <2>1, <3>2, <3>3
  <2>4. left' \in 0 .. MaxUnits
    BY <1>2, <2>1, FlashAccessAssumption DEF FlashOp, IInv, TypeOK
  <2>5. TypeOK'
    BY <1>2, <2>3, <2>4 DEF IInv, TypeOK, FlashOp, Core0Points
  <2>6. DogInv'
    BY <1>2, <2>1, <2>3 DEF IInv, FlashOp, DogInv, LeaseMatches, EvidenceIsTrue
  <2>7. CallInv' /\ HandInv' /\ AudioInv'
    BY <1>2 DEF IInv, FlashOp, CallInv, HandInv, AudioInv
  <2> QED
    BY <2>5, <2>6, <2>7 DEF IInv
<1>3. CASE SleepRecheck
  <2>1. TypeOK'
    BY <1>3 DEF IInv, TypeOK, SleepRecheck, Core0Points
  <2>2. c0 = "held" /\ why = "sleep" /\ c0' \in {"dormant", "release"} /\ c1 # "off"
    BY <1>3 DEF SleepRecheck, IInv, CallInv
  <2>3. DogInv'
    BY <1>3, <2>2, QuietStep DEF SleepRecheck, InFlash
  <2>4. CallInv' /\ AudioInv'
    BY <1>3, <2>2 DEF IInv, SleepRecheck, CallInv, AudioInv
  <2>5. HandInv'
    BY <1>3, <2>2 DEF IInv, SleepRecheck, HandInv
  <2> QED
    BY <2>1, <2>3, <2>4, <2>5 DEF IInv
<1>4. CASE SleepEnd
  <2>1. TypeOK'
    BY <1>4 DEF IInv, TypeOK, SleepEnd, Core0Points
  <2>2. DogInv' /\ CallInv' /\ HandInv' /\ AudioInv'
    BY <1>4 DEF IInv, SleepEnd, DogInv, CallInv, HandInv, AudioInv,
       InFlash, LeaseMatches, EvidenceIsTrue
  <2> QED
    BY <2>1, <2>2 DEF IInv
<1>5. CASE Release
  <2>1. TypeOK'
    BY <1>5 DEF IInv, TypeOK, Release, Core0Points
  <2>2. DogInv'
    BY <1>5, QuietStep DEF Release, InFlash
  <2>3. CallInv' /\ AudioInv'
    BY <1>5 DEF IInv, Release, CallInv, AudioInv
  <2>4. HandInv'
    BY <1>5 DEF IInv, Release, HandInv
  <2> QED
    BY <2>1, <2>2, <2>3, <2>4 DEF IInv
<1>6. CASE Unparked /\ why = "flash"
  <2>1. /\ InFlash /\ wd \in Watchdog /\ wd.depth = 1 /\ wd.phase = "flash"
        /\ wd.lease = "flash"
    BY <1>6 DEF IInv, TypeOK, DogInv, InFlash, LeaseMatches, Unparked
  <2>2. /\ wd' \in Watchdog
        /\ wd'.depth = 0 /\ wd'.started = wd.started
        /\ wd.started => wd'.lease = "main" /\ wd'.phase = "main"
        /\ ~ wd.started => wd'.lease = "off"
    <3>1. wd' = FlashEnded(wd)
      BY <1>6 DEF Unparked
    <3>2. CASE wd.started
      <4>1. wd' = [wd EXCEPT !.depth = 0, !.lease = "main", !.phase = "main"]
        BY <2>1, <3>1, <3>2 DEF FlashEnded
      <4> QED
        BY <2>1, <4>1, <3>2, MainLeaseBack
    <3>3. CASE ~ wd.started
      <4>1. wd' = [wd EXCEPT !.depth = 0, !.lease = "off"]
        BY <2>1, <3>1, <3>3 DEF FlashEnded
      <4> QED
        BY <2>1, <4>1, <3>3, LeaseOff
    <3> QED
      BY <3>2, <3>3
  <2>3. /\ c0 = "unpark" /\ ~ parked /\ dirty' \in BOOLEAN
        /\ c0' \in {"held", "drain", "run"}
        /\ c0' = "held" => c1 = "off"
        /\ c0' = "drain" => c1 # "off"
        /\ c0' # "run" => left > 0
    BY <1>6, Zenon DEF Unparked, PauseBegin, IInv, TypeOK
  <2>4. TypeOK'
    BY <1>6, <2>2, <2>3 DEF IInv, TypeOK, Unparked, Core0Points
  <2>5. DogInv'
    <3>1. ~ InFlash'
      BY <2>3 DEF InFlash
    <3> QED
      BY <1>6, <2>2, <3>1 DEF IInv, DogInv, Unparked, LeaseMatches, EvidenceIsTrue
  <2>6. CallInv' /\ HandInv' /\ AudioInv'
    BY <1>6, <2>3 DEF IInv, Unparked, CallInv, HandInv, AudioInv
  <2> QED
    BY <2>4, <2>5, <2>6 DEF IInv
<1>7. CASE Unparked /\ why = "sleep"
  <2>1. c0 = "unpark" /\ c0' = "run" /\ wd' = wd /\ dirty' \in BOOLEAN
    BY <1>7 DEF Unparked
  <2>2. TypeOK'
    BY <1>7, <2>1 DEF IInv, TypeOK, Unparked, Core0Points
  <2>3. DogInv' /\ CallInv' /\ HandInv' /\ AudioInv'
    BY <1>7, <2>1 DEF IInv, Unparked, DogInv, CallInv, HandInv, AudioInv,
       InFlash, LeaseMatches, EvidenceIsTrue
  <2> QED
    BY <2>2, <2>3 DEF IInv
<1>8. CASE UnparkTimeout
  BY <1>8, ResetStep DEF UnparkTimeout
<1> QED
  BY <1>1, <1>2, <1>3, <1>4, <1>5, <1>6, <1>7, <1>8 DEF IInv, TypeOK

-----------------------------------------------------------------------------
(* Core 1: its moves through the handshake.                                *)
LEMMA LoopStep ==
  ASSUME IInv, Look \/ Ack \/ LeaveSpin \/ Wake
  PROVE  IInv'
<1> USE DEF core0, audio, dog, env
<1>1. CASE Look
  <2>1. TypeOK'
    BY <1>1 DEF IInv, TypeOK, Look, Core1Points
  <2>2. DogInv'
    BY <1>1, QuietStep DEF Look, InFlash
  <2>3. CallInv' /\ HandInv' /\ AudioInv'
    BY <1>1 DEF IInv, Look, CallInv, HandInv, AudioInv
  <2> QED
    BY <2>1, <2>2, <2>3 DEF IInv
<1>2. CASE Ack
  <2>1. raced' \in BOOLEAN
    BY <1>2, Zenon DEF Ack
  <2>2. TypeOK'
    BY <1>2, <2>1 DEF IInv, TypeOK, Ack, Core1Points
  <2>3. DogInv'
    BY <1>2, QuietStep DEF Ack, InFlash
  <2>4. CallInv' /\ HandInv' /\ AudioInv'
    BY <1>2 DEF IInv, Ack, CallInv, HandInv, AudioInv
  <2> QED
    BY <2>2, <2>3, <2>4 DEF IInv
<1>3. CASE LeaveSpin
  <2>1. TypeOK'
    BY <1>3 DEF IInv, TypeOK, LeaveSpin, Core1Points
  <2>2. DogInv'
    BY <1>3, QuietStep DEF LeaveSpin, InFlash
  <2>3. CallInv' /\ HandInv' /\ AudioInv'
    BY <1>3 DEF IInv, LeaveSpin, CallInv, HandInv, AudioInv
  <2> QED
    BY <2>1, <2>2, <2>3 DEF IInv
<1>4. CASE Wake
  <2>1. TypeOK'
    BY <1>4 DEF IInv, TypeOK, Wake, Core1Points
  <2>2. DogInv'
    BY <1>4, QuietStep DEF Wake, InFlash
  <2>3. CallInv' /\ HandInv' /\ AudioInv'
    BY <1>4 DEF IInv, Wake, CallInv, HandInv, AudioInv
  <2> QED
    BY <2>1, <2>2, <2>3 DEF IInv
<1> QED
  BY <1>1, <1>2, <1>3, <1>4

(* A step of core 1 that moves it between points outside the park, or into *)
(* the acknowledgement, and leaves the two sides as AudioInv wants them.   *)
LEMMA SideStep ==
  ASSUME IInv,
         c1 \in {"init", "park", "serve", "resume"},
         c1' \in {"loop", "idle", "serve", "ack"},
         c1 = "resume" => parked' = FALSE,
         c1 # "resume" => parked' = parked,
         UNCHANGED <<core0, req, event, dog, raced>>,
         stalled' = stalled, stalls' = stalls, refused' \in BOOLEAN,
         faults' \in 0 .. MaxFaults,
         gated' \in BOOLEAN, running' \in BOOLEAN, codec' \in Dma, modem' \in Dma,
         AudioInv'
  PROVE  IInv'
<1> USE DEF core0, dog
<1>1. TypeOK'
  BY Zenon DEF IInv, TypeOK, Core1Points
<1>2. DogInv'
  BY DEF IInv, DogInv, InFlash, LeaseMatches, EvidenceIsTrue
<1>3. CallInv'
  BY DEF IInv, CallInv
<1>4. HandInv'
  BY DEF IInv, TypeOK, HandInv
<1> QED
  BY <1>1, <1>2, <1>3, <1>4 DEF IInv

(* What a quiesce and a resume can leave, and the count of the faults.     *)
LEMMA Sides ==
  ASSUME IInv
  PROVE  /\ Quiesced \subseteq {"stopped", "stuck"}
         /\ \A s \in Dma : Resumed(s) \in {"live", "stuck"}
         /\ \A c, m \in Dma : FaultsAfter(c, m) \in 0 .. MaxFaults
<1>1. faults \in 0 .. MaxFaults /\ MaxFaults \in Nat
  BY FlashAccessAssumption DEF IInv, TypeOK
<1>2. \A c, m \in Dma : FaultsAfter(c, m) \in 0 .. MaxFaults
  <2> TAKE c \in Dma, m \in Dma
  <2>1. CASE "stuck" \in {c, m} /\ faults < MaxFaults
    BY <1>1, <2>1 DEF FaultsAfter
  <2>2. CASE ~ ("stuck" \in {c, m} /\ faults < MaxFaults)
    BY <1>1, <2>2 DEF FaultsAfter
  <2> QED
    BY <2>1, <2>2
<1>3. Quiesced \subseteq {"stopped", "stuck"}
  BY DEF Quiesced
<1>4. \A s \in Dma : Resumed(s) \in {"live", "stuck"}
  BY DEF Resumed
<1> QED
  BY <1>2, <1>3, <1>4

LEMMA ParkStep == IInv /\ (CoreOneInit \/ ParkQuiesce \/ Unpark) => IInv'
<1> SUFFICES ASSUME IInv, CoreOneInit \/ ParkQuiesce \/ Unpark PROVE IInv'
  OBVIOUS
<1> USE DEF core0, audio, dog, env
<1>1. TypeOK /\ HandInv /\ AudioInv
  BY DEF IInv
<1>2. CASE CoreOneInit
  <2>1. AudioInv'
    BY <1>1, <1>2 DEF CoreOneInit, AudioInv
  <2>2. codec' \in Dma
    BY <1>2 DEF CoreOneInit, Dma
  <2> QED
    BY <1>1, <1>2, <2>1, <2>2, SideStep, Zenon DEF CoreOneInit, TypeOK
<1>3. CASE ParkQuiesce
  <2>1. PICK c \in (IF gated THEN {codec} ELSE Quiesced),
             m \in (IF running THEN Quiesced ELSE {modem}) :
          /\ IF "stuck" \in {c, m}
             THEN /\ codec' = IF ~ gated /\ c = "stopped" THEN Resumed(c) ELSE c
                  /\ modem' = IF running /\ m = "stopped" THEN Resumed(m) ELSE m
                  /\ refused' = TRUE /\ c1' = "serve"
             ELSE /\ codec' = c /\ modem' = m
                  /\ refused' = refused /\ c1' = "ack"
          /\ faults' = FaultsAfter(c, m)
    BY <1>3, Zenon DEF ParkQuiesce
  <2>2. /\ c1 = "park"
        /\ UNCHANGED <<core0, req, parked, event, gated, running, dog, stalled, stalls, raced>>
    BY <1>3 DEF ParkQuiesce
  <2>3. /\ c \in {"stopped", "stuck"} /\ m \in {"stopped", "stuck"}
        /\ gated => c = "stopped"
        /\ ~ running => m = "stopped"
    BY <1>1, <2>1, <2>2, Sides DEF AudioInv
  <2>4. c \in Dma /\ m \in Dma
    BY <2>3 DEF Dma
  <2>5. faults' \in 0 .. MaxFaults
    BY <2>1, <2>4, Sides
  <2>6. CASE "stuck" \in {c, m}
    <3>1. /\ codec' = IF ~ gated /\ c = "stopped" THEN Resumed(c) ELSE c
          /\ modem' = IF running /\ m = "stopped" THEN Resumed(m) ELSE m
          /\ refused' = TRUE /\ c1' = "serve"
      BY <2>1, <2>6
    <3>2. /\ codec' \in Dma /\ modem' \in Dma
          /\ gated <=> codec' = "stopped"
          /\ running <=> modem' # "stopped"
      BY <1>1, <2>3, <3>1 DEF Resumed, Dma, TypeOK
    <3>3. AudioInv'
      BY <1>1, <2>2, <3>1, <3>2 DEF AudioInv
    <3> QED
      BY <1>1, <2>2, <2>5, <3>1, <3>2, <3>3, SideStep, Zenon DEF TypeOK
  <2>7. CASE ~ ("stuck" \in {c, m})
    <3>1. codec' = "stopped" /\ modem' = "stopped" /\ refused' = refused /\ c1' = "ack"
      BY <2>1, <2>3, <2>7
    <3>2. AudioInv'
      BY <1>1, <2>2, <3>1 DEF AudioInv
    <3>3. codec' \in Dma /\ modem' \in Dma
      BY <3>1 DEF Dma
    <3> QED
      BY <1>1, <2>2, <2>5, <3>1, <3>2, <3>3, SideStep, Zenon DEF TypeOK
  <2> QED
    BY <2>6, <2>7
<1>4. CASE Unpark
  <2>1. /\ c1 = "resume" /\ c1' = "serve" /\ parked' = FALSE
        /\ codec = "stopped" /\ modem = "stopped"
        /\ UNCHANGED <<core0, req, event, gated, running, dog, env, raced>>
    BY <1>1, <1>4 DEF Unpark, AudioInv
  <2>2. /\ codec' \in Dma /\ modem' \in Dma
        /\ gated <=> codec' = "stopped"
        /\ running <=> modem' # "stopped"
    BY <1>4, <2>1 DEF Unpark, CodecAfter, Resumed, Dma
  <2>3. AudioInv'
    BY <1>1, <2>1, <2>2 DEF AudioInv
  <2> QED
    BY <1>1, <2>1, <2>2, <2>3, SideStep, Zenon DEF TypeOK
<1> QED
  BY <1>2, <1>3, <1>4

(* Core 1: what its commands and its tick do to the two sides.             *)
LEMMA ServeStep == IInv /\ Serve => IInv'
<1> SUFFICES ASSUME IInv, Serve PROVE IInv'
  OBVIOUS
<1> USE DEF core0, audio, dog, env
<1>1. /\ TypeOK /\ AudioInv
      /\ c1 = "serve" /\ c1' \in {"loop", "idle"}
      /\ UNCHANGED <<core0, req, parked, event, dog, stalled, refused, stalls, raced>>
  BY DEF IInv, Serve
<1>2. /\ gated <=> codec = "stopped"
      /\ running <=> modem # "stopped"
      /\ ~ (gated /\ running)
      /\ codec \in Dma /\ modem \in Dma /\ gated \in BOOLEAN /\ running \in BOOLEAN
      /\ faults \in 0 .. MaxFaults
  BY <1>1 DEF AudioInv, TypeOK
<1> DEFINE Fine ==
      /\ gated' \in BOOLEAN /\ running' \in BOOLEAN
      /\ codec' \in Dma /\ modem' \in Dma /\ faults' \in 0 .. MaxFaults
      /\ gated' <=> codec' = "stopped"
      /\ running' <=> modem' # "stopped"
      /\ ~ (gated' /\ running')
<1>9. Fine
  <2>3. CASE Gate
    <3>1. /\ gated' = (codec' = "stopped") /\ ~ running /\ running' = running /\ modem' = modem
          /\ codec' \in {"stopped", "stuck"} /\ faults' = FaultsAfter(codec', modem)
      BY <2>3, Sides DEF Gate
    <3>2. codec' \in Dma
      BY <3>1 DEF Dma
    <3>3. faults' \in 0 .. MaxFaults
      BY <1>2, <3>1, <3>2, Sides
    <3> QED
      BY <1>2, <3>1, <3>2, <3>3, Zenon
  <2>4. CASE Sound
    <3>1. Resumed(codec) = "live"
      BY <1>2, <2>4 DEF Sound, Resumed
    <3>2. gated' = FALSE /\ codec' = "live" /\ UNCHANGED <<running, modem, faults>> /\ gated
      BY <2>4, <3>1 DEF Sound
    <3>3. "live" \in Dma /\ ~ running
      BY <1>2, <3>2 DEF Dma
    <3> QED
      BY <1>2, <3>2, <3>3
  <2>5. CASE BridgeStart
    <3>1. Resumed(modem) = "live" /\ "live" \in Dma
      BY <1>2, <2>5 DEF BridgeStart, Resumed, Dma
    <3>2. /\ gated' = FALSE /\ faults' = faults /\ modem' = "live" /\ running' = (modem' = "live")
      BY <2>5, <3>1 DEF BridgeStart
    <3>3. codec' \in Dma /\ codec' # "stopped"
      BY <1>2, <2>5 DEF BridgeStart, Resumed, Dma
    <3> QED
      BY <1>2, <3>1, <3>2, <3>3
  <2>6. CASE Resync
    <3>1. PICK c \in Quiesced, m \in Quiesced :
            codec' = Resumed(c) /\ modem' = Resumed(m) /\ faults' = FaultsAfter(c, m)
      BY <2>6, Zenon DEF Resync
    <3>2. c \in Dma /\ m \in Dma
      BY <3>1, Sides DEF Dma
    <3>3. codec' \in {"live", "stuck"} /\ modem' \in {"live", "stuck"} /\ faults' \in 0 .. MaxFaults
      BY <3>1, <3>2, Sides
    <3>4. codec' \in Dma /\ modem' \in Dma
      BY <3>3 DEF Dma
    <3>5. running /\ UNCHANGED <<gated, running>>
      BY <2>6 DEF Resync
    <3> QED
      BY <1>2, <3>3, <3>4, <3>5
  <2>7. CASE BridgeStop
    <3>1. /\ running /\ running' = (modem' # "stopped") /\ gated' = gated /\ codec' = codec
          /\ modem' \in {"stopped", "stuck"} /\ faults' = FaultsAfter(codec, modem')
      BY <2>7, Sides DEF BridgeStop
    <3>2. modem' \in Dma
      BY <3>1 DEF Dma
    <3>3. faults' \in 0 .. MaxFaults
      BY <1>2, <3>1, <3>2, Sides
    <3> QED
      BY <1>2, <3>1, <3>2, <3>3, Zenon
  <2>8. CASE UNCHANGED <<audio, faults>>
    BY <1>2, <2>8
  <2> QED
    BY <2>3, <2>4, <2>5, <2>6, <2>7, <2>8 DEF Serve
<1>10. AudioInv'
  BY <1>1, <1>9 DEF AudioInv
<1> QED
  BY <1>1, <1>9, <1>10, SideStep, Zenon DEF TypeOK

-----------------------------------------------------------------------------
(* Core 1 held up, or going on: no variable of the invariant but the two   *)
(* counters of TypeOK.                                                     *)
LEMMA StallStep == IInv /\ (Stall \/ Unstall) => IInv'
<1> SUFFICES ASSUME IInv, Stall \/ Unstall PROVE IInv'
  OBVIOUS
<1> USE DEF core0, audio, dog, env
<1>1. /\ stalled' \in BOOLEAN /\ stalls' \in 0 .. MaxStalls
      /\ UNCHANGED <<core0, req, parked, event, c1, audio, dog, refused, faults, raced>>
  <2>1. CASE Stall
    <3>1. stalls' \in 0 .. MaxStalls
      BY <2>1, FlashAccessAssumption DEF Stall, IInv, TypeOK
    <3> QED
      BY <2>1, <3>1, Zenon DEF Stall
  <2>2. CASE Unstall
    <3>1. stalls' \in 0 .. MaxStalls
      BY <2>2 DEF Unstall, IInv, TypeOK
    <3> QED
      BY <2>2, <3>1, Zenon DEF Unstall
  <2> QED
    BY <2>1, <2>2
<1>2. TypeOK'
  BY <1>1, Zenon DEF IInv, TypeOK
<1>3. DogInv'
  BY <1>1, QuietStep DEF InFlash
<1>4. CallInv' /\ HandInv' /\ AudioInv'
  BY <1>1 DEF IInv, CallInv, HandInv, AudioInv
<1> QED
  BY <1>2, <1>3, <1>4 DEF IInv

LEMMA NextInvariant == IInv /\ [Next]_vars => IInv'
<1> SUFFICES ASSUME IInv, [Next]_vars PROVE IInv'
  OBVIOUS
<1>1. CASE Bite
  <2>1. wd.lease # "off" /\ Reset(TRUE)
    BY <1>1 DEF Bite
  <2> QED
    BY <2>1, ResetStep
<1>2. CASE Core0
  BY <1>2, PauseStep, HeldStep DEF Core0
<1>3. CASE Core1
  BY <1>3, LoopStep, ParkStep, ServeStep DEF Core1
<1>4. CASE StoreTick
  BY <1>4, PauseStep
<1>5. CASE Idle
  BY <1>5, IdleStep
<1>6. CASE Stall \/ Unstall
  BY <1>6, StallStep
<1>7. CASE UNCHANGED vars
  <2>1. UNCHANGED <<core0, req, parked, event, c1, audio, dog, env, raced>>
    BY <1>7 DEF vars
  <2>2. TypeOK'
    BY <2>1, Zenon DEF IInv, TypeOK, core0, audio, dog, env
  <2>3. DogInv'
    BY <2>1, QuietStep DEF InFlash, core0
  <2>4. CallInv' /\ HandInv' /\ AudioInv'
    BY <2>1 DEF IInv, CallInv, HandInv, AudioInv, core0, audio
  <2> QED
    BY <2>2, <2>3, <2>4 DEF IInv
<1> QED
  BY <1>1, <1>2, <1>3, <1>4, <1>5, <1>6, <1>7 DEF Next

-----------------------------------------------------------------------------
(* The invariant that carries the others.                                  *)
THEOREM Invariant == Spec => []IInv
BY InitInvariant, NextInvariant, PTL DEF Spec

(* Every variable stays in its range: the streak below the limit at which  *)
(* the phone restarts, the watchdog's depth within its byte.               *)
THEOREM TypeCorrect == Spec => []TypeOK
<1>1. IInv => TypeOK
  BY DEF IInv
<1> QED
  BY <1>1, Invariant, PTL

(* While the flash is down or the chip sleeps, core 1 is in its spin with  *)
(* both DMA sides stopped, unless its park was raced: the stale flag is    *)
(* the only way to break the exclusion, whatever the two cores, their      *)
(* timeouts and refusals do.                                               *)
THEOREM Held == Spec => []HeldUnlessRaced
<1>1. IInv => HeldUnlessRaced
  <2> SUFFICES ASSUME IInv, c0 \in {"op", "dormant"}, ~ raced PROVE CoreOneHeld
    BY DEF HeldUnlessRaced
  <2>1. c1 \in {"off", "spin"}
    BY DEF IInv, HandInv
  <2>2. codec = "stopped" /\ modem = "stopped"
    BY <2>1 DEF IInv, AudioInv
  <2> QED
    BY <2>1, <2>2 DEF CoreOneHeld
<1> QED
  BY <1>1, Invariant, PTL

(* A pause, served, refused or abandoned, leaves the codec side stopped    *)
(* exactly when the silence gate holds it and the modem side exactly when  *)
(* no bridge owns it.                                                      *)
THEOREM AudioRestored == Spec => []AudioAsFound
<1>1. IInv => AudioAsFound
  BY DEF IInv, AudioInv, AudioAsFound
<1> QED
  BY <1>1, Invariant, PTL

(* The flash lease is armed exactly while a flash operation is under way   *)
(* and the main one afterwards, if the watchdog runs at all.               *)
THEOREM Lease == Spec => []LeaseMatches
<1>1. IInv => LeaseMatches
  BY DEF IInv, DogInv
<1> QED
  BY <1>1, Invariant, PTL

(* After any reset the evidence blames the flash exactly when the watchdog *)
(* reset the chip during a flash operation.                                *)
THEOREM TrueEvidence == Spec => []EvidenceIsTrue
<1>1. IInv => EvidenceIsTrue
  BY DEF IInv, DogInv
<1> QED
  BY <1>1, Invariant, PTL
=============================================================================
