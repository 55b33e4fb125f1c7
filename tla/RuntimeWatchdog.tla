-------------------------- MODULE RuntimeWatchdog --------------------------
(***************************************************************************)
(* The runtime watchdog (src/src/services/runtime_watchdog.c): one value w  *)
(* holds its statics, the lease the hardware counts down and the phase     *)
(* stamped in a scratch register, which survives a reset.  Each operator    *)
(* is a function of the C file and returns the new value.  The ROM and the *)
(* debugger, which the file guards against, are left out.                  *)
(***************************************************************************)
EXTENDS Naturals

DepthLimit == 255                       \* s_flash_depth is a uint8_t

Leases == {"off", "main", "flash"}
Phases == {"none", "boot", "main", "flash", "poweroff", "standby", "idle", "debug_hang"}
Watchdog ==
    [started : BOOLEAN, depth : 0 .. DepthLimit, lease : Leases, phase : Phases]
Evidence == [timeout : BOOLEAN, phase : Phases]

(* A reset clears the statics, boot_capture disarms what it inherits and   *)
(* keeps what the previous run left as evidence.                           *)
Captured(w) == [started |-> FALSE, depth |-> 0, lease |-> "off", phase |-> w.phase]
CapturedEvidence(w, timeout) ==
    [timeout |-> timeout, phase |-> IF timeout THEN w.phase ELSE "none"]

Started(w) ==
    IF w.started THEN w
    ELSE [w EXCEPT !.started = TRUE, !.lease = "main", !.phase = "boot"]

(* note_phase publishes the phase, feed also restarts the countdown: the   *)
(* countdown is not modelled, so the two agree.                            *)
Noted(w, phase) ==
    IF w.started /\ w.depth = 0 THEN [w EXCEPT !.phase = phase] ELSE w

(* Fault for FlashBegun: the phase is not published.                      *)
FlashBegunUnstamped(w) ==
    IF w.depth = 0 THEN [w EXCEPT !.depth = 1, !.lease = "flash"]
    ELSE [w EXCEPT !.depth = IF @ = DepthLimit THEN @ ELSE @ + 1]
FlashBegun(w) ==
    IF w.depth = 0
    THEN [w EXCEPT !.depth = 1, !.lease = "flash", !.phase = "flash"]
    ELSE [w EXCEPT !.depth = IF @ = DepthLimit THEN @ ELSE @ + 1, !.phase = "flash"]

Checkpointed(w) == IF w.depth = 0 THEN w ELSE [w EXCEPT !.phase = "flash"]

(* Fault for FlashEnded: the main lease is not restored.                  *)
FlashEndedOff(w) ==
    CASE w.depth = 0 -> w
      [] w.depth > 1 -> [w EXCEPT !.depth = @ - 1, !.phase = "flash"]
      [] w.depth = 1 -> [w EXCEPT !.depth = 0, !.lease = "off"]
FlashEnded(w) ==
    CASE w.depth = 0 -> w
      [] w.depth > 1 -> [w EXCEPT !.depth = @ - 1, !.phase = "flash"]
      [] w.depth = 1 /\ w.started ->
             [w EXCEPT !.depth = 0, !.lease = "main", !.phase = "main"]
      [] w.depth = 1 /\ ~ w.started -> [w EXCEPT !.depth = 0, !.lease = "off"]
=============================================================================
