----------------------------- MODULE StoreCommit -----------------------------
(***************************************************************************)
(* The commit engine of storage/store_service.c.  The phone keeps its      *)
(* records (settings, call lists, tones, pictures, ...) in RAM; a change   *)
(* marks the record's unit dirty, and the main loop's tick writes one dirty *)
(* unit at a time, round robin, while nothing is playing.  A unit whose    *)
(* writes fail time after time is parked, and gets one more try every five *)
(* minutes.                                                                *)
(*                                                                         *)
(* This module has the engine: its state, and its operations as actions on *)
(* the RAM they find.  The module that extends it says what the units hold *)
(* and who changes them.                                                   *)
(***************************************************************************)
EXTENDS Naturals, FiniteSets

CONSTANTS
    Units,      \* STORE_UNIT_COUNT
    FailLimit,  \* STORE_COMMIT_FAIL_LIMIT
    Factory,    \* what a unit holds before anything was stored
    Missing, Damaged,   \* media without a record, or with an unreadable one
    MayBeDamaged,       \* units whose record may be damaged at first
    MayDie,     \* units whose medium may refuse every write
    Outcome,    \* the outcomes of writes that are tried
    MaxFaults   \* writes of a sound medium that fail, and power cuts

Unit == 0 .. Units - 1

ASSUME StoreCommitAssumption ==
    /\ Units \in Nat \ {0} /\ FailLimit \in Nat \ {0}
    /\ MaxFaults \in Nat
    /\ MayDie \subseteq Unit /\ MayBeDamaged \subseteq Unit
    /\ DOMAIN Factory = Unit
    /\ {"ok", "lost"} \subseteq Outcome /\ Outcome \subseteq {"ok", "lost", "late", "busy", "busyLate"}
    /\ \A u \in Unit : Factory[u] \notin {Missing, Damaged}
    /\ Missing # Damaged

VARIABLES
    ram,      \* the records in use
    media,    \* the records in flash
    up,       \* s_available_units
    dirty,    \* s_dirty_units
    fails,    \* s_commit_fail_count
    scan,     \* s_commit_scan_start
    phase,    \* "run"; "load" while the phone starts; "off"; "cut"
    dead,     \* the units whose medium refuses every write
    wear,     \* refused writes since the last success, less the credits given
    faults

store == <<ram, media, up, dirty, fails, scan, phase, dead, wear, faults>>

-----------------------------------------------------------------------------
(* The outcomes of a record write: done; refused with nothing written, or  *)
(* after the rename that publishes the record; the same because core 1     *)
(* could not be parked.  A run names those it tries in Outcome.            *)
Hit  == {"ok", "late", "busyLate"}
Busy == {"busy", "busyLate"}

(* Outcomes of the writes of W, and the faults they are.                   *)
Outcomes(W) ==
    {o \in [W -> Outcome] :
        /\ \A u \in W : u \in dead => o[u] = "lost"
        /\ faults + Cardinality({u \in W \ dead : o[u] # "ok"}) <= MaxFaults}

Faulted(o) ==
    faults' = faults + Cardinality({u \in DOMAIN o \ dead : o[u] # "ok"})

Written(r, o) ==
    [u \in Unit |-> IF u \in DOMAIN o /\ o[u] \in Hit THEN r[u] ELSE media[u]]

(* store_service_unit_ready.                                               *)
Ready(u) == u \in up

(* A unit at the cap is skipped until it is re-armed.                      *)
Parked(f) == {u \in Unit : f[u] >= FailLimit}

(* store_engine_mark_dirty: the units d with u among them, if it is there. *)
(* The count of failures is left alone.                                    *)
Marked(d, u) == IF Ready(u) THEN d \union {u} ELSE d

(* The failure counts after the writes o: reset by a success, not touched  *)
(* when core 1 was busy.                                                   *)
Counted(f, o) ==
    [u \in Unit |-> IF u \notin DOMAIN o \/ o[u] \in Busy THEN f[u]
                    ELSE IF o[u] = "ok" THEN 0 ELSE f[u] + 1]

Worn(w, o) ==
    [u \in Unit |-> IF u \notin DOMAIN o \/ o[u] \in Busy THEN w[u]
                    ELSE IF o[u] = "ok" THEN 0 ELSE w[u] + 1]

(* Units d less those that were written.                                   *)
Cleaned(d, o) == d \ {u \in DOMAIN o : o[u] = "ok"}

Clean(o) == \A u \in DOMAIN o : o[u] = "ok"

-----------------------------------------------------------------------------
(* store_service_tick after the expiry of ringtones, from RAM r and dirty  *)
(* units d: the parked units are re-armed if it is time, then, unless      *)
(* sound or the pace forbid it, the first due unit from scan is written.   *)

(* Fault for Rearmed: a parked unit stays so until the phone restarts.     *)
RearmedNever(d, f) == f

Rearmed(d, f) ==
    [u \in Unit |-> IF u \in d /\ f[u] >= FailLimit THEN FailLimit - 1 ELSE f[u]]

Credited(d, f) ==
    [u \in Unit |-> IF Rearmed(d, f)[u] < f[u] THEN wear[u] - 1 ELSE wear[u]]

Due(d, f) == d \ Parked(f)

(* The first of the units S, counted from scan on.                         *)
Turn(S) ==
    CHOOSE u \in S : \A v \in S : (u + Units - scan) % Units
                                      <= (v + Units - scan) % Units

(* The counts after the re-arm, if its time has come.                      *)
FailsAt(d, rearm) == IF rearm THEN Rearmed(d, fails) ELSE fails
WearAt(d, rearm)  == IF rearm THEN Credited(d, fails) ELSE wear

(* Sound or the pace hold the writes up, or there is nothing to write.     *)
TickHolds(r, d, rearm) ==
    /\ ram' = r /\ dirty' = d
    /\ fails' = FailsAt(d, rearm) /\ wear' = WearAt(d, rearm)
    /\ UNCHANGED <<media, scan, faults>>

TickWrites(r, d, rearm) ==
    LET due == Due(d, FailsAt(d, rearm))
        u   == Turn(due)
    IN /\ due # {} /\ ram' = r
       /\ \E o \in Outcomes({u}) :
             /\ media' = Written(r, o)
             /\ dirty' = Cleaned(d, o)
             /\ fails' = Counted(FailsAt(d, rearm), o)
             /\ wear' = Worn(WearAt(d, rearm), o)
             /\ scan' = (u + 1) % Units
             /\ Faulted(o)

(* Fault for FlushWork: a flush tries the parked units as well.            *)
FlushWorkAll == dirty

(* store_service_flush_all skips the parked units.                         *)
FlushWork == Due(dirty, fails)

(* store_service_flush_all, with outcomes o.                               *)
Flushed(o) ==
    /\ o \in Outcomes(FlushWork)
    /\ media' = Written(ram, o)
    /\ dirty' = Cleaned(dirty, o)
    /\ fails' = Counted(fails, o)
    /\ wear' = Worn(wear, o)
    /\ Faulted(o)
    /\ UNCHANGED <<ram, up, scan, dead>>

Flush ==
    /\ phase = "run"
    /\ \E o \in [FlushWork -> Outcome] : Flushed(o)
    /\ UNCHANGED phase

(* Fault for MaySleep: the phone goes off whatever the flush says.         *)
MaySleepAnyway(o) == TRUE

(* power_sleep_enter: dormancy, which loses the RAM, waits for a flush     *)
(* that reports everything clean; the units it skipped are given up.       *)
MaySleep(o) == Clean(o)

Sleep ==
    /\ phase = "run"
    /\ \E o \in [FlushWork -> Outcome] :
          /\ Flushed(o)
          /\ MaySleep(o)
    /\ phase' = "off"

(* The power goes; of the writes of a flush a part may have been done.     *)
PowerCut ==
    /\ phase \in {"load", "run"} /\ faults < MaxFaults
    /\ phase' = "cut" /\ faults' = faults + 1
    /\ \E k \in 0 .. Units :
          media' = [u \in Unit |-> IF u < k /\ u \in FlushWork
                                   THEN ram[u] ELSE media[u]]
    /\ UNCHANGED <<ram, up, dirty, fails, scan, dead, wear>>

-----------------------------------------------------------------------------
(* Fault for Loaded: defaults stand in for a damaged record, and count as  *)
(* a record that can be written.                                           *)
LoadedAll == Unit

(* load_unit: a unit whose record is damaged is not available.  Its RAM has *)
(* the defaults, which are never written over the record.                  *)
Loaded == {u \in Unit : media[u] # Damaged}

(* store_service_init: what is missing is written with its defaults, and   *)
(* left dirty when that fails.                                             *)
Boot ==
    /\ phase \in {"off", "cut"}
    /\ phase' = "load"
    /\ up' = Loaded
    /\ ram' = [u \in Unit |-> IF media[u] \in {Missing, Damaged}
                              THEN Factory[u] ELSE media[u]]
    /\ \E o \in Outcomes({u \in Unit : media[u] = Missing}) :
          /\ media' = Written(Factory, o)
          /\ dirty' = {u \in DOMAIN o : o[u] # "ok"}
          /\ Faulted(o)
    /\ fails' = [u \in Unit |-> 0]
    /\ wear' = [u \in Unit |-> 0]
    /\ scan' = 0
    /\ UNCHANGED dead

(* main's flush, before anything else may change a record.                 *)
BootFlush ==
    /\ phase = "load" /\ phase' = "run"
    /\ \E o \in [FlushWork -> Outcome] : Flushed(o)

(* A phone that was never started, or one that was, whose records may have *)
(* been damaged since.                                                     *)
StoreInit ==
    /\ ram = Factory
    /\ \/ media = [u \in Unit |-> Missing]
       \/ \E bad \in SUBSET MayBeDamaged :
             media = [u \in Unit |-> IF u \in bad THEN Damaged ELSE Factory[u]]
    /\ up = {} /\ dirty = {} /\ scan = 0
    /\ fails = [u \in Unit |-> 0] /\ wear = [u \in Unit |-> 0]
    /\ phase = "off"
    /\ dead \in SUBSET MayDie
    /\ faults = 0
=============================================================================
