-------------------------- MODULE ModemPower_proofs --------------------------
(***************************************************************************)
(* Proofs about ModemPower, for any number of restarts, requests, faults   *)
(* and sounds: the rail outlives the module, a start begins from a rail    *)
(* that has discharged, and the latest request holds.                      *)
(***************************************************************************)
EXTENDS ModemPower, TLAPS

(* The states in which a command may be out, or wait for a wake-up.        *)
At(c, st) ==
    /\ c = "ping" => st = "probe"
    /\ c = "init" => st = "init"
    /\ c \in {"query", "set", "reboot"} => st = "provision"
    /\ c \in {"work", "sim", "sms", "simdrain", "smsdrain"} => st = "ready"
    /\ c = "off" => st \in Live \cup {"failed"}

CommandInv(x) ==
    /\ At(x.cmd, x.st) /\ At(x.deferred, x.st)
    /\ x.deferred # "none" => x.waking /\ x.cmd = "none"

(* A request to switch off that waits is the latest, and the service is    *)
(* where it will look at it.                                               *)
OffInv(x) ==
    x.offPend =>
        /\ ~ x.onPend /\ x.deferred = "none" /\ x.cmd # "off"
        /\ \/ x.st \in {"railwait", "pulse", "modwait", "probe"}
           \/ x.cmd \in {"sim", "sms", "simdrain", "smsdrain"}

(* A ladder that was in vain leaves nothing under way.  A session that     *)
(* failed with nothing live has no rail.                                   *)
FailInv(x) ==
    /\ x.qualify => /\ x.st = "failed" /\ x.parked /\ x.live /\ ~ x.onPend
                    /\ x.cmd = "none" /\ x.deferred = "none"
    /\ x.st = "failed" /\ ~ x.live => ~ x.owner /\ x.cmd = "none" /\ x.deferred = "none"
    /\ x.st = "off" => ~ x.owner
    /\ x.st = "discharge" => x.parked

Good(x) == x \in Service /\ CommandInv(x) /\ OffInv(x) /\ FailInv(x)

(* No start and no end without a rail, and no module where it was off.     *)
RailInv ==
    /\ s.st = "railwait" \/ (s.st = "failed" /\ ~ s.live) => mod = "off"
    /\ down # "up" => mod = "off" /\ order = "none"
    /\ s.dwell = "over" /\ ~ s.moved /\ ~ s.owner /\ ~ audio => down = "long"

(* IntentKept, for a service x and what the application wants, shows and   *)
(* has lost.  A ladder in vain was not overtaken by a request.             *)
Leaving(x) == x.st = "discharge" \/ x.cmd = "off" \/ x.deferred = "off"

Intent(x, w, sh, l) ==
    /\ w = "off" =>
          \/ l \/ x.offPend
          \/ ~ x.onPend /\ (x.st = "off" \/ Leaving(x))
          \/ ~ x.onPend /\ x.st = "failed" /\ (x.qualify => x.failure \/ sh)
    /\ w = "on" =>
          ~ x.offPend /\ (x.st = "off" \/ Leaving(x) => x.onPend)
    /\ x.qualify => w = "off"

Env ==
    /\ audio \in BOOLEAN /\ down \in {"up", "brief", "long"}
    /\ mod \in {"off", "starting", "on"} /\ order \in {"none", "leave", "reboot"}
    /\ (down = "up") = (s.owner \/ audio)

Counts ==
    /\ wish \in {"on", "off"} /\ shown \in BOOLEAN /\ lost \in BOOLEAN
    /\ asks \in 0 .. MaxAsks /\ faults \in 0 .. MaxFaults /\ sounds \in 0 .. MaxSounds

IInv == Good(s) /\ Env /\ Counts /\ RailInv /\ Intent(s, wish, shown, lost)

LEMMA TypeParts == (TypeOK <=> s \in Service /\ Env /\ Counts)
                   /\ (TypeOK' <=> (s \in Service)' /\ Env' /\ Counts')
BY DEF TypeOK, Env, Counts

-----------------------------------------------------------------------------
(* What the functions of the service make of its state.                    *)

(* The rail, the rung of the ladder, the command, and what is remembered,  *)
(* are the same in x and y.                                                *)
SameRail(x, y)    == y.owner = x.owner /\ y.dwell = x.dwell /\ y.moved = x.moved
SameRung(x, y)    == y.stage = x.stage /\ y.pulsing = x.pulsing
SameCommand(x, y) == y.cmd = x.cmd /\ y.deferred = x.deferred /\ y.waking = x.waking
SameMemory(x, y)  ==
    /\ y.onPend = x.onPend /\ y.offPend = x.offPend /\ y.parked = x.parked
    /\ y.live = x.live /\ y.qualify = x.qualify /\ y.failure = x.failure

(* A field may be given any value of its type.                             *)
LEMMA Updates ==
  /\ \A x \in Service : \A v \in States : [x EXCEPT !.st = v] \in Service
  /\ \A x \in Service : \A v \in Commands \cup Drains \cup {"none"} : [x EXCEPT !.cmd = v] \in Service
  /\ \A x \in Service : \A v \in (Commands \ {"ping"}) \cup {"none"} : [x EXCEPT !.deferred = v] \in Service
  /\ \A x \in Service : \A v \in 0 .. RestartLimit : [x EXCEPT !.restarts = v] \in Service
  /\ \A x \in Service : \A v \in {"query", "set", "verify", "done"} : [x EXCEPT !.phase = v] \in Service
  /\ \A x \in Service : \A v \in {"none", "software", "graceful", "unconditional", "terminal"} : [x EXCEPT !.stage = v] \in Service
  /\ \A x \in Service : \A v \in {"no", "now", "past"} : [x EXCEPT !.sense = v] \in Service
  /\ \A x \in Service : \A v \in {"none", "running", "over"} : [x EXCEPT !.dwell = v] \in Service
  /\ \A x \in Service : \A v \in BOOLEAN : [x EXCEPT !.waking = v] \in Service
  /\ \A x \in Service : \A v \in BOOLEAN : [x EXCEPT !.onPend = v] \in Service
  /\ \A x \in Service : \A v \in BOOLEAN : [x EXCEPT !.offPend = v] \in Service
  /\ \A x \in Service : \A v \in BOOLEAN : [x EXCEPT !.parked = v] \in Service
  /\ \A x \in Service : \A v \in BOOLEAN : [x EXCEPT !.recycled = v] \in Service
  /\ \A x \in Service : \A v \in BOOLEAN : [x EXCEPT !.done = v] \in Service
  /\ \A x \in Service : \A v \in BOOLEAN : [x EXCEPT !.rebooted = v] \in Service
  /\ \A x \in Service : \A v \in BOOLEAN : [x EXCEPT !.rebootReq = v] \in Service
  /\ \A x \in Service : \A v \in BOOLEAN : [x EXCEPT !.cycle = v] \in Service
  /\ \A x \in Service : \A v \in BOOLEAN : [x EXCEPT !.drop = v] \in Service
  /\ \A x \in Service : \A v \in BOOLEAN : [x EXCEPT !.live = v] \in Service
  /\ \A x \in Service : \A v \in BOOLEAN : [x EXCEPT !.supply = v] \in Service
  /\ \A x \in Service : \A v \in BOOLEAN : [x EXCEPT !.qualify = v] \in Service
  /\ \A x \in Service : \A v \in BOOLEAN : [x EXCEPT !.pulsing = v] \in Service
  /\ \A x \in Service : \A v \in BOOLEAN : [x EXCEPT !.failure = v] \in Service
  /\ \A x \in Service : \A v \in BOOLEAN : [x EXCEPT !.owner = v] \in Service
  /\ \A x \in Service : \A v \in BOOLEAN : [x EXCEPT !.moved = v] \in Service
<1>1. \A x \in Service : \A v \in States : [x EXCEPT !.st = v] \in Service
  BY DEF Service
<1>2. \A x \in Service : \A v \in Commands \cup Drains \cup {"none"} : [x EXCEPT !.cmd = v] \in Service
  BY DEF Service
<1>3. \A x \in Service : \A v \in (Commands \ {"ping"}) \cup {"none"} : [x EXCEPT !.deferred = v] \in Service
  BY DEF Service
<1>4. \A x \in Service : \A v \in 0 .. RestartLimit : [x EXCEPT !.restarts = v] \in Service
  BY DEF Service
<1>5. \A x \in Service : \A v \in {"query", "set", "verify", "done"} : [x EXCEPT !.phase = v] \in Service
  BY DEF Service
<1>6. \A x \in Service : \A v \in {"none", "software", "graceful", "unconditional", "terminal"} : [x EXCEPT !.stage = v] \in Service
  BY DEF Service
<1>7. \A x \in Service : \A v \in {"no", "now", "past"} : [x EXCEPT !.sense = v] \in Service
  BY DEF Service
<1>8. \A x \in Service : \A v \in {"none", "running", "over"} : [x EXCEPT !.dwell = v] \in Service
  BY DEF Service
<1>9. \A x \in Service : \A v \in BOOLEAN : [x EXCEPT !.waking = v] \in Service
  BY DEF Service
<1>10. \A x \in Service : \A v \in BOOLEAN : [x EXCEPT !.onPend = v] \in Service
  BY DEF Service
<1>11. \A x \in Service : \A v \in BOOLEAN : [x EXCEPT !.offPend = v] \in Service
  BY DEF Service
<1>12. \A x \in Service : \A v \in BOOLEAN : [x EXCEPT !.parked = v] \in Service
  BY DEF Service
<1>13. \A x \in Service : \A v \in BOOLEAN : [x EXCEPT !.recycled = v] \in Service
  BY DEF Service
<1>14. \A x \in Service : \A v \in BOOLEAN : [x EXCEPT !.done = v] \in Service
  BY DEF Service
<1>15. \A x \in Service : \A v \in BOOLEAN : [x EXCEPT !.rebooted = v] \in Service
  BY DEF Service
<1>16. \A x \in Service : \A v \in BOOLEAN : [x EXCEPT !.rebootReq = v] \in Service
  BY DEF Service
<1>17. \A x \in Service : \A v \in BOOLEAN : [x EXCEPT !.cycle = v] \in Service
  BY DEF Service
<1>18. \A x \in Service : \A v \in BOOLEAN : [x EXCEPT !.drop = v] \in Service
  BY DEF Service
<1>19. \A x \in Service : \A v \in BOOLEAN : [x EXCEPT !.live = v] \in Service
  BY DEF Service
<1>0. \A x \in Service : \A v \in BOOLEAN : [x EXCEPT !.supply = v] \in Service
  BY DEF Service
<1>21. \A x \in Service : \A v \in BOOLEAN : [x EXCEPT !.qualify = v] \in Service
  BY DEF Service
<1>22. \A x \in Service : \A v \in BOOLEAN : [x EXCEPT !.pulsing = v] \in Service
  BY DEF Service
<1>23. \A x \in Service : \A v \in BOOLEAN : [x EXCEPT !.failure = v] \in Service
  BY DEF Service
<1>24. \A x \in Service : \A v \in BOOLEAN : [x EXCEPT !.owner = v] \in Service
  BY DEF Service
<1>25. \A x \in Service : \A v \in BOOLEAN : [x EXCEPT !.moved = v] \in Service
  BY DEF Service
<1> QED
  BY <1>1, <1>2, <1>3, <1>4, <1>5, <1>6, <1>7, <1>8, <1>9, <1>10, <1>11, <1>12, <1>13, <1>14, <1>15, <1>16, <1>17, <1>18, <1>19, <1>0, <1>21, <1>22, <1>23, <1>24, <1>25

LEMMA Names ==
  /\ \A v \in {"off", "railwait", "pulse", "modwait", "probe", "init", "provision",
               "ready", "discharge", "failed"} : v \in States
  /\ \A v \in {"init", "query", "set", "reboot", "off", "work", "sim", "sms", "none"} :
         /\ v \in Commands \cup Drains \cup {"none"}
         /\ v \in (Commands \ {"ping"}) \cup {"none"}
  /\ \A v \in {"ping", "simdrain", "smsdrain"} : v \in Commands \cup Drains \cup {"none"}
BY DEF States, Commands, Reads, Drains

LEMMA ReleaseFacts ==
  ASSUME NEW x \in Service, audio \in BOOLEAN, NEW y, y = Release(x)
  PROVE  /\ y \in Service /\ ~ y.owner /\ y.dwell = x.dwell
         /\ x.moved \/ (x.owner /\ ~ audio) => y.moved
         /\ y.st = x.st /\ SameRung(x, y) /\ SameCommand(x, y) /\ SameMemory(x, y)
<1>1. x.moved \in BOOLEAN /\ x.owner \in BOOLEAN
  BY DEF Service
<1>2. PICK b \in BOOLEAN : b = (x.moved \/ (x.owner /\ ~audio))
  BY <1>1
<1>3. y = [x EXCEPT !.owner = FALSE, !.moved = b]
  BY <1>2 DEF Release
<1>4. y \in Service
  <2>1. b \in BOOLEAN
    BY <1>2
  <2>2. [x EXCEPT !.owner = FALSE, !.moved = b] \in Service
    BY <2>1, Updates, Zenon
  <2> QED
    BY <1>3, <2>2
<1>5. /\ ~ y.owner /\ y.dwell = x.dwell /\ y.moved = b /\ y.st = x.st
      /\ SameRung(x, y) /\ SameCommand(x, y) /\ SameMemory(x, y)
  BY <1>3 DEF Service, SameRung, SameCommand, SameMemory
<1> QED
  BY <1>2, <1>4, <1>5

LEMMA FailLive ==
  ASSUME NEW x \in Service, audio \in BOOLEAN, NEW y, y = Fail(x, TRUE)
  PROVE  /\ y \in Service
         /\ y.st = "failed" /\ y.cmd = "none" /\ y.deferred = "none" /\ y.live
         /\ ~ y.qualify /\ ~ y.offPend /\ ~ y.pulsing
         /\ y.onPend = x.onPend /\ y.failure = x.failure
         /\ SameRail(x, y) /\ y.parked = x.parked
<1> DEFINE a == [Asleep(x) EXCEPT
                      !.st = "failed", !.cmd = "none", !.deferred = "none", !.live = TRUE,
                      !.supply = FALSE, !.qualify = FALSE, !.pulsing = FALSE]
           z == [a EXCEPT !.stage = IF @ = "terminal" THEN @ ELSE "none",
                          !.cycle = FALSE, !.drop = FALSE, !.offPend = FALSE]
<1>1. /\ z.st = "failed" /\ z.cmd = "none" /\ z.deferred = "none" /\ z.live
      /\ ~ z.qualify /\ ~ z.offPend /\ ~ z.pulsing
      /\ z.onPend = x.onPend /\ z.failure = x.failure /\ SameRail(x, z)
      /\ z.parked = x.parked
  BY DEF Asleep, Service, SameRail
<1>2. y = z
  BY DEF Fail
<1>3. z \in Service
  <2>1. a \in Service
    BY Updates, Names, Zenon DEF Asleep
  <2> HIDE DEF a
  <2>2. (IF a.stage = "terminal" THEN a.stage ELSE "none") \in
            {"none", "software", "graceful", "unconditional", "terminal"}
    OBVIOUS
  <2> QED
    BY <2>1, <2>2, Updates, Zenon
<1> HIDE DEF z
<1> QED
  BY <1>1, <1>2, <1>3

LEMMA FailDead ==
  ASSUME NEW x \in Service, audio \in BOOLEAN, NEW y, y = Fail(x, FALSE)
  PROVE  /\ y \in Service
         /\ y.st = "failed" /\ y.cmd = "none" /\ y.deferred = "none" /\ ~ y.live
         /\ ~ y.qualify /\ ~ y.offPend /\ ~ y.pulsing
         /\ y.onPend = x.onPend /\ y.failure = x.failure
         /\ ~ y.owner /\ y.dwell = x.dwell
         /\ x.moved \/ (x.owner /\ ~ audio) => y.moved
<1> DEFINE a == [Asleep(x) EXCEPT
                      !.st = "failed", !.cmd = "none", !.deferred = "none", !.live = FALSE,
                      !.supply = FALSE, !.qualify = FALSE, !.pulsing = FALSE]
           z == [a EXCEPT !.stage = IF @ = "terminal" THEN @ ELSE "none",
                          !.cycle = FALSE, !.drop = FALSE, !.offPend = FALSE]
           w == [z EXCEPT !.parked = TRUE]
<1>1. /\ w.st = "failed" /\ w.cmd = "none" /\ w.deferred = "none" /\ ~ w.live
      /\ ~ w.qualify /\ ~ w.offPend /\ ~ w.pulsing
      /\ w.onPend = x.onPend /\ w.failure = x.failure /\ SameRail(x, w)
  BY DEF Asleep, Service, SameRail
<1>2. y = Release(w)
  BY DEF Fail
<1>3. z \in Service
  <2>1. a \in Service
    BY Updates, Names, Zenon DEF Asleep
  <2> HIDE DEF a
  <2>2. (IF a.stage = "terminal" THEN a.stage ELSE "none") \in
            {"none", "software", "graceful", "unconditional", "terminal"}
    OBVIOUS
  <2> QED
    BY <2>1, <2>2, Updates, Zenon
<1>4. w \in Service
  BY <1>3, Updates, Zenon
<1> HIDE DEF z, w
<1> QED
  <2>1. /\ y \in Service /\ ~ y.owner /\ y.dwell = w.dwell
        /\ w.moved \/ (w.owner /\ ~ audio) => y.moved
        /\ y.st = w.st /\ SameRung(w, y) /\ SameCommand(w, y) /\ SameMemory(w, y)
    BY <1>2, <1>4, ReleaseFacts
  <2> QED
    BY <1>1, <2>1 DEF SameRail, SameRung, SameCommand, SameMemory

LEMMA EnterOffFacts ==
  ASSUME NEW x \in Service, audio \in BOOLEAN, NEW y, y = EnterOff(x)
  PROVE  /\ y \in Service
         /\ y.st = "off" /\ y.cmd = "none" /\ y.deferred = "none"
         /\ ~ y.qualify /\ ~ y.offPend /\ ~ y.owner
         /\ y.onPend = x.onPend /\ y.dwell # "over"
<1> DEFINE z1 == [ResetEscalation(Asleep(x)) EXCEPT
                      !.st = "off", !.cmd = "none", !.deferred = "none"]
           z2 == [z1 EXCEPT !.cycle = FALSE, !.drop = FALSE, !.live = FALSE]
           z  == [z2 EXCEPT !.supply = FALSE, !.qualify = FALSE, !.failure = FALSE,
                            !.offPend = FALSE, !.parked = TRUE]
           w  == Release(z)
           n == [w EXCEPT !.dwell = "none"]
           r == StartDwell(w)
<1>1. /\ z.st = "off" /\ z.cmd = "none" /\ z.deferred = "none" /\ z.onPend = x.onPend
      /\ ~ z.qualify /\ ~ z.offPend
  BY DEF Asleep, ResetEscalation, Service
<1>2. y = IF audio THEN n ELSE r
  BY DEF EnterOff
<1>3. z \in Service
  BY Updates, Names, Zenon DEF Asleep, ResetEscalation
<1> HIDE DEF z
<1>6. /\ w \in Service
      /\ w.st = "off" /\ w.cmd = "none" /\ w.deferred = "none" /\ ~ w.owner
      /\ ~ w.qualify /\ ~ w.offPend /\ w.onPend = x.onPend
  BY <1>1, <1>3, ReleaseFacts DEF SameMemory, SameCommand
<1>7. w \in Service
  BY <1>6
<1> HIDE DEF w
<1>8. n \in Service /\ r \in Service
  BY <1>7, Updates, Zenon DEF StartDwell
<1>9. /\ n.st = w.st /\ n.cmd = w.cmd /\ n.deferred = w.deferred /\ n.owner = w.owner
      /\ n.qualify = w.qualify /\ n.offPend = w.offPend /\ n.onPend = w.onPend
      /\ n.dwell = "none"
  BY <1>7 DEF Service
<1>10. /\ r.st = w.st /\ r.cmd = w.cmd /\ r.deferred = w.deferred /\ r.owner = w.owner
       /\ r.qualify = w.qualify /\ r.offPend = w.offPend /\ r.onPend = w.onPend
       /\ r.dwell = "running"
  BY <1>7 DEF StartDwell, Service
<1> HIDE DEF n, r
<1>11. CASE audio
  BY <1>2, <1>6, <1>8, <1>9, <1>11
<1>12. CASE ~ audio
  BY <1>2, <1>6, <1>8, <1>10, <1>12
<1> QED
  BY <1>11, <1>12

LEMMA EnterModuleWaitFacts ==
  ASSUME NEW x \in Service, NEW y, y = EnterModuleWait(x)
  PROVE  /\ y \in Service
         /\ y.st = "modwait" /\ ~ y.qualify /\ y.stage = "none" /\ ~ y.pulsing
         /\ y.onPend = x.onPend /\ y.offPend = x.offPend
         /\ SameRail(x, y) /\ SameCommand(x, y)
<1>1. y \in Service
  BY Updates, Names, Zenon DEF EnterModuleWait, ResetEscalation
<1>2. /\ y.st = "modwait" /\ ~ y.qualify /\ y.stage = "none" /\ ~ y.pulsing
      /\ y.onPend = x.onPend /\ y.offPend = x.offPend
      /\ SameRail(x, y) /\ SameCommand(x, y)
  BY DEF EnterModuleWait, ResetEscalation, Service, SameRail, SameCommand
<1> QED
  BY <1>1, <1>2

LEMMA RecoverFacts ==
  ASSUME NEW x \in Service, NEW r, NEW y, y = Recover(x, r)
  PROVE  /\ y \in Service
         /\ y.st = "modwait" /\ ~ y.qualify /\ ~ y.onPend /\ ~ y.waking
         /\ y.cmd = x.cmd /\ y.deferred = x.deferred
         /\ y.offPend = x.offPend /\ SameRail(x, y)
<1> DEFINE z == [Asleep(x) EXCEPT !.parked = @ \/ r # "on", !.onPend = FALSE,
                                  !.live = FALSE, !.supply = FALSE]
<1>1. z \in Service
  BY Updates, Zenon DEF Asleep
<1>2. /\ ~ z.onPend /\ ~ z.waking /\ z.cmd = x.cmd /\ z.deferred = x.deferred
      /\ z.offPend = x.offPend /\ SameRail(x, z)
  BY DEF Asleep, Service, SameRail
<1>3. y = EnterModuleWait(z)
  BY DEF Recover
<1> HIDE DEF z
<1> QED
  BY <1>1, <1>2, <1>3, EnterModuleWaitFacts DEF SameRail, SameCommand

LEMMA TerminalFacts ==
  ASSUME NEW x \in Service, audio \in BOOLEAN, NEW r, NEW y, y = Terminal(x, r)
  PROVE  /\ y \in Service
         /\ y.cmd = "none" /\ y.deferred = "none" /\ ~ y.onPend /\ ~ y.offPend
         /\ SameRail(x, y)
         /\ \/ x.onPend /\ y.st = "modwait" /\ ~ y.qualify
            \/ ~ x.onPend /\ y.st = "failed" /\ y.live /\ y.qualify /\ y.failure
               /\ y.parked = x.parked
<1> DEFINE a == [x EXCEPT !.stage = "terminal", !.failure = TRUE]
           b == Fail(a, TRUE)
           c == [b EXCEPT !.qualify = TRUE]
           d == [c EXCEPT !.failure = FALSE]
<1>1. y = IF x.onPend THEN Recover(d, r) ELSE c
  BY DEF Terminal
<1>2. a \in Service
  BY Updates, Zenon
<1>3. a.onPend = x.onPend /\ a.failure /\ a.parked = x.parked /\ SameRail(x, a)
  BY DEF Service, SameRail
<1> HIDE DEF a
<1>0. b = Fail(a, TRUE) /\ c = [b EXCEPT !.qualify = TRUE]
  OBVIOUS
<1> HIDE DEF b
<1>4. /\ b \in Service /\ b.st = "failed" /\ b.cmd = "none" /\ b.deferred = "none" /\ b.live
      /\ ~ b.offPend /\ b.onPend = x.onPend /\ b.failure /\ b.parked = x.parked
      /\ SameRail(x, b)
  <2>1. /\ b \in Service /\ b.st = "failed" /\ b.cmd = "none" /\ b.deferred = "none"
        /\ ~ b.offPend /\ b.onPend = a.onPend /\ b.failure = a.failure
        /\ b.live /\ SameRail(a, b) /\ b.parked = a.parked
    BY <1>2, <1>0, FailLive
  <2> QED
    BY <1>3, <2>1 DEF SameRail
<1>5. b \in Service
  BY <1>4
<1>6. c \in Service /\ d \in Service
  BY <1>5, Updates, Zenon
<1>7. /\ c.st = b.st /\ c.cmd = b.cmd /\ c.deferred = b.deferred /\ c.live = b.live
      /\ c.offPend = b.offPend /\ c.onPend = b.onPend /\ c.failure = b.failure
      /\ c.parked = b.parked /\ c.qualify /\ SameRail(b, c)
  BY <1>5 DEF Service, SameRail
<1>8. /\ d.cmd = b.cmd /\ d.deferred = b.deferred /\ d.offPend = b.offPend
      /\ SameRail(b, d)
  BY <1>5 DEF Service, SameRail
<1> HIDE DEF c, d
<1>9. CASE x.onPend
  BY <1>1, <1>4, <1>6, <1>8, <1>9, RecoverFacts DEF SameRail
<1>10. CASE ~ x.onPend
  <2>1. y = c
    BY <1>1, <1>10
  <2>2. x.onPend \in BOOLEAN
    BY DEF Service
  <2> QED
    BY <1>4, <1>6, <1>7, <1>10, <2>1, <2>2 DEF SameRail
<1> QED
  BY <1>9, <1>10

(* A rung of the ladder is begun, or the ladder has been in vain.          *)
LEMMA StartFallbackFacts ==
  ASSUME NEW x \in Service, audio \in BOOLEAN, NEW stage \in {"graceful", "unconditional"},
         NEW armed, NEW r, NEW y, y = StartFallback(x, stage, armed, r)
  PROVE  \/ /\ y \in Service /\ y.st = x.st
            /\ SameRail(x, y) /\ SameCommand(x, y) /\ SameMemory(x, y)
         \/ y = Terminal(x, r)
<1> DEFINE z == [x EXCEPT !.stage = stage, !.pulsing = TRUE]
<1>1. z \in Service
  BY Updates, Zenon
<1>2. z.st = x.st /\ SameRail(x, z) /\ SameCommand(x, z) /\ SameMemory(x, z)
  BY DEF Service, SameRail, SameCommand, SameMemory
<1>3. y = z \/ y = Terminal(x, r)
  BY DEF StartFallback
<1> HIDE DEF z
<1> QED
  BY <1>1, <1>2, <1>3

LEMMA BeginDischargeFacts ==
  ASSUME NEW x \in Service, NEW y, y = BeginDischarge(x)
  PROVE  /\ y \in Service /\ y.st = "discharge" /\ y.cmd = "none"
         /\ y.deferred = x.deferred /\ y.waking = x.waking /\ y.onPend = x.onPend
         /\ y.offPend = x.offPend /\ y.qualify = x.qualify /\ SameRail(x, y)
<1>1. BeginDischarge(x) \in Service
  BY Updates, Names, Zenon DEF BeginDischarge
<1>2. /\ y.st = "discharge" /\ y.cmd = "none"
      /\ y.deferred = x.deferred /\ y.waking = x.waking /\ y.onPend = x.onPend
      /\ y.offPend = x.offPend /\ y.qualify = x.qualify /\ SameRail(x, y)
  BY DEF BeginDischarge, Service, SameRail
<1> QED
  BY <1>1, <1>2

LEMMA SendFacts ==
  ASSUME NEW x \in Service, NEW kind \in Commands, NEW awake, NEW y, y = Send(x, kind, awake)
  PROVE  /\ y \in Service /\ y.st = x.st
         /\ \/ y.cmd = kind /\ y.deferred = x.deferred /\ y.waking = x.waking
            \/ y.cmd = x.cmd /\ y.deferred = kind /\ y.waking /\ kind # "ping"
         /\ SameRail(x, y) /\ SameRung(x, y) /\ SameMemory(x, y)
<1> DEFINE a == [x EXCEPT !.cmd = kind]
           b == [x EXCEPT !.deferred = kind, !.waking = TRUE]
<1>1. a \in Service
  <2>1. kind \in Commands \cup Drains \cup {"none"}
    OBVIOUS
  <2> QED
    BY <2>1, Updates, Zenon
<1>2. kind # "ping" => b \in Service
  <2>1. kind # "ping" => kind \in (Commands \ {"ping"}) \cup {"none"}
    OBVIOUS
  <2> QED
    BY <2>1, Updates, Zenon
<1>3. /\ a.st = x.st /\ a.cmd = kind /\ a.deferred = x.deferred /\ a.waking = x.waking
      /\ SameRail(x, a) /\ SameRung(x, a) /\ SameMemory(x, a)
  BY DEF Service, SameRail, SameRung, SameMemory
<1>4. /\ b.st = x.st /\ b.cmd = x.cmd /\ b.deferred = kind /\ b.waking
      /\ SameRail(x, b) /\ SameRung(x, b) /\ SameMemory(x, b)
  BY DEF Service, SameRail, SameRung, SameMemory
<1>5. y = a \/ (y = b /\ kind # "ping")
  BY DEF Send
<1> HIDE DEF a, b
<1>6. CASE y = a
  BY <1>1, <1>3, <1>6
<1>7. CASE y = b /\ kind # "ping"
  BY <1>2, <1>4, <1>7
<1> QED
  BY <1>5, <1>6, <1>7

LEMMA BeginOnFacts ==
  ASSUME NEW x \in Service, x.st = "off", NEW y, y = BeginOn(x)
  PROVE  /\ y \in Service /\ y.st = "railwait" /\ y.cmd = "none"
         /\ y.deferred = x.deferred /\ y.onPend = x.onPend /\ ~ y.offPend
         /\ ~ y.qualify /\ y.owner /\ ~ y.pulsing /\ y.dwell = "none"
<1> DEFINE z == [ResetEscalation(Asleep(x)) EXCEPT
             !.done = FALSE, !.supply = FALSE, !.failure = FALSE, !.offPend = FALSE,
             !.live = FALSE, !.qualify = FALSE, !.owner = TRUE, !.dwell = "none",
             !.moved = FALSE, !.cmd = "none", !.st = "railwait"]
<1>1. z \in Service
  BY Updates, Names, Zenon DEF Asleep, ResetEscalation
<1>2. /\ z.st = "railwait" /\ z.cmd = "none"
      /\ z.deferred = x.deferred /\ z.onPend = x.onPend /\ ~ z.offPend
      /\ ~ z.qualify /\ z.owner /\ ~ z.pulsing /\ z.dwell = "none"
  BY DEF Asleep, ResetEscalation, Service
<1>3. y = z
  BY DEF BeginOn
<1> HIDE DEF z
<1> QED
  BY <1>1, <1>2, <1>3

-----------------------------------------------------------------------------
(* Steps of the service.  x is a state that it may take: well-formed, ...  *)

(* ... with no rail that is cold all of a sudden, ...                      *)
Cold(x) ==
    x.dwell = "over" /\ ~ x.moved /\ ~ x.owner /\ ~ audio =>
        s.dwell = "over" /\ ~ s.moved /\ ~ s.owner

(* ... nothing begun with a module that is off, ...                        *)
Dark(x) ==
    x.st = "railwait" \/ (x.st = "failed" /\ ~ x.live) =>
        mod = "off" /\ (x.pulsing => x.stage = s.stage)

(* ... no supply taken from a module that needs it, ...                    *)
Held(x) ==
    s.owner /\ ~ x.owner =>
        mod # "on" /\ (mod = "starting" => s.st \in {"discharge", "failed"})

(* ... no start from a rail that has not discharged, and the application's *)
(* request in force.                                                       *)
FromCold(x) == s.st # "railwait" /\ x.st = "railwait" => down = "long"

Right(x, w, sh, l) ==
    Good(x) /\ Cold(x) /\ Dark(x) /\ Held(x) /\ FromCold(x) /\ Intent(x, w, sh, l)

HeldStep ==
    s.owner /\ ~ s'.owner =>
        mod # "on" /\ (mod = "starting" => s.st \in {"discharge", "failed"})

ColdStep == s.st # "railwait" /\ s'.st = "railwait" => down = "long"

Kept == IInv' /\ HeldStep /\ ColdStep

LEMMA ReactsFacts ==
  ASSUME Env, NEW x, NEW m \in Reacts(x)
  PROVE  /\ m[1] \in {"off", "starting", "on"} /\ m[2] \in {"none", "leave", "reboot"}
         /\ ~ x.owner /\ ~ audio => m[1] = "off" /\ m[2] = "none"
         /\ \/ x.st = "railwait" \/ (x.st = "failed" /\ ~ x.live)
            => (mod = "off" /\ (x.pulsing => x.stage = s.stage) => m[1] = "off")
<1>1. \/ ~ x.owner /\ ~ audio /\ m = <<"off", "none">>
      \/ (x.owner \/ audio) /\ m = <<mod, order>>
      \/ (x.owner \/ audio) /\ mod = "on" /\ m \in {<<"on", "leave">>, <<"on", "reboot">>}
      \/ (x.owner \/ audio) /\ x.st = "pulse" /\ m = <<"starting", "none">>
      \/ (x.owner \/ audio) /\ x.pulsing /\ x.stage # s.stage /\ m = <<"starting", "none">>
      \/ (x.owner \/ audio) /\ m = <<"off", "none">>
  BY DEF Reacts
<1>2. CASE ~ x.owner /\ ~ audio /\ m = <<"off", "none">>
  BY <1>2
<1>3. CASE (x.owner \/ audio) /\ m = <<mod, order>>
  BY <1>3 DEF Env
<1>4. CASE (x.owner \/ audio) /\ mod = "on" /\ m \in {<<"on", "leave">>, <<"on", "reboot">>}
  BY <1>4
<1>5. CASE (x.owner \/ audio) /\ x.st = "pulse" /\ m = <<"starting", "none">>
  BY <1>5
<1>6. CASE (x.owner \/ audio) /\ x.pulsing /\ x.stage # s.stage /\ m = <<"starting", "none">>
  BY <1>6
<1>7. CASE (x.owner \/ audio) /\ m = <<"off", "none">>
  BY <1>7
<1> QED
  BY <1>1, <1>2, <1>3, <1>4, <1>5, <1>6, <1>7

LEMMA BecomeKept ==
  ASSUME IInv, NEW x, Right(x, wish', shown', lost'), Become(x), UNCHANGED audio, Counts'
  PROVE  Kept
<1>1. s' = x /\ x \in Service
  BY DEF Become, Right, Good
<1>2. PICK m \in Reacts(x) : mod' = m[1] /\ order' = m[2]
  BY DEF Become
<1>3. Env
  BY DEF IInv
<1>4. /\ mod' \in {"off", "starting", "on"} /\ order' \in {"none", "leave", "reboot"}
      /\ ~ x.owner /\ ~ audio => mod' = "off" /\ order' = "none"
      /\ (x.st = "railwait" \/ (x.st = "failed" /\ ~ x.live))
         => (mod = "off" /\ (x.pulsing => x.stage = s.stage) => mod' = "off")
  BY <1>2, <1>3, ReactsFacts
<1>5. down' = IF x.owner \/ audio THEN "up" ELSE IF down = "up" THEN "brief" ELSE down
  BY DEF Become
<1>6. Env'
  <2>1. down' \in {"up", "brief", "long"} /\ audio' \in BOOLEAN
    BY <1>3, <1>5 DEF Env
  <2>2. (down' = "up") = (x.owner \/ audio)
    BY <1>3, <1>5 DEF Env
  <2> QED
    BY <1>1, <1>4, <2>1, <2>2 DEF Env
<1>7. RailInv'
  <2>1. down' # "up" => mod' = "off" /\ order' = "none"
    BY <1>4, <1>5
  <2>2. x.st = "railwait" \/ (x.st = "failed" /\ ~ x.live) => mod' = "off"
    BY <1>4 DEF Right, Dark
  <2>3. x.dwell = "over" /\ ~ x.moved /\ ~ x.owner /\ ~ audio => down' = "long"
    BY <1>3, <1>5 DEF Right, Cold, IInv, RailInv, Env
  <2> QED
    BY <1>1, <2>1, <2>2, <2>3 DEF RailInv
<1>8. Good(s)' /\ Intent(s, wish, shown, lost)'
  BY <1>1 DEF Right
<1>9. HeldStep /\ ColdStep
  BY <1>1 DEF Right, Held, FromCold, HeldStep, ColdStep
<1> QED
  BY <1>6, <1>7, <1>8, <1>9 DEF Kept, IInv

(* Steps that only the service takes part in.                              *)
LEMMA StepsKept ==
  ASSUME IInv, NEW x, Right(x, wish, shown, lost), Steps(x), faults' \in 0 .. MaxFaults
  PROVE  Kept
<1>1. Counts'
  BY DEF Steps, IInv, Counts
<1> QED
  BY <1>1, BecomeKept DEF Steps

LEMMA CalmKept ==
  ASSUME IInv, NEW x, Right(x, wish, shown, lost), Calm(x) \/ Faulty(x) \/ Silent(x)
  PROVE  Kept
<1>1. Steps(x) /\ faults' \in 0 .. MaxFaults
  BY ModemPowerAssumption DEF Calm, Faulty, Silent, IInv, Counts
<1> QED
  BY <1>1, StepsKept

(* A sample of the module's supply.  One that is low for 500 ms is true.   *)
LEMMA SampleFacts ==
  ASSUME IInv, NEW r \in Reading, Sample(r)
  PROVE  /\ faults' \in 0 .. MaxFaults
         /\ r = "on" => mod = "on"
         /\ Complete(s, r) => mod # "on"
BY ModemPowerAssumption DEF Sample, True, Complete, IInv, Counts, Reading

-----------------------------------------------------------------------------
(* States that the service may take, whatever the step.                    *)

(* x stands where s stands, with the same memory of requests.              *)
LEMMA SameRight ==
  ASSUME IInv, NEW x \in Service, SameRail(s, x), SameMemory(s, x), x.st = s.st,
         x.pulsing => x.stage = s.stage,
         CommandInv(x), OffInv(x), FailInv(x), Leaving(x) = Leaving(s)
  PROVE  Right(x, wish, shown, lost)
<1>1. Cold(x) /\ Held(x) /\ FromCold(x)
  BY DEF Cold, Held, FromCold, SameRail
<1>2. Dark(x)
  BY DEF Dark, IInv, RailInv, SameMemory
<1>3. Intent(x, wish, shown, lost)
  BY DEF IInv, Intent, SameMemory
<1> QED
  BY <1>1, <1>2, <1>3 DEF Right, Good

(* A session goes on from a state other than OFF and FAILED.               *)
LEMMA MoveRight ==
  ASSUME IInv, NEW x \in Service, SameRail(s, x), s.st \notin {"off", "failed"},
         x.st \notin {"off", "failed", "railwait"}, x.st = "discharge" => x.parked,
         x.onPend = s.onPend, x.offPend = s.offPend, ~ x.qualify,
         CommandInv(x), OffInv(x), Leaving(x) = Leaving(s)
  PROVE  Right(x, wish, shown, lost)
<1>1. Cold(x) /\ Held(x) /\ FromCold(x) /\ Dark(x)
  BY DEF Cold, Held, FromCold, Dark, SameRail
<1>2. FailInv(x)
  BY DEF FailInv
<1>3. Intent(x, wish, shown, lost)
  BY DEF IInv, Intent
<1> QED
  BY <1>1, <1>2, <1>3 DEF Right, Good

(* A session ends in a failure; something may be live.                     *)
LEMMA FailRight ==
  ASSUME IInv, NEW z \in Service, SameRail(s, z), z.onPend = s.onPend, NEW x, x = Fail(z, TRUE)
  PROVE  Right(x, wish, shown, lost)
<1>1. /\ x \in Service /\ x.st = "failed" /\ x.cmd = "none" /\ x.deferred = "none" /\ x.live
      /\ ~ x.qualify /\ ~ x.offPend /\ x.onPend = s.onPend /\ SameRail(s, x)
  <2>1. audio \in BOOLEAN
    BY DEF IInv, Env
  <2> QED
    <3>1. /\ x \in Service /\ x.st = "failed" /\ x.cmd = "none" /\ x.deferred = "none"
          /\ x.live /\ ~ x.qualify /\ ~ x.offPend /\ x.onPend = z.onPend /\ SameRail(z, x)
      BY <2>1, FailLive
    <3> QED
      BY <3>1 DEF SameRail
<1>2. Cold(x) /\ Held(x) /\ FromCold(x) /\ Dark(x)
  BY <1>1 DEF Cold, Held, FromCold, Dark, SameRail
<1>3. CommandInv(x) /\ OffInv(x) /\ FailInv(x)
  BY <1>1 DEF CommandInv, At, OffInv, FailInv
<1>4. Intent(x, wish, shown, lost)
  BY <1>1 DEF IInv, Good, OffInv, Intent, Leaving
<1> QED
  BY <1>1, <1>2, <1>3, <1>4 DEF Right, Good

(* Only the cause of a failure differs.                                    *)
LEMMA SupplyRight ==
  ASSUME NEW w, NEW sh, NEW l, NEW y, Right(y, w, sh, l),
         NEW b \in BOOLEAN, NEW x, x = [y EXCEPT !.supply = b]
  PROVE  Right(x, w, sh, l)
<1>1. y \in Service
  BY DEF Right, Good
<1>2. x \in Service
  BY <1>1, Updates, Zenon
<1>3. /\ x.st = y.st /\ SameRail(y, x) /\ SameRung(y, x) /\ SameCommand(y, x)
      /\ SameMemory(y, x)
  BY <1>1 DEF Service, SameRail, SameRung, SameCommand, SameMemory
<1>4. Cold(x) /\ Held(x) /\ FromCold(x) /\ Dark(x)
  BY <1>3 DEF Right, Cold, Held, FromCold, Dark, SameRail, SameRung, SameMemory
<1>5. CommandInv(x) /\ OffInv(x) /\ FailInv(x)
  BY <1>3 DEF Right, Good, CommandInv, OffInv, FailInv, SameRail, SameCommand, SameMemory
<1>6. Intent(x, w, sh, l)
  BY <1>3 DEF Right, Intent, Leaving, SameCommand, SameMemory
<1> QED
  BY <1>2, <1>4, <1>5, <1>6 DEF Right, Good

(* A shutdown is under way that was asked for.                             *)
LEMMA LeaveRight ==
  ASSUME IInv, NEW x \in Service, SameRail(s, x), NEW sh, NEW l,
         x.st \notin {"off", "railwait"}, x.st = "failed" => x.live,
         x.st = "discharge" => x.parked,
         ~ x.onPend, ~ x.offPend, ~ x.qualify, CommandInv(x), Leaving(x)
  PROVE  Right(x, "off", sh, l)
<1>1. Cold(x) /\ Held(x) /\ FromCold(x) /\ Dark(x)
  BY DEF Cold, Held, FromCold, Dark, SameRail
<1>2. OffInv(x) /\ FailInv(x)
  BY DEF FailInv, OffInv
<1>3. Intent(x, "off", sh, l)
  BY DEF Intent
<1> QED
  BY <1>1, <1>2, <1>3 DEF Right, Good

(* OFF is entered from where the module may lose its supply.               *)
LEMMA OffRight ==
  ASSUME IInv, NEW z \in Service, NEW w, NEW sh, NEW l, NEW x, x = EnterOff(z),
         s.owner => mod # "on" /\ (mod = "starting" => s.st \in {"discharge", "failed"}),
         w = "off" => l \/ ~ z.onPend,
         w = "on"  => z.onPend
  PROVE  Right(x, w, sh, l)
<1>1. /\ x \in Service
      /\ x.st = "off" /\ x.cmd = "none" /\ x.deferred = "none"
      /\ ~ x.qualify /\ ~ x.offPend /\ ~ x.owner
      /\ x.onPend = z.onPend /\ x.dwell # "over"
  <2>1. audio \in BOOLEAN
    BY DEF IInv, Env
  <2> QED
    BY <2>1, EnterOffFacts
<1>2. Cold(x) /\ Held(x) /\ FromCold(x) /\ Dark(x)
  BY <1>1 DEF Cold, Held, FromCold, Dark
<1>3. CommandInv(x) /\ OffInv(x) /\ FailInv(x)
  BY <1>1 DEF CommandInv, At, OffInv, FailInv
<1>4. Intent(x, w, sh, l)
  BY <1>1 DEF Intent, Leaving
<1> QED
  BY <1>1, <1>2, <1>3, <1>4 DEF Right, Good

(* A start begins from a rail that has been down for the dwell.            *)
LEMMA OnRight ==
  ASSUME IInv, NEW z \in Service, NEW w, NEW sh, NEW l, NEW x, x = BeginOn(z),
         s.st = "off", z.st = "off", s.dwell = "over", ~ s.moved, ~ s.owner, ~ audio,
         z.deferred = "none", w \in {"on", "off"}, w = "off" => l
  PROVE  Right(x, w, sh, l)
<1>1. /\ x \in Service /\ x.st = "railwait" /\ x.cmd = "none" /\ x.deferred = "none"
      /\ ~ x.offPend /\ ~ x.qualify /\ x.owner /\ ~ x.pulsing /\ x.dwell = "none"
  BY BeginOnFacts
<1>2. down = "long" /\ mod = "off"
  BY DEF IInv, RailInv
<1>3. Cold(x) /\ Held(x) /\ FromCold(x) /\ Dark(x)
  BY <1>1, <1>2 DEF Cold, Held, FromCold, Dark
<1>4. CommandInv(x) /\ OffInv(x) /\ FailInv(x)
  BY <1>1 DEF CommandInv, At, OffInv, FailInv
<1>5. Intent(x, w, sh, l)
  BY <1>1 DEF Intent, Leaving
<1> QED
  BY <1>1, <1>3, <1>4, <1>5 DEF Right, Good

(* The end of the ladder: a newer request wins, or the failure is shown.   *)
LEMMA TerminalRight ==
  ASSUME IInv, NEW z \in Service, SameRail(s, z), NEW w, NEW sh, NEW l, NEW r,
         NEW x, x = Terminal(z, r), w \in {"on", "off"},
         w = "on" => z.onPend, w = "off" => l \/ ~ z.onPend, z.parked
  PROVE  Right(x, w, sh, l)
<1>1. /\ x \in Service
      /\ x.cmd = "none" /\ x.deferred = "none" /\ ~ x.onPend /\ ~ x.offPend
      /\ SameRail(z, x)
      /\ \/ z.onPend /\ x.st = "modwait" /\ ~ x.qualify
         \/ ~ z.onPend /\ x.st = "failed" /\ x.live /\ x.qualify /\ x.failure
            /\ x.parked = z.parked
  <2>1. audio \in BOOLEAN
    BY DEF IInv, Env
  <2> QED
    BY <2>1, TerminalFacts
<1>2. Cold(x) /\ Held(x) /\ FromCold(x) /\ Dark(x)
  BY <1>1 DEF Cold, Held, FromCold, Dark, SameRail
<1>3. CommandInv(x) /\ OffInv(x) /\ FailInv(x)
  BY <1>1 DEF CommandInv, At, OffInv, FailInv
<1>4. Intent(x, w, sh, l)
  BY <1>1 DEF Intent, Leaving
<1> QED
  BY <1>1, <1>2, <1>3, <1>4 DEF Right, Good

-----------------------------------------------------------------------------
(* Small steps of the service.                                             *)

LEMMA AsleepFacts ==
  ASSUME NEW x \in Service, NEW y, y = Asleep(x)
  PROVE  /\ y \in Service /\ y.st = x.st /\ SameRail(x, y) /\ SameRung(x, y)
         /\ SameMemory(x, y) /\ y.cmd = x.cmd /\ y.deferred = x.deferred /\ ~ y.waking
<1>1. Asleep(x) \in Service
  BY Updates, Zenon DEF Asleep
<1> QED
  BY <1>1 DEF Asleep, Service, SameRail, SameRung, SameMemory

LEMMA IdleFacts ==
  ASSUME NEW x \in Service, NEW y, y = Idle(x)
  PROVE  /\ y \in Service /\ y.st = x.st /\ SameRail(x, y) /\ SameRung(x, y)
         /\ SameMemory(x, y) /\ y.cmd = "none" /\ y.deferred = x.deferred
         /\ y.waking = x.waking
<1>1. Idle(x) \in Service
  BY Updates, Names, Zenon DEF Idle
<1> QED
  BY <1>1 DEF Idle, Service, SameRail, SameRung, SameMemory

LEMMA SensedFacts ==
  ASSUME NEW x \in Service, NEW r, NEW y, y = Sensed(x, r)
  PROVE  /\ y \in Service /\ y.st = x.st /\ SameRail(x, y) /\ SameRung(x, y)
         /\ SameMemory(x, y) /\ SameCommand(x, y)
<1>1. (IF r # "low" THEN "no" ELSE IF x.sense = "no" THEN "now" ELSE x.sense)
          \in {"no", "now", "past"}
  BY DEF Service
<1>2. Sensed(x, r) \in Service
  BY <1>1, Updates, Zenon DEF Sensed
<1> QED
  BY <1>2 DEF Sensed, Service, SameRail, SameRung, SameMemory, SameCommand

(* The phase of the one setting, what was sent for it, and whether the     *)
(* session is complete, concern nothing else.                              *)
LEMMA PhaseFacts ==
  ASSUME NEW x \in Service, NEW p \in {"query", "set", "verify", "done"}, NEW b \in BOOLEAN,
         NEW y \in {[x EXCEPT !.phase = p], [x EXCEPT !.phase = p, !.rebootReq = b]}
  PROVE  /\ y \in Service /\ y.st = x.st /\ SameRail(x, y) /\ SameRung(x, y)
         /\ SameMemory(x, y) /\ SameCommand(x, y)
<1>1. [x EXCEPT !.phase = p] \in Service /\ [x EXCEPT !.phase = p, !.rebootReq = b] \in Service
  BY Updates, Zenon
<1>2. y \in Service
  BY <1>1
<1>3. y.st = x.st /\ SameRail(x, y) /\ SameRung(x, y) /\ SameMemory(x, y) /\ SameCommand(x, y)
  BY DEF Service, SameRail, SameRung, SameMemory, SameCommand
<1> QED
  BY <1>2, <1>3

LEMMA ProvisionFacts ==
  ASSUME NEW x \in Service, NEW y, y = BeginProvision(x)
  PROVE  /\ y \in Service /\ y.st = "provision" /\ SameRail(x, y) /\ SameRung(x, y)
         /\ SameMemory(x, y) /\ SameCommand(x, y)
<1>1. BeginProvision(x) \in Service
  BY Updates, Names, Zenon DEF BeginProvision
<1> QED
  BY <1>1 DEF BeginProvision, Service, SameRail, SameRung, SameMemory, SameCommand

LEMMA ReinitFacts ==
  ASSUME NEW x \in Service, NEW y, y = ReinitWait(x)
  PROVE  /\ y \in Service /\ y.st = "modwait" /\ ~ y.qualify /\ y.cmd = x.cmd
         /\ y.deferred = x.deferred /\ y.onPend = x.onPend /\ y.offPend = x.offPend
         /\ SameRail(x, y)
<1> DEFINE z == [Asleep(x) EXCEPT !.phase = "query"]
<1>1. z \in Service
  BY Updates, Zenon DEF Asleep
<1>2. /\ SameRail(x, z) /\ z.cmd = x.cmd /\ z.deferred = x.deferred
      /\ z.onPend = x.onPend /\ z.offPend = x.offPend
  BY DEF Asleep, Service, SameRail
<1>3. y = EnterModuleWait(z)
  BY DEF ReinitWait
<1> HIDE DEF z
<1>4. /\ y \in Service /\ y.st = "modwait" /\ ~ y.qualify
      /\ y.onPend = z.onPend /\ y.offPend = z.offPend
      /\ SameRail(z, y) /\ SameCommand(z, y)
  BY <1>1, <1>3, EnterModuleWaitFacts
<1> QED
  BY <1>2, <1>4 DEF SameRail, SameCommand

(* What is known of a state of IInv, for use below.                        *)
LEMMA Known ==
  ASSUME IInv
  PROVE  /\ s \in Service /\ CommandInv(s) /\ OffInv(s) /\ FailInv(s)
         /\ audio \in BOOLEAN /\ wish \in {"on", "off"}
         /\ SameRail(s, s) /\ SameRung(s, s) /\ SameMemory(s, s) /\ SameCommand(s, s)
BY DEF IInv, Good, Env, Counts, SameRail, SameRung, SameMemory, SameCommand

(* A command is at an end, and no other is on its way.                     *)
LEMMA IdleRight ==
  ASSUME IInv, s.cmd \notin {"none", "off"}, ~ s.offPend \/ s.st = "probe"
  PROVE  Right(Idle(s), wish, shown, lost)
<1> DEFINE x == Idle(s)
<1>1. /\ x \in Service /\ x.st = s.st /\ SameRail(s, x) /\ SameRung(s, x)
      /\ SameMemory(s, x) /\ x.cmd = "none" /\ x.deferred = s.deferred
      /\ x.waking = s.waking
  BY Known, IdleFacts
<1> HIDE DEF x
<1>2. CommandInv(x) /\ OffInv(x) /\ FailInv(x) /\ Leaving(x) = Leaving(s)
  BY <1>1, Known DEF CommandInv, At, OffInv, FailInv, Leaving, SameMemory, SameRail, Live
<1> QED
  BY <1>1, <1>2, SameRight DEF SameRung, x

-----------------------------------------------------------------------------
(* The actions, one after the other.                                       *)

LEMMA WatchSupplyKept == ASSUME IInv, WatchSupply PROVE Kept
<1> DEFINE y == Fail(s, TRUE)
           x == [y EXCEPT !.supply = TRUE]
<1>1. Right(y, wish, shown, lost)
  BY Known, FailRight
<1>2. Faulty(x)
  BY DEF WatchSupply, FailSupply
<1> HIDE DEF y
<1>3. Right(x, wish, shown, lost)
  BY <1>1, SupplyRight
<1> HIDE DEF x
<1> QED
  BY <1>2, <1>3, CalmKept

LEMMA FaultCount == ASSUME IInv, NEW r, Sample(r) PROVE faults' \in 0 .. MaxFaults
BY ModemPowerAssumption DEF Sample, IInv, Counts

LEMMA WatchModuleKept == ASSUME IInv, WatchModule PROVE Kept
<1>1. faults' \in 0 .. MaxFaults /\ s.st \in Live
  BY FaultCount DEF WatchModule
<1>2. CASE DropExpected /\ Steps(NoteDrop(s))
  <2> DEFINE a == Asleep(s)
             x == [a EXCEPT !.drop = TRUE, !.parked = TRUE]
  <2>1. /\ a \in Service /\ a.st = s.st /\ SameRail(s, a) /\ SameMemory(s, a)
        /\ a.cmd = s.cmd /\ a.deferred = s.deferred
    BY Known, AsleepFacts
  <2>2. Steps(x)
    BY <1>2 DEF NoteDrop
  <2> HIDE DEF a
  <2>3. x \in Service
    <3>1. a \in Service
      BY <2>1
    <3> QED
      BY <3>1, Updates, Zenon
  <2>4. /\ x.st = a.st /\ SameRail(a, x) /\ x.onPend = a.onPend /\ x.offPend = a.offPend
        /\ x.qualify = a.qualify /\ x.cmd = a.cmd /\ x.deferred = a.deferred
    BY <2>1 DEF Service, SameRail
  <2> HIDE DEF x
  <2>5. SameRail(s, x) /\ CommandInv(x) /\ OffInv(x) /\ ~ x.qualify
        /\ Leaving(x) = Leaving(s) /\ x.onPend = s.onPend /\ x.offPend = s.offPend
    BY <1>1, <1>2, <2>1, <2>4, Known
       DEF DropExpected, SameRail, SameMemory, CommandInv, At, OffInv, FailInv, Leaving, Live
  <2>6. Right(x, wish, shown, lost)
    BY <1>1, <2>1, <2>3, <2>4, <2>5, MoveRight DEF Live
  <2> QED
    BY <1>1, <2>2, <2>6, StepsKept
<1>3. CASE ~ DropExpected /\ Become(StartupRestart(s)) /\ UNCHANGED <<audio, wish, shown, asks, sounds>>
           /\ lost' = (lost \/ (s.deferred = "off" /\ wish = "off"))
           /\ s.restarts < RestartLimit
  <2> DEFINE z == [s EXCEPT !.restarts = @ + 1, !.deferred = "none", !.cmd = "none",
                            !.rebootReq = FALSE, !.parked = TRUE]
             x == ReinitWait(z)
  <2>1. z \in Service
    <3>1. s.restarts + 1 \in 0 .. RestartLimit
      BY <1>3, Known, ModemPowerAssumption DEF Service
    <3> QED
      BY <3>1, Known, Updates, Names, Zenon
  <2>2. /\ z.deferred = "none" /\ z.cmd = "none" /\ z.onPend = s.onPend
        /\ z.offPend = s.offPend /\ SameRail(s, z)
    BY Known DEF Service, SameRail
  <2>3. Become(x)
    BY <1>3 DEF StartupRestart
  <2> HIDE DEF z
  <2>4. /\ x \in Service /\ x.st = "modwait" /\ ~ x.qualify /\ x.cmd = "none"
        /\ x.deferred = "none" /\ x.onPend = s.onPend /\ x.offPend = s.offPend
        /\ SameRail(s, x)
    <3>1. /\ x \in Service /\ x.st = "modwait" /\ ~ x.qualify /\ x.cmd = z.cmd
          /\ x.deferred = z.deferred /\ x.onPend = z.onPend /\ x.offPend = z.offPend
          /\ SameRail(z, x)
      BY <2>1, ReinitFacts
    <3> QED
      BY <2>2, <3>1 DEF SameRail
  <2> HIDE DEF x
  <2>5. Cold(x) /\ Dark(x) /\ Held(x) /\ FromCold(x)
    BY <2>4 DEF Cold, Dark, Held, FromCold, SameRail
  <2>6. CommandInv(x) /\ OffInv(x) /\ FailInv(x)
    BY <2>4, Known DEF CommandInv, At, OffInv, FailInv
  <2>7. Intent(x, wish, shown, lost')
    BY <1>1, <1>3, <2>4 DEF IInv, Intent, Leaving, DropExpected, Live
  <2>8. Counts' /\ UNCHANGED audio
    BY <1>1, <1>3 DEF IInv, Counts
  <2>9. Right(x, wish', shown', lost')
    BY <1>3, <2>4, <2>5, <2>6, <2>7 DEF Right, Good
  <2> QED
    BY <2>3, <2>8, <2>9, BecomeKept
<1>4. CASE Steps(Fail(s, TRUE))
  BY <1>1, <1>4, Known, FailRight, StepsKept
<1>5. \/ DropExpected /\ Steps(NoteDrop(s))
      \/ ~ DropExpected /\ Become(StartupRestart(s)) /\ UNCHANGED <<audio, wish, shown, asks, sounds>>
         /\ lost' = (lost \/ (s.deferred = "off" /\ wish = "off"))
         /\ s.restarts < RestartLimit
      \/ Steps(Fail(s, TRUE))
  BY DEF WatchModule, MayRestart
<1> QED
  BY <1>2, <1>3, <1>4, <1>5

LEMMA WatchFailedKept == ASSUME IInv, WatchFailed PROVE Kept
<1>1. PICK r \in Reading :
        /\ s.st = "failed" /\ s.qualify /\ Sample(r)
        /\ Steps(IF Complete(s, r) THEN EnterOff(Sensed(s, r)) ELSE Sensed(s, r))
  BY DEF WatchFailed
<1> DEFINE y == Sensed(s, r)
<1>2. /\ y \in Service /\ y.st = s.st /\ SameRail(s, y) /\ SameRung(s, y)
      /\ SameMemory(s, y) /\ SameCommand(s, y)
  BY Known, SensedFacts
<1> HIDE DEF y
<1>3. faults' \in 0 .. MaxFaults /\ (Complete(s, r) => mod # "on")
  BY <1>1, SampleFacts
<1>4. ~ y.onPend /\ wish = "off"
  BY <1>1, <1>2, Known DEF FailInv, SameMemory, IInv, Intent
<1>5. CASE Complete(s, r)
  <2>1. Right(EnterOff(y), wish, shown, lost)
    BY <1>1, <1>2, <1>3, <1>4, <1>5, OffRight
  <2> QED
    BY <1>1, <1>3, <1>5, <2>1, StepsKept DEF y
<1>6. CASE ~ Complete(s, r)
  <2>1. CommandInv(y) /\ OffInv(y) /\ FailInv(y) /\ Leaving(y) = Leaving(s)
    BY <1>2, Known DEF CommandInv, OffInv, FailInv, Leaving, SameMemory, SameCommand, SameRail
  <2>2. Right(y, wish, shown, lost)
    BY <1>2, <2>1, SameRight DEF SameRung
  <2> QED
    BY <1>1, <1>3, <1>6, <2>2, StepsKept DEF y
<1> QED
  BY <1>5, <1>6

LEMMA WakeDoneKept == ASSUME IInv, WakeDone PROVE Kept
<1> DEFINE x == Asleep(s)
           z == [x EXCEPT !.deferred = "none"]
           u == Send(z, s.deferred, TRUE)
<1>1. s.waking /\ ~ s.parked /\ Calm(IF s.deferred = "none" THEN x ELSE u)
  BY DEF WakeDone
<1>2. /\ x \in Service /\ x.st = s.st /\ SameRail(s, x) /\ SameRung(s, x)
      /\ SameMemory(s, x) /\ x.cmd = s.cmd /\ x.deferred = s.deferred /\ ~ x.waking
  BY Known, AsleepFacts
<1> HIDE DEF x
<1>3. CASE s.deferred = "none"
  <2>1. CommandInv(x) /\ OffInv(x) /\ FailInv(x) /\ Leaving(x) = Leaving(s)
    BY <1>2, <1>3, Known DEF CommandInv, OffInv, FailInv, Leaving, SameMemory, SameRail
  <2>2. Right(x, wish, shown, lost)
    BY <1>2, <2>1, SameRight DEF SameRung
  <2> QED
    BY <1>1, <1>3, <2>2, CalmKept
<1>4. CASE s.deferred # "none"
  <2>1. s.deferred \in Commands \ {"ping"}
    BY <1>4, Known DEF Service
  <2>2. x \in Service
    BY <1>2
  <2>3. z \in Service
    BY <2>2, Updates, Names, Zenon
  <2>4. /\ z.st = x.st /\ SameRail(x, z) /\ SameRung(x, z) /\ SameMemory(x, z)
        /\ z.cmd = x.cmd /\ z.deferred = "none"
    BY <2>2 DEF Service, SameRail, SameRung, SameMemory
  <2>5. u = [z EXCEPT !.cmd = s.deferred]
    BY <1>1, <1>2, <2>4 DEF Send, SameMemory
  <2> HIDE DEF z
  <2>6. u \in Service
    <3>1. s.deferred \in Commands \cup Drains \cup {"none"}
      BY <2>1
    <3> QED
      <4>1. [z EXCEPT !.cmd = s.deferred] \in Service
        BY <2>3, <3>1, Updates, Zenon
      <4> QED
        BY <2>5, <4>1
  <2>7. /\ u.st = z.st /\ SameRail(z, u) /\ SameRung(z, u) /\ SameMemory(z, u)
        /\ u.cmd = s.deferred /\ u.deferred = z.deferred
    BY <2>3, <2>5 DEF Service, SameRail, SameRung, SameMemory
  <2> HIDE DEF u
  <2>8. u.st = s.st /\ SameRail(s, u) /\ SameRung(s, u) /\ SameMemory(s, u)
        /\ u.cmd = s.deferred /\ u.deferred = "none"
    BY <1>2, <2>4, <2>7 DEF SameRail, SameRung, SameMemory
  <2>9. CommandInv(u) /\ OffInv(u) /\ FailInv(u) /\ Leaving(u) = Leaving(s)
    BY <1>4, <2>8, Known DEF CommandInv, At, OffInv, FailInv, Leaving, SameMemory, SameRail
  <2>10. Right(u, wish, shown, lost)
    BY <2>6, <2>8, <2>9, SameRight DEF SameRung
  <2> QED
    BY <1>1, <1>4, <2>10, CalmKept
<1> QED
  BY <1>3, <1>4

(* The ladder is begun by a shutdown that was under way already.           *)
LEMMA DischargeRight ==
  ASSUME IInv, NEW y \in Service, SameRail(s, y), y.onPend = s.onPend, ~ y.offPend,
         ~ s.offPend, ~ y.qualify, y.deferred = "none", Leaving(s), s.st # "off",
         NEW x, x = BeginDischarge(y)
  PROVE  Right(x, wish, shown, lost)
<1>1. /\ x \in Service /\ x.st = "discharge" /\ x.cmd = "none" /\ x.deferred = "none"
      /\ x.onPend = s.onPend /\ ~ x.offPend /\ ~ x.qualify /\ SameRail(y, x)
  BY BeginDischargeFacts
<1>2. SameRail(s, x) /\ x.parked
  <2>1. x.parked
    BY DEF BeginDischarge, Service
  <2> QED
    BY <1>1, <2>1 DEF SameRail
<1>3. Cold(x) /\ Held(x) /\ FromCold(x) /\ Dark(x)
  BY <1>1, <1>2 DEF Cold, Held, FromCold, Dark, SameRail
<1>4. CommandInv(x) /\ OffInv(x) /\ FailInv(x)
  BY <1>1, <1>2 DEF CommandInv, At, OffInv, FailInv
<1>5. Intent(x, wish, shown, lost)
  BY <1>1 DEF IInv, Intent, Leaving
<1> QED
  BY <1>1, <1>3, <1>4, <1>5 DEF Right, Good

LEMMA WakeLateKept == ASSUME IInv, WakeLate PROVE Kept
<1> DEFINE a == Asleep(s)
           x == [a EXCEPT !.deferred = "none"]
<1>1. Silent(IF s.deferred = "off" THEN BeginDischarge(x) ELSE Fail(x, TRUE))
  BY DEF WakeLate
<1>2. /\ a \in Service /\ a.st = s.st /\ SameRail(s, a) /\ SameRung(s, a)
      /\ SameMemory(s, a) /\ a.cmd = s.cmd
  BY Known, AsleepFacts
<1> HIDE DEF a
<1>3. x \in Service
  <2>1. a \in Service
    BY <1>2
  <2> QED
    BY <2>1, Updates, Names, Zenon
<1>4. x.st = a.st /\ SameRail(a, x) /\ SameMemory(a, x) /\ x.cmd = a.cmd /\ x.deferred = "none"
  BY <1>2 DEF Service, SameRail, SameMemory
<1> HIDE DEF x
<1>5. SameRail(s, x) /\ SameMemory(s, x) /\ x.st = s.st
  BY <1>2, <1>4 DEF SameRail, SameMemory
<1>6. CASE s.deferred = "off"
  <2>1. ~ s.offPend /\ ~ s.qualify /\ Leaving(s) /\ s.st # "off"
    BY <1>6, Known DEF OffInv, FailInv, Leaving, CommandInv, At, Live
  <2>2. Right(BeginDischarge(x), wish, shown, lost)
    BY <1>3, <1>4, <1>5, <2>1, DischargeRight DEF SameMemory
  <2> QED
    BY <1>1, <1>6, <2>2, CalmKept
<1>7. CASE s.deferred # "off"
  <2>1. Right(Fail(x, TRUE), wish, shown, lost)
    BY <1>3, <1>5, FailRight DEF SameMemory
  <2> QED
    BY <1>1, <1>7, <2>1, CalmKept
<1> QED
  BY <1>6, <1>7

LEMMA RingWakesKept == ASSUME IInv, RingWakes PROVE Kept
<1> DEFINE x == [s EXCEPT !.waking = TRUE]
<1>1. Calm(x)
  BY DEF RingWakes
<1>2. x \in Service
  BY Known, Updates, Zenon
<1>3. /\ x.st = s.st /\ SameRail(s, x) /\ SameRung(s, x) /\ SameMemory(s, x)
      /\ x.cmd = s.cmd /\ x.deferred = s.deferred /\ x.waking
  BY Known DEF Service, SameRail, SameRung, SameMemory
<1> HIDE DEF x
<1>4. CommandInv(x) /\ OffInv(x) /\ FailInv(x) /\ Leaving(x) = Leaving(s)
  BY <1>3, Known DEF CommandInv, OffInv, FailInv, Leaving, SameMemory, SameRail
<1>5. Right(x, wish, shown, lost)
  BY <1>2, <1>3, <1>4, SameRight DEF SameRung
<1> QED
  BY <1>1, <1>5, CalmKept

LEMMA PingDoneKept == ASSUME IInv, PingDone PROVE Kept
<1> DEFINE x == Idle(s)
           n == [x EXCEPT !.st = "init", !.deferred = "none"]
           z == [x EXCEPT !.offPend = FALSE]
<1>1. s.cmd = "ping" /\ s.st = "probe" /\ s.deferred = "none"
  BY Known DEF PingDone, Ends, CommandInv, At
<1>2. /\ x \in Service /\ x.st = "probe" /\ SameRail(s, x) /\ SameMemory(s, x)
      /\ x.cmd = "none" /\ x.deferred = "none"
  BY <1>1, Known, IdleFacts
<1>3. IF x.offPend THEN \E awake \in BOOLEAN : Calm(Send(z, "off", awake)) ELSE Calm(n)
  BY DEF PingDone
<1> HIDE DEF x
<1>4. x \in Service
  BY <1>2
<1>5. n \in Service /\ z \in Service
  BY <1>4, Updates, Names, Zenon
<1>6. /\ n.st = "init" /\ n.cmd = x.cmd /\ n.deferred = "none" /\ n.onPend = x.onPend
      /\ n.offPend = x.offPend /\ n.qualify = x.qualify /\ SameRail(x, n)
  BY <1>4 DEF Service, SameRail
<1>7. /\ z.st = x.st /\ z.cmd = x.cmd /\ z.deferred = x.deferred /\ z.onPend = x.onPend
      /\ ~ z.offPend /\ z.qualify = x.qualify /\ SameRail(x, z)
  BY <1>4 DEF Service, SameRail
<1> HIDE DEF n, z
<1>8. ~ s.qualify
  BY <1>1, Known DEF FailInv
<1>9. CASE x.offPend
  <2>1. PICK awake \in BOOLEAN : Calm(Send(z, "off", awake))
    BY <1>3, <1>9
  <2> DEFINE u == Send(z, "off", awake)
  <2>2. /\ u \in Service /\ u.st = z.st
        /\ \/ u.cmd = "off" /\ u.deferred = z.deferred
           \/ u.cmd = z.cmd /\ u.deferred = "off" /\ u.waking
        /\ SameRail(z, u) /\ SameMemory(z, u)
    BY <1>5, SendFacts DEF Commands
  <2> HIDE DEF u
  <2>3. wish = "off" /\ ~ s.onPend
    BY <1>2, <1>9, Known DEF SameMemory, OffInv, IInv, Intent
  <2>4. /\ u.st = "probe" /\ SameRail(s, u) /\ ~ u.onPend /\ ~ u.offPend /\ ~ u.qualify
        /\ CommandInv(u) /\ Leaving(u)
    BY <1>2, <1>7, <1>8, <2>2, <2>3
       DEF SameRail, SameMemory, CommandInv, At, Leaving, Live
  <2>5. Right(u, wish, shown, lost)
    BY <2>2, <2>3, <2>4, LeaveRight
  <2> QED
    BY <2>1, <2>5, CalmKept DEF u
<1>10. CASE ~ x.offPend
  <2>1. /\ SameRail(s, n) /\ n.onPend = s.onPend /\ n.offPend = s.offPend /\ ~ n.qualify
        /\ CommandInv(n) /\ OffInv(n) /\ Leaving(n) = Leaving(s)
    BY <1>1, <1>2, <1>6, <1>8, <1>10
       DEF SameRail, SameMemory, CommandInv, At, OffInv, Leaving
  <2>2. Right(n, wish, shown, lost)
    BY <1>1, <1>5, <1>6, <2>1, MoveRight
  <2> QED
    BY <1>3, <1>10, <2>2, CalmKept
<1> QED
  BY <1>9, <1>10

(* A shutdown that is begun in a running session sends its command.        *)
LEMMA BeginOffLive ==
  ASSUME NEW x \in Service, x.st \in Live, ~ x.offPend,
         x.cmd \notin {"off", "sim", "sms", "simdrain", "smsdrain"},
         NEW awake \in BOOLEAN, NEW armed, NEW r, NEW u, u = BeginOff(x, r, awake, armed)
  PROVE  /\ u \in Service /\ u.st = x.st /\ SameRail(x, u)
         /\ ~ u.onPend /\ ~ u.offPend /\ u.qualify = x.qualify
         /\ \/ u.cmd = "off" /\ u.deferred = "none"
            \/ u.cmd = "none" /\ u.deferred = "off" /\ u.waking
<1> DEFINE o == [x EXCEPT !.onPend = FALSE, !.failure = FALSE]
           y == [o EXCEPT !.cmd = "none", !.deferred = "none"]
           z == Send(y, "off", awake)
<1>1. u =
        CASE o.offPend \/ o.st = "discharge" \/ o.cmd = "off" -> o
          [] ~o.offPend /\ o.st = "off" -> EnterOff(o)
          [] ~o.offPend /\ o.cmd \in Reads \cup Drains -> [o EXCEPT !.offPend = TRUE]
          [] OTHER ->
                IF y.st = "failed" /\ y.supply /\ y.live THEN SupplyFaultShutdown(y, armed, r)
                ELSE IF y.st \in {"pulse", "modwait"} \/ (y.st = "railwait" /\ r = "on")
                THEN [y EXCEPT !.offPend = TRUE]
                ELSE IF y.st = "failed" /\ y.live /\ y.parked
                THEN EnterModuleWait([y EXCEPT !.offPend = TRUE, !.live = FALSE])
                ELSE IF y.st \in Live \/ (y.st = "failed" /\ y.live) \/ r = "on"
                THEN z
                ELSE EnterOff(y)
  BY Zenon DEF BeginOff, Overrides
<1>2. o \in Service /\ y \in Service
  BY Updates, Names, Zenon
<1>3. /\ o.st = x.st /\ o.cmd = x.cmd /\ o.offPend = x.offPend
      /\ y.st = x.st /\ y.cmd = "none" /\ y.deferred = "none" /\ y.offPend = x.offPend
      /\ ~ y.onPend /\ y.qualify = x.qualify /\ SameRail(x, y)
  BY DEF Service, SameRail
<1> HIDE DEF o, y, z
<1>4. u = z
  <2>1. o.cmd \notin Reads \cup Drains
    BY <1>3 DEF Reads, Drains
  <2> QED
    BY <1>1, <1>3, <2>1 DEF Live
<1>5. /\ u \in Service /\ u.st = y.st
      /\ \/ u.cmd = "off" /\ u.deferred = y.deferred
         \/ u.cmd = y.cmd /\ u.deferred = "off" /\ u.waking
      /\ SameRail(y, u) /\ SameMemory(y, u)
  BY <1>2, <1>4, SendFacts DEF Commands, z
<1> QED
  BY <1>3, <1>5 DEF SameRail, SameMemory

(* The one recycle: a shutdown with a restart behind it, whatever was      *)
(* asked.  It was not asked to switch off, unless that was lost.           *)
LEMMA RecycleRight ==
  ASSUME IInv, s.cmd = "ping", ~ s.offPend, NEW awake \in BOOLEAN, NEW armed, NEW r,
         NEW x, x = [BeginOff(Recycled(Idle(s)), r, awake, armed) EXCEPT !.onPend = TRUE]
  PROVE  Right(x, wish, shown, lost)
<1> DEFINE i == Idle(s)
           a == [i EXCEPT !.recycled = TRUE]
           u == BeginOff(a, r, awake, armed)
<1>1. s.st = "probe" /\ s.deferred = "none" /\ ~ s.qualify
  BY Known DEF CommandInv, At, FailInv
<1>2. /\ i \in Service /\ i.st = "probe" /\ SameRail(s, i) /\ SameMemory(s, i)
      /\ i.cmd = "none" /\ i.deferred = "none"
  BY <1>1, Known, IdleFacts
<1>3. x = [u EXCEPT !.onPend = TRUE]
  BY DEF Recycled
<1> HIDE DEF i
<1>4. a \in Service
  <2>1. i \in Service
    BY <1>2
  <2> QED
    BY <2>1, Updates, Zenon
<1>5. /\ a.st = i.st /\ a.cmd = i.cmd /\ a.offPend = i.offPend /\ a.qualify = i.qualify
      /\ SameRail(i, a)
  BY <1>2 DEF Service, SameRail
<1> HIDE DEF a
<1>6. /\ u \in Service /\ u.st = a.st /\ SameRail(a, u)
      /\ ~ u.offPend /\ u.qualify = a.qualify
      /\ \/ u.cmd = "off" /\ u.deferred = "none"
         \/ u.cmd = "none" /\ u.deferred = "off" /\ u.waking
  BY <1>2, <1>4, <1>5, BeginOffLive DEF Live, SameMemory
<1> HIDE DEF u
<1>7. u \in Service
  BY <1>6
<1>8. x \in Service
  <2>1. [u EXCEPT !.onPend = TRUE] \in Service
    BY <1>7, Updates, Zenon
  <2> QED
    BY <1>3, <2>1
<1>9. /\ x.st = u.st /\ x.cmd = u.cmd /\ x.deferred = u.deferred /\ x.waking = u.waking
      /\ x.onPend /\ x.offPend = u.offPend /\ x.qualify = u.qualify /\ SameRail(u, x)
  BY <1>3, <1>7 DEF Service, SameRail
<1>10. /\ x.st = "probe" /\ SameRail(s, x) /\ ~ x.offPend /\ ~ x.qualify
       /\ CommandInv(x) /\ Leaving(x)
  BY <1>1, <1>2, <1>5, <1>6, <1>9 DEF SameRail, SameMemory, CommandInv, At, Leaving, Live
<1>11. Cold(x) /\ Held(x) /\ FromCold(x) /\ Dark(x)
  BY <1>10 DEF Cold, Held, FromCold, Dark, SameRail
<1>12. OffInv(x) /\ FailInv(x)
  BY <1>10 DEF OffInv, FailInv
<1>13. Intent(x, wish, shown, lost)
  BY <1>1, <1>9, <1>10 DEF IInv, Intent, Leaving
<1> QED
  BY <1>8, <1>10, <1>11, <1>12, <1>13 DEF Right, Good

LEMMA PingFailsKept == ASSUME IInv, PingFails PROVE Kept
<1> DEFINE x == Idle(s)
<1>1. PICK late \in BOOLEAN, awake \in BOOLEAN, armed \in BOOLEAN :
        /\ s.cmd = "ping"
        /\ Silent(IF ~late THEN x
             ELSE IF x.offPend THEN Fail(x, TRUE)
             ELSE IF ~x.recycled
             THEN [BeginOff(Recycled(x), True, awake, armed) EXCEPT !.onPend = TRUE]
             ELSE Fail(x, TRUE))
  BY DEF PingFails, Ends
<1>2. x \in Service /\ SameRail(s, x) /\ SameMemory(s, x)
  BY Known, IdleFacts
<1>3. s.st = "probe"
  BY <1>1, Known DEF CommandInv, At
<1>4. Right(x, wish, shown, lost)
  BY <1>1, <1>3, IdleRight
<1> HIDE DEF x
<1>5. Right(Fail(x, TRUE), wish, shown, lost)
  BY <1>2, FailRight DEF SameMemory
<1>6. CASE ~ late
  BY <1>1, <1>4, <1>6, CalmKept
<1>7. CASE Silent(Fail(x, TRUE))
  BY <1>5, <1>7, CalmKept
<1>8. CASE ~ x.offPend /\ Silent([BeginOff(Recycled(x), True, awake, armed) EXCEPT !.onPend = TRUE])
  <2>1. ~ s.offPend
    BY <1>2, <1>8 DEF SameMemory
  <2>2. Right([BeginOff(Recycled(x), True, awake, armed) EXCEPT !.onPend = TRUE],
              wish, shown, lost)
    BY <1>1, <2>1, RecycleRight DEF x
  <2> QED
    BY <1>8, <2>2, CalmKept
<1> QED
  BY <1>1, <1>6, <1>7, <1>8

(* The session goes on with initialisation and provisioning.               *)
LEMMA SessionRight ==
  ASSUME IInv, NEW x \in Service, s.st \in {"init", "provision"}, ~ Leaving(s),
         SameRail(s, x), SameMemory(s, x), x.st \in {"init", "provision", "ready"},
         CommandInv(x), ~ Leaving(x)
  PROVE  Right(x, wish, shown, lost)
<1>1. ~ s.offPend /\ ~ s.qualify
  BY Known DEF OffInv, FailInv, CommandInv, At
<1>2. ~ x.qualify /\ x.onPend = s.onPend /\ x.offPend = s.offPend /\ OffInv(x)
  BY <1>1 DEF SameMemory, OffInv
<1>3. Leaving(x) = Leaving(s)
  BY DEF Leaving
<1> QED
  BY <1>1, <1>2, <1>3, MoveRight

(* The command of a session that is not ready is at an end.                *)
LEMMA SessionIdle ==
  ASSUME IInv, s.cmd \in {"init", "query", "set", "reboot"}
  PROVE  /\ Idle(s) \in Service /\ Idle(s).st = s.st /\ SameRail(s, Idle(s))
         /\ SameMemory(s, Idle(s)) /\ Idle(s).cmd = "none" /\ Idle(s).deferred = "none"
         /\ s.st \in {"init", "provision"} /\ (s.cmd # "init" => s.st = "provision")
         /\ ~ Leaving(s) /\ Right(Idle(s), wish, shown, lost)
<1>1. /\ s.deferred = "none" /\ s.st \in {"init", "provision"} /\ ~ s.offPend
      /\ (s.cmd # "init" => s.st = "provision")
  BY Known DEF CommandInv, At, OffInv
<1>2. /\ Idle(s) \in Service /\ Idle(s).st = s.st /\ SameRail(s, Idle(s))
      /\ SameMemory(s, Idle(s)) /\ Idle(s).cmd = "none" /\ Idle(s).deferred = s.deferred
  BY Known, IdleFacts
<1>3. Right(Idle(s), wish, shown, lost)
  BY <1>1, IdleRight
<1> QED
  BY <1>1, <1>2, <1>3 DEF Leaving

LEMMA PhaseRight ==
  ASSUME IInv, s.cmd \in {"query", "set", "reboot"},
         NEW p \in {"query", "set", "verify", "done"}, NEW b \in BOOLEAN,
         NEW x \in {[Idle(s) EXCEPT !.phase = p], [Idle(s) EXCEPT !.phase = p, !.rebootReq = b]}
  PROVE  Right(x, wish, shown, lost)
<1> DEFINE i == Idle(s)
<1>1. /\ i \in Service /\ i.st = "provision" /\ SameRail(s, i) /\ SameMemory(s, i)
      /\ i.cmd = "none" /\ i.deferred = "none" /\ s.st \in {"init", "provision"} /\ ~ Leaving(s)
  BY SessionIdle
<1>2. x \in {[i EXCEPT !.phase = p], [i EXCEPT !.phase = p, !.rebootReq = b]}
  OBVIOUS
<1> HIDE DEF i
<1>3. /\ x \in Service /\ x.st = i.st /\ SameRail(i, x)
      /\ SameMemory(i, x) /\ SameCommand(i, x)
  <2>1. CASE x = [i EXCEPT !.phase = p]
    BY <1>1, <2>1, PhaseFacts
  <2>2. CASE x = [i EXCEPT !.phase = p, !.rebootReq = b]
    BY <1>1, <2>2, PhaseFacts
  <2> QED
    BY <1>2, <2>1, <2>2
<1>4. /\ SameRail(s, x) /\ SameMemory(s, x) /\ CommandInv(x) /\ ~ Leaving(x)
      /\ x.st = "provision"
  BY <1>1, <1>3 DEF SameRail, SameMemory, SameCommand, CommandInv, At, Leaving
<1> QED
  BY <1>1, <1>3, <1>4, SessionRight

LEMMA AnsweredKept == ASSUME IInv, NEW x, Right(x, wish, shown, lost), Answered(x) PROVE Kept
BY CalmKept DEF Answered

LEMMA MishapKept ==
  ASSUME IInv, NEW again, NEW skip, Right(again, wish, shown, lost),
         Right(skip, wish, shown, lost), Mishap(again, skip)
  PROVE  Kept
<1>1. PICK x \in {again, skip, Fail(s, TRUE)} : Silent(x)
  BY DEF Mishap
<1>2. Right(Fail(s, TRUE), wish, shown, lost)
  BY Known, FailRight
<1>3. Right(x, wish, shown, lost)
  BY <1>1, <1>2
<1> QED
  BY <1>1, <1>3, CalmKept

LEMMA BeginProvisionRight ==
  ASSUME IInv, s.cmd = "init" PROVE Right(BeginProvision(Idle(s)), wish, shown, lost)
<1> DEFINE i == Idle(s)
           x == BeginProvision(i)
<1>1. /\ i \in Service /\ SameRail(s, i) /\ SameMemory(s, i)
      /\ i.cmd = "none" /\ i.deferred = "none" /\ s.st \in {"init", "provision"} /\ ~ Leaving(s)
  BY SessionIdle
<1> HIDE DEF i
<1>2. /\ x \in Service /\ x.st = "provision" /\ SameRail(i, x)
      /\ SameMemory(i, x) /\ SameCommand(i, x)
  BY <1>1, ProvisionFacts
<1> HIDE DEF x
<1>3. SameRail(s, x) /\ SameMemory(s, x) /\ CommandInv(x) /\ ~ Leaving(x)
  BY <1>1, <1>2 DEF SameRail, SameMemory, SameCommand, CommandInv, At, Leaving
<1>4. Right(x, wish, shown, lost)
  BY <1>1, <1>2, <1>3, SessionRight
<1> QED
  BY <1>4 DEF x, i

LEMMA InitKept == ASSUME IInv, InitDone \/ InitFails PROVE Kept
<1>1. s.cmd = "init"
  BY DEF InitDone, InitFails, Ends
<1>2. Right(Idle(s), wish, shown, lost) /\ Right(BeginProvision(Idle(s)), wish, shown, lost)
  BY <1>1, SessionIdle, BeginProvisionRight
<1> QED
  BY <1>2, AnsweredKept, MishapKept DEF InitDone, InitFails

LEMMA QueryDoneKept == ASSUME IInv, QueryDone PROVE Kept
<1>1. s.cmd = "query"
  BY DEF QueryDone, Ends
<1>2. CASE Answered([Idle(s) EXCEPT !.phase = "done"])
  BY <1>1, <1>2, PhaseRight, AnsweredKept
<1>3. CASE Answered([Idle(s) EXCEPT !.phase = "set"])
  BY <1>1, <1>3, PhaseRight, AnsweredKept
<1>4. CASE \E must \in BOOLEAN : Answered(Written(Idle(s), must))
  <2>1. PICK must \in BOOLEAN : Answered(Written(Idle(s), must))
    BY <1>4
  <2>2. Idle(s).rebootReq \in BOOLEAN
    BY <1>1, SessionIdle DEF Service
  <2>3. PICK b \in BOOLEAN : b = (Idle(s).rebootReq \/ must)
    BY <2>2
  <2>4. Written(Idle(s), must) = [Idle(s) EXCEPT !.phase = "done", !.rebootReq = b]
    BY <2>3, Zenon DEF Written
  <2>5. Right(Written(Idle(s), must), wish, shown, lost)
    BY <1>1, <2>4, PhaseRight
  <2> QED
    BY <2>1, <2>5, AnsweredKept
<1> QED
  BY <1>2, <1>3, <1>4 DEF QueryDone

LEMMA QueryFailsKept == ASSUME IInv, QueryFails PROVE Kept
<1>1. s.cmd = "query"
  BY DEF QueryFails, Ends
<1>2. PICK phase \in {s.phase} \cup (IF s.phase = "verify" THEN {"set"} ELSE {}) :
        Mishap([Idle(s) EXCEPT !.phase = phase], [Idle(s) EXCEPT !.phase = "done"])
  BY DEF QueryFails
<1>3. phase \in {"query", "set", "verify", "done"}
  BY <1>2, Known DEF Service
<1>4. /\ Right([Idle(s) EXCEPT !.phase = phase], wish, shown, lost)
      /\ Right([Idle(s) EXCEPT !.phase = "done"], wish, shown, lost)
  BY <1>1, <1>3, PhaseRight
<1> QED
  BY <1>2, <1>4, MishapKept

LEMMA SetKept == ASSUME IInv, SetDone \/ SetFails PROVE Kept
<1>1. s.cmd = "set"
  BY DEF SetDone, SetFails, Ends
<1>2. /\ Right(Idle(s), wish, shown, lost)
      /\ Right([Idle(s) EXCEPT !.phase = "done"], wish, shown, lost)
      /\ Right([Idle(s) EXCEPT !.phase = "verify"], wish, shown, lost)
  BY <1>1, SessionIdle, PhaseRight
<1>3. CASE SetDone
  BY <1>2, <1>3, AnsweredKept DEF SetDone
<1>4. CASE SetFails
  <2>1. CASE Mishap(Idle(s), [Idle(s) EXCEPT !.phase = "done"])
    BY <1>2, <2>1, MishapKept
  <2>2. CASE Silent([Idle(s) EXCEPT !.phase = "verify"])
    BY <1>2, <2>2, CalmKept
  <2> QED
    BY <1>4, <2>1, <2>2 DEF SetFails
<1> QED
  BY <1>3, <1>4

LEMMA RebootDoneKept == ASSUME IInv, RebootDone PROVE Kept
<1> DEFINE i == Idle(s)
           z == [i EXCEPT !.rebooted = TRUE, !.rebootReq = FALSE, !.cycle = TRUE]
           x == ReinitWait(z)
<1>1. s.cmd = "reboot" /\ Calm(x)
  BY DEF RebootDone, Ends, RebootWait
<1>2. /\ i \in Service /\ SameRail(s, i) /\ SameMemory(s, i) /\ i.cmd = "none"
      /\ i.deferred = "none" /\ s.st = "provision" /\ ~ Leaving(s)
  BY <1>1, SessionIdle
<1> HIDE DEF i
<1>3. i \in Service
  BY <1>2
<1>4. z \in Service
  BY <1>3, Updates, Zenon
<1>5. /\ SameRail(i, z) /\ SameMemory(i, z) /\ z.cmd = i.cmd /\ z.deferred = i.deferred
  BY <1>3 DEF Service, SameRail, SameMemory
<1> HIDE DEF z
<1>6. /\ x \in Service /\ x.st = "modwait" /\ ~ x.qualify /\ x.cmd = z.cmd
      /\ x.deferred = z.deferred /\ x.onPend = z.onPend /\ x.offPend = z.offPend
      /\ SameRail(z, x)
  BY <1>4, ReinitFacts
<1> HIDE DEF x
<1>7. /\ SameRail(s, x) /\ x.onPend = s.onPend /\ x.offPend = s.offPend
      /\ CommandInv(x) /\ ~ Leaving(x)
  BY <1>2, <1>5, <1>6 DEF SameRail, SameMemory, CommandInv, At, Leaving
<1>8. ~ s.offPend
  BY <1>1, Known DEF OffInv, CommandInv, At
<1>9. Leaving(x) = Leaving(s) /\ OffInv(x)
  BY <1>2, <1>7, <1>8 DEF Leaving, OffInv
<1>10. Right(x, wish, shown, lost)
  BY <1>2, <1>6, <1>7, <1>9, MoveRight
<1> QED
  BY <1>1, <1>10, CalmKept

LEMMA RebootRefusedKept == ASSUME IInv, RebootRefused PROVE Kept
BY Known, FailRight, CalmKept DEF RebootRefused

LEMMA OffDoneKept == ASSUME IInv, OffDone PROVE Kept
<1>1. s.cmd = "off" /\ Calm(BeginDischarge(s))
  BY DEF OffDone, Ends
<1>2. /\ ~ s.offPend /\ ~ s.qualify /\ s.deferred = "none" /\ Leaving(s) /\ s.st # "off"
  BY <1>1, Known DEF OffInv, FailInv, CommandInv, At, Leaving, Live
<1>3. Right(BeginDischarge(s), wish, shown, lost)
  BY <1>2, Known, DischargeRight
<1> QED
  BY <1>1, <1>3, CalmKept

LEMMA WorkDoneKept == ASSUME IInv, WorkDone PROVE Kept
<1>1. s.cmd = "work" /\ (Answered(Idle(s)) \/ Silent(Idle(s)))
  BY DEF WorkDone, Ends
<1>2. ~ s.offPend
  BY <1>1, Known DEF OffInv, CommandInv, At
<1>3. Right(Idle(s), wish, shown, lost)
  BY <1>1, <1>2, IdleRight
<1> QED
  BY <1>1, <1>3, AnsweredKept, CalmKept

LEMMA ReadDoneKept == ASSUME IInv, ReadDone PROVE Kept
<1> DEFINE x == Idle(s)
           z == [x EXCEPT !.offPend = FALSE]
<1>1. PICK awake \in BOOLEAN, armed \in BOOLEAN :
        /\ s.cmd \in {"sim", "sms", "simdrain", "smsdrain"}
        /\ Answered(IF x.offPend THEN BeginOff(z, True, awake, armed) ELSE x)
  BY DEF ReadDone, Ends, Reads, Drains
<1> DEFINE u == BeginOff(z, True, awake, armed)
<1>2. s.st = "ready" /\ s.deferred = "none" /\ ~ s.qualify
  BY <1>1, Known DEF CommandInv, At, FailInv
<1>3. /\ x \in Service /\ x.st = "ready" /\ SameRail(s, x) /\ SameMemory(s, x)
      /\ x.cmd = "none"
  BY <1>2, Known, IdleFacts
<1>4. CASE ~ x.offPend
  <2>1. ~ s.offPend
    BY <1>3, <1>4 DEF SameMemory
  <2>2. Right(x, wish, shown, lost)
    BY <1>1, <2>1, IdleRight
  <2> HIDE DEF x
  <2> QED
    BY <1>1, <1>4, <2>2, AnsweredKept
<1>5. CASE x.offPend
  <2> HIDE DEF x
  <2>1. x \in Service
    BY <1>3
  <2>2. z \in Service
    BY <2>1, Updates, Zenon
  <2>3. z.st = x.st /\ z.cmd = x.cmd /\ ~ z.offPend /\ z.qualify = x.qualify /\ SameRail(x, z)
    BY <2>1 DEF Service, SameRail
  <2> HIDE DEF z
  <2>4. /\ u \in Service /\ u.st = z.st /\ SameRail(z, u)
        /\ ~ u.onPend /\ ~ u.offPend /\ u.qualify = z.qualify
        /\ \/ u.cmd = "off" /\ u.deferred = "none"
           \/ u.cmd = "none" /\ u.deferred = "off" /\ u.waking
    BY <1>3, <2>2, <2>3, BeginOffLive DEF Live
  <2>5. Answered(u)
    BY <1>1, <1>5
  <2> HIDE DEF u
  <2>6. wish = "off"
    BY <1>3, <1>5, Known DEF SameMemory, IInv, Intent
  <2>7. /\ u.st = "ready" /\ SameRail(s, u) /\ ~ u.qualify /\ CommandInv(u) /\ Leaving(u)
    BY <1>2, <1>3, <2>3, <2>4 DEF SameRail, SameMemory, CommandInv, At, Leaving, Live
  <2>8. Right(u, wish, shown, lost)
    BY <2>4, <2>6, <2>7, LeaveRight
  <2> QED
    BY <2>5, <2>8, AnsweredKept
<1> QED
  BY <1>4, <1>5

(* A read that cannot be aborted is waited for, and a shutdown with it.    *)
LEMMA DrainRight ==
  ASSUME IInv, s.cmd \in {"sim", "sms"}, NEW c \in {"simdrain", "smsdrain"},
         NEW x, x = [s EXCEPT !.cmd = c]
  PROVE  Right(x, wish, shown, lost)
<1>1. x \in Service
  <2>1. c \in Commands \cup Drains \cup {"none"}
    BY Names
  <2>2. [s EXCEPT !.cmd = c] \in Service
    BY <2>1, Known, Updates, Zenon
  <2> QED
    BY <2>2
<1>2. /\ x.st = s.st /\ SameRail(s, x) /\ SameRung(s, x) /\ SameMemory(s, x)
      /\ x.cmd = c /\ x.deferred = s.deferred
  BY Known DEF Service, SameRail, SameRung, SameMemory
<1>3. CommandInv(x) /\ OffInv(x) /\ FailInv(x) /\ Leaving(x) = Leaving(s)
  BY <1>2, Known DEF CommandInv, At, OffInv, FailInv, Leaving, SameMemory, SameRail
<1> QED
  BY <1>1, <1>2, <1>3, SameRight DEF SameRung

LEMMA ReadLateKept == ASSUME IInv, ReadLate PROVE Kept
<1>1. CASE Ends({"sim"}) /\ Silent([s EXCEPT !.cmd = "simdrain"])
  BY <1>1, DrainRight, CalmKept DEF Ends
<1>2. CASE Ends({"sms"}) /\ Silent([s EXCEPT !.cmd = "smsdrain"])
  BY <1>2, DrainRight, CalmKept DEF Ends
<1>3. CASE Silent(Fail([s EXCEPT !.failure = s.offPend], TRUE))
  <2> DEFINE z == [s EXCEPT !.failure = s.offPend]
  <2>1. s.offPend \in BOOLEAN
    BY Known DEF Service
  <2>2. z \in Service
    BY <2>1, Known, Updates, Zenon
  <2>3. SameRail(s, z) /\ z.onPend = s.onPend
    BY Known DEF Service, SameRail
  <2>4. Silent(Fail(z, TRUE))
    BY <1>3
  <2> HIDE DEF z
  <2> QED
    BY <2>2, <2>3, <2>4, FailRight, CalmKept
<1>4. CASE Silent(Fail(s, TRUE))
  BY <1>4, Known, FailRight, CalmKept
<1> QED
  BY <1>1, <1>2, <1>3, <1>4 DEF ReadLate

(* The wait for the module goes on from where a start has come to.         *)
LEMMA WaitRight ==
  ASSUME IInv, s.st \in {"pulse", "railwait"}, s.deferred = "none",
         NEW x, x = EnterModuleWait(s)
  PROVE  Right(x, wish, shown, lost)
<1>1. /\ x \in Service /\ x.st = "modwait" /\ ~ x.qualify
      /\ x.onPend = s.onPend /\ x.offPend = s.offPend
      /\ SameRail(s, x) /\ SameCommand(s, x)
  BY Known, EnterModuleWaitFacts
<1>2. CommandInv(x) /\ OffInv(x) /\ Leaving(x) = Leaving(s)
  BY <1>1, Known DEF CommandInv, At, OffInv, Leaving, SameCommand, Live
<1> QED
  BY <1>1, <1>2, MoveRight

LEMMA PulseEndsKept == ASSUME IInv, PulseEnds PROVE Kept
<1>1. s.st = "pulse" /\ s.deferred = "none"
  BY Known DEF PulseEnds, CommandInv, At, Live, Service, Commands, Reads
<1>2. Right(EnterModuleWait(s), wish, shown, lost)
  BY <1>1, WaitRight
<1> QED
  BY <1>2, CalmKept DEF PulseEnds

(* What it means that the service is free to go on.                        *)
LEMMA FreeFacts ==
  ASSUME IInv, Free
  PROVE  /\ s.cmd = "none" /\ s.deferred = "none"
         /\ s.st \notin {"railwait", "pulse", "modwait", "probe"} => ~ s.offPend
BY Known DEF Free, OffInv

LEMMA AdvanceOffKept == ASSUME IInv, AdvanceOff PROVE Kept
<1> DEFINE n == [s EXCEPT !.dwell = "none"]
           d == [s EXCEPT !.dwell = "running", !.moved = FALSE]
           z == [s EXCEPT !.onPend = FALSE]
<1>1. s.st = "off" /\ s.deferred = "none" /\ ~ s.offPend /\ ~ s.owner /\ s.cmd = "none"
  BY FreeFacts, Known DEF AdvanceOff, FailInv
<1>2. \/ Calm(n) \/ Calm(d)
      \/ ~ audio /\ s.dwell = "over" /\ ~ s.moved /\ s.onPend /\ Calm(BeginOn(z))
  BY DEF AdvanceOff, StartDwell, DwellStale
<1>3. n \in Service /\ d \in Service /\ z \in Service
  BY Known, Updates, Zenon
<1>4. \A x \in {n, d} :
        /\ x.st = "off" /\ x.cmd = s.cmd /\ x.deferred = s.deferred /\ x.onPend = s.onPend
        /\ x.offPend = s.offPend /\ x.qualify = s.qualify /\ x.owner = s.owner
        /\ x.failure = s.failure /\ x.dwell # "over"
  BY <1>1, Known DEF Service
<1>5. z.st = "off" /\ z.deferred = "none"
  BY <1>1, Known DEF Service
<1> HIDE DEF n, d, z
<1>6. ASSUME NEW x \in {n, d} PROVE Right(x, wish, shown, lost)
  <2>1. /\ x.st = "off" /\ x.cmd = s.cmd /\ x.deferred = s.deferred /\ x.onPend = s.onPend
        /\ x.offPend = s.offPend /\ x.qualify = s.qualify /\ x.owner = s.owner
        /\ x.failure = s.failure /\ x.dwell # "over" /\ x \in Service
    BY <1>3, <1>4
  <2>2. Cold(x) /\ Held(x) /\ FromCold(x) /\ Dark(x)
    BY <1>1, <2>1 DEF Cold, Held, FromCold, Dark
  <2>3. CommandInv(x) /\ OffInv(x) /\ FailInv(x)
    BY <1>1, <2>1, Known DEF CommandInv, At, OffInv, FailInv
  <2>4. Intent(x, wish, shown, lost)
    BY <1>1, <2>1 DEF IInv, Intent, Leaving
  <2> QED
    BY <2>1, <2>2, <2>3, <2>4 DEF Right, Good
<1>7. CASE Calm(n) \/ Calm(d)
  <2>1. Right(n, wish, shown, lost) /\ Right(d, wish, shown, lost)
    BY <1>6
  <2> QED
    BY <1>7, <2>1, CalmKept
<1>8. CASE ~ audio /\ s.dwell = "over" /\ ~ s.moved /\ s.onPend /\ Calm(BeginOn(z))
  <2>1. wish = "off" => lost
    BY <1>1, <1>8 DEF IInv, Intent
  <2>2. Right(BeginOn(z), wish, shown, lost)
    BY <1>1, <1>3, <1>5, <1>8, <2>1, Known, OnRight
  <2> QED
    BY <1>8, <2>2, CalmKept
<1> QED
  BY <1>2, <1>7, <1>8

LEMMA DischargePulseEndsKept == ASSUME IInv, DischargePulseEnds PROVE Kept
<1> DEFINE x == [s EXCEPT !.pulsing = FALSE, !.sense = "no"]
<1>1. Calm(x) /\ s.st = "discharge"
  BY DEF DischargePulseEnds
<1>2. x \in Service
  BY Known, Updates, Zenon
<1>3. /\ x.st = s.st /\ SameRail(s, x) /\ SameMemory(s, x) /\ SameCommand(s, x)
      /\ ~ x.pulsing
  BY Known DEF Service, SameRail, SameMemory, SameCommand
<1> HIDE DEF x
<1>4. CommandInv(x) /\ OffInv(x) /\ FailInv(x) /\ Leaving(x) = Leaving(s)
  BY <1>3, Known DEF CommandInv, OffInv, FailInv, Leaving, SameMemory, SameCommand, SameRail
<1>5. Right(x, wish, shown, lost)
  BY <1>2, <1>3, <1>4, SameRight
<1> QED
  BY <1>1, <1>5, CalmKept

(* The next rung of the ladder is taken, or there is none.                 *)
LEMMA NextRungRight ==
  ASSUME IInv, Free, s.st = "discharge", NEW y \in Service, SameRail(s, y),
         SameMemory(s, y), SameCommand(s, y), y.st = "discharge",
         NEW armed, NEW r, NEW x, x = NextRung(y, armed, r)
  PROVE  Right(x, wish, shown, lost)
<1>1. /\ s.cmd = "none" /\ s.deferred = "none" /\ ~ s.offPend /\ ~ s.qualify /\ s.parked
      /\ Leaving(s)
  BY FreeFacts, Known DEF FailInv, Leaving
<1>2. /\ wish \in {"on", "off"} /\ (wish = "on" => s.onPend)
      /\ (wish = "off" => lost \/ ~ s.onPend)
  BY <1>1, Known DEF IInv, Intent
<1>3. Right(Terminal(y, r), wish, shown, lost)
  BY <1>1, <1>2, TerminalRight DEF SameMemory
<1>4. ASSUME NEW stage \in {"graceful", "unconditional"}, x = StartFallback(y, stage, armed, r)
      PROVE  Right(x, wish, shown, lost)
  <2>1. audio \in BOOLEAN
    BY Known
  <2>2. \/ /\ x \in Service /\ x.st = y.st
           /\ SameRail(y, x) /\ SameCommand(y, x) /\ SameMemory(y, x)
        \/ x = Terminal(y, r)
    BY <1>4, <2>1, StartFallbackFacts
  <2>3. CASE x = Terminal(y, r)
    BY <1>3, <2>3
  <2>4. CASE /\ x \in Service /\ x.st = y.st
             /\ SameRail(y, x) /\ SameCommand(y, x) /\ SameMemory(y, x)
    <3>1. /\ SameRail(s, x) /\ x.parked /\ x.onPend = s.onPend /\ x.offPend = s.offPend
          /\ ~ x.qualify /\ CommandInv(x) /\ OffInv(x)
      BY <1>1, <2>4 DEF SameRail, SameMemory, SameCommand, CommandInv, At, OffInv
    <3>2. Leaving(x) = Leaving(s)
      BY <2>4 DEF Leaving
    <3> QED
      BY <2>4, <3>1, <3>2, MoveRight
  <2> QED
    BY <2>2, <2>3, <2>4
<1>5. \/ x = StartFallback(y, "graceful", armed, r)
      \/ x = StartFallback(y, "unconditional", armed, r)
      \/ x = Terminal(y, r)
  BY DEF NextRung
<1> QED
  BY <1>3, <1>4, <1>5

LEMMA AdvanceDischargeKept == ASSUME IInv, AdvanceDischarge PROVE Kept
<1>1. PICK r \in Reading, late \in BOOLEAN :
        /\ Free /\ s.st = "discharge" /\ Sample(r)
        /\ LET x == Sensed(s, r) IN
           IF Complete(s, r) THEN ~late /\ Steps(EnterOff(x))
           ELSE IF late THEN \E armed \in BOOLEAN : Steps(NextRung(x, armed, r))
           ELSE x # s /\ Steps(x)
  BY DEF AdvanceDischarge
<1> DEFINE y == Sensed(s, r)
<1>2. /\ y \in Service /\ y.st = "discharge" /\ SameRail(s, y) /\ SameRung(s, y)
      /\ SameMemory(s, y) /\ SameCommand(s, y)
  BY <1>1, Known, SensedFacts
<1>3. \/ Complete(s, r) /\ Steps(EnterOff(y))
      \/ \E armed \in BOOLEAN : Steps(NextRung(y, armed, r))
      \/ Steps(y)
  BY <1>1
<1> HIDE DEF y
<1>4. faults' \in 0 .. MaxFaults /\ (Complete(s, r) => mod # "on")
  BY <1>1, SampleFacts
<1>5. CASE Complete(s, r) /\ Steps(EnterOff(y))
  <2>1. (wish = "off" => lost \/ ~ y.onPend) /\ (wish = "on" => y.onPend)
    BY <1>1, <1>2, FreeFacts DEF SameMemory, IInv, Intent, Leaving
  <2>2. Right(EnterOff(y), wish, shown, lost)
    BY <1>1, <1>2, <1>4, <1>5, <2>1, OffRight
  <2> QED
    BY <1>4, <1>5, <2>2, StepsKept
<1>6. CASE \E armed \in BOOLEAN : Steps(NextRung(y, armed, r))
  BY <1>1, <1>2, <1>4, <1>6, NextRungRight, StepsKept
<1>7. CASE Steps(y)
  <2>1. CommandInv(y) /\ OffInv(y) /\ FailInv(y) /\ Leaving(y) = Leaving(s)
    BY <1>1, <1>2, Known DEF CommandInv, OffInv, FailInv, Leaving, SameMemory, SameCommand, SameRail
  <2>2. Right(y, wish, shown, lost)
    BY <1>1, <1>2, <2>1, SameRight DEF SameRung
  <2> QED
    BY <1>4, <1>7, <2>2, StepsKept
<1> QED
  BY <1>3, <1>5, <1>6, <1>7

LEMMA RailGoodKept == ASSUME IInv, RailGood PROVE Kept
<1>1. PICK r \in Reading :
        /\ Free /\ s.st = "railwait" /\ Sample(r)
        /\ Steps(IF r = "on" THEN EnterModuleWait(s) ELSE [s EXCEPT !.st = "pulse"])
  BY DEF RailGood
<1> DEFINE x == [s EXCEPT !.st = "pulse"]
<1>2. faults' \in 0 .. MaxFaults
  BY <1>1, FaultCount
<1>3. Right(EnterModuleWait(s), wish, shown, lost)
  BY <1>1, FreeFacts, WaitRight
<1>4. Right(x, wish, shown, lost)
  <2>1. x \in Service
    BY Known, Updates, Names, Zenon
  <2>2. /\ x.st = "pulse" /\ SameRail(s, x) /\ SameMemory(s, x) /\ SameCommand(s, x)
    BY Known DEF Service, SameRail, SameMemory, SameCommand
  <2> HIDE DEF x
  <2>3. s.cmd = "none" /\ s.deferred = "none" /\ ~ s.qualify
    BY <1>1, FreeFacts, Known DEF FailInv
  <2>4. /\ x.onPend = s.onPend /\ x.offPend = s.offPend /\ ~ x.qualify
        /\ CommandInv(x) /\ OffInv(x)
    BY <2>2, <2>3, Known DEF SameMemory, SameCommand, CommandInv, At, OffInv
  <2>5. Leaving(x) = Leaving(s)
    BY <1>1, <2>2 DEF Leaving, SameCommand
  <2> QED
    BY <1>1, <2>1, <2>2, <2>4, <2>5, MoveRight
<1> HIDE DEF x
<1>5. Steps(EnterModuleWait(s)) \/ Steps(x)
  BY <1>1 DEF x
<1> QED
  BY <1>2, <1>3, <1>4, <1>5, StepsKept

(* A failure that leaves nothing live takes the rail.  The module is off.  *)
LEMMA DeadRight ==
  ASSUME IInv, mod = "off", NEW z \in Service, SameRail(s, z), z.onPend = s.onPend,
         NEW x, x = Fail(z, FALSE)
  PROVE  Right(x, wish, shown, lost)
<1>1. /\ x \in Service
      /\ x.st = "failed" /\ x.cmd = "none" /\ x.deferred = "none" /\ ~ x.live
      /\ ~ x.qualify /\ ~ x.offPend /\ ~ x.pulsing
      /\ x.onPend = z.onPend
      /\ ~ x.owner /\ x.dwell = z.dwell
      /\ z.moved \/ (z.owner /\ ~ audio) => x.moved
  BY Known, FailDead
<1>2. Cold(x)
  BY <1>1 DEF Cold, SameRail
<1>3. Held(x) /\ FromCold(x) /\ Dark(x)
  BY <1>1 DEF Held, FromCold, Dark
<1>4. CommandInv(x) /\ OffInv(x) /\ FailInv(x)
  BY <1>1 DEF CommandInv, At, OffInv, FailInv
<1>5. Intent(x, wish, shown, lost)
  BY <1>1, Known DEF IInv, OffInv, Intent, Leaving
<1> QED
  BY <1>1, <1>2, <1>3, <1>4, <1>5 DEF Right, Good

LEMMA RailLateKept == ASSUME IInv, RailLate PROVE Kept
<1> DEFINE y == Fail(s, FALSE)
           x == [y EXCEPT !.supply = TRUE]
<1>1. Faulty(x) /\ mod = "off"
  BY DEF RailLate, FailSupply, IInv, RailInv
<1>2. Right(y, wish, shown, lost)
  BY <1>1, Known, DeadRight
<1> HIDE DEF y
<1>3. Right(x, wish, shown, lost)
  BY <1>2, SupplyRight
<1> HIDE DEF x
<1> QED
  BY <1>1, <1>3, CalmKept

LEMMA ModuleWaitSupplyKept == ASSUME IInv, ModuleWaitSupply PROVE Kept
<1> DEFINE y == Fail(s, TRUE)
           x == [y EXCEPT !.supply = TRUE]
<1>1. Faulty(x)
  BY DEF ModuleWaitSupply, FailSupply
<1>2. Right(y, wish, shown, lost)
  BY Known, FailRight
<1> HIDE DEF y
<1>3. Right(x, wish, shown, lost)
  BY <1>2, SupplyRight
<1> HIDE DEF x
<1> QED
  BY <1>1, <1>3, CalmKept

(* v waits for the module as s does.                                       *)
Waiting(v) ==
    /\ v \in Service /\ v.st = "modwait" /\ SameRail(s, v)
    /\ v.cmd = "none" /\ v.deferred = "none"
    /\ v.onPend = s.onPend /\ v.offPend = s.offPend /\ ~ v.qualify

LEMMA WaitingRight ==
  ASSUME IInv, Free, s.st = "modwait", NEW v, Waiting(v)
  PROVE  Right(v, wish, shown, lost)
<1>1. CommandInv(v) /\ OffInv(v) /\ Leaving(v) = Leaving(s)
  BY FreeFacts, Known DEF Waiting, CommandInv, At, OffInv, Leaving
<1> QED
  BY <1>1, MoveRight DEF Waiting

LEMMA NoteDropWaiting ==
  ASSUME NEW v, Waiting(v), NEW x, x = NoteDrop(v)
  PROVE  Waiting(x)
<1>1. v \in Service
  BY DEF Waiting
<1>2. NoteDrop(v) \in Service
  BY <1>1, Updates, Zenon DEF NoteDrop, Asleep
<1>3. /\ x.st = v.st /\ SameRail(v, x) /\ x.cmd = v.cmd /\ x.deferred = v.deferred
      /\ x.onPend = v.onPend /\ x.offPend = v.offPend /\ x.qualify = v.qualify
  BY <1>1 DEF NoteDrop, Asleep, Service, SameRail
<1> QED
  BY <1>2, <1>3 DEF Waiting, SameRail

LEMMA UnparkWaiting ==
  ASSUME NEW v, Waiting(v), NEW x, x = [v EXCEPT !.parked = FALSE]
  PROVE  Waiting(x)
<1>1. v \in Service
  BY DEF Waiting
<1>2. [v EXCEPT !.parked = FALSE] \in Service
  BY <1>1, Updates, Zenon
<1>3. /\ x.st = v.st /\ SameRail(v, x) /\ x.cmd = v.cmd /\ x.deferred = v.deferred
      /\ x.onPend = v.onPend /\ x.offPend = v.offPend /\ x.qualify = v.qualify
  BY <1>1 DEF Service, SameRail
<1> QED
  BY <1>2, <1>3 DEF Waiting, SameRail

(* The module answers: the session is probed.                              *)
LEMMA ProbeRight ==
  ASSUME IInv, Free, s.st = "modwait", NEW v, Waiting(v),
         NEW x, x = [v EXCEPT !.cycle = FALSE, !.st = "probe"]
  PROVE  Right(x, wish, shown, lost)
<1>1. v \in Service
  BY DEF Waiting
<1>2. x \in Service
  <2>1. [v EXCEPT !.cycle = FALSE, !.st = "probe"] \in Service
    BY <1>1, Updates, Names, Zenon
  <2> QED
    BY <2>1
<1>3. /\ x.st = "probe" /\ SameRail(v, x) /\ x.cmd = v.cmd /\ x.deferred = v.deferred
      /\ x.onPend = v.onPend /\ x.offPend = v.offPend /\ x.qualify = v.qualify
  BY <1>1 DEF Service, SameRail
<1>4. /\ SameRail(s, x) /\ x.onPend = s.onPend /\ x.offPend = s.offPend /\ ~ x.qualify
      /\ CommandInv(x) /\ OffInv(x)
  BY <1>3, Known DEF Waiting, SameRail, CommandInv, At, OffInv
<1>5. Leaving(x) = Leaving(s)
  BY <1>3, FreeFacts DEF Waiting, Leaving
<1> QED
  BY <1>2, <1>3, <1>4, <1>5, MoveRight

LEMMA AdvanceModuleWaitKept == ASSUME IInv, AdvanceModuleWait PROVE Kept
<1> DEFINE Seen(r) == Sensed(s, r)
           X(r)    == IF (Seen(r).cycle /\ ~Seen(r).drop) /\ r = "low" THEN NoteDrop(Seen(r)) ELSE Seen(r)
           Y(r, i) == IF r = "on" /\ i THEN [X(r) EXCEPT !.parked = FALSE] ELSE X(r)
<1>1. PICK r \in Reading, idle \in BOOLEAN, late \in BOOLEAN :
        /\ Free /\ s.st = "modwait" /\ Sample(r) /\ (late => mod # "starting")
        /\ IF (Seen(r).cycle /\ ~Seen(r).drop) /\ r # "low"
           THEN IF late THEN Steps(Fail(X(r), TRUE)) ELSE X(r) # s /\ Steps(X(r))
           ELSE IF r = "on" /\ ~Y(r, idle).parked
           THEN Steps([Y(r, idle) EXCEPT !.cycle = FALSE, !.st = "probe"])
           ELSE IF ~late THEN Y(r, idle) # s /\ Steps(Y(r, idle))
           ELSE IF Complete(s, r) /\ Y(r, idle).offPend
           THEN Steps(EnterOff([Y(r, idle) EXCEPT !.offPend = FALSE]))
           ELSE IF Complete(s, r) /\ ~Y(r, idle).recycled
           THEN Steps(EnterOff([Recycled(Y(r, idle)) EXCEPT !.onPend = TRUE]))
           ELSE Steps(Fail(Y(r, idle), ~ Complete(s, r)))
  BY DEF AdvanceModuleWait
<1> DEFINE x == X(r)
           y == Y(r, idle)
<1>2. Waiting(Seen(r))
  <2>1. /\ Seen(r) \in Service /\ Seen(r).st = s.st /\ SameRail(s, Seen(r))
        /\ SameMemory(s, Seen(r)) /\ SameCommand(s, Seen(r))
    BY Known, SensedFacts
  <2> QED
    BY <1>1, <2>1, FreeFacts, Known DEF Waiting, SameMemory, SameCommand, FailInv
<1> HIDE DEF Seen
<1>3. Waiting(x)
  BY <1>2, NoteDropWaiting
<1> HIDE DEF X
<1>4. Waiting(y)
  BY <1>3, UnparkWaiting
<1>5. faults' \in 0 .. MaxFaults /\ (Complete(s, r) => mod # "on")
  BY <1>1, SampleFacts
<1> HIDE DEF Y
<1>6. CASE Steps(X(r)) \/ Steps(Y(r, idle))
  BY <1>1, <1>3, <1>4, <1>5, <1>6, WaitingRight, StepsKept
<1>7. Right(Fail(x, TRUE), wish, shown, lost) /\ Right(Fail(y, TRUE), wish, shown, lost)
  BY <1>3, <1>4, FailRight DEF Waiting
<1>8. CASE Steps(Fail(X(r), TRUE))
  BY <1>5, <1>7, <1>8, StepsKept
<1>9. CASE Steps([Y(r, idle) EXCEPT !.cycle = FALSE, !.st = "probe"])
  BY <1>1, <1>4, <1>5, <1>9, ProbeRight, StepsKept
<1>10. Complete(s, r) /\ late => mod = "off"
  BY <1>1, <1>5 DEF IInv, Env
<1>11. CASE /\ late /\ Complete(s, r) /\ y.offPend
            /\ Steps(EnterOff([y EXCEPT !.offPend = FALSE]))
  <2> DEFINE z == [y EXCEPT !.offPend = FALSE]
  <2>1. y \in Service
    BY <1>4 DEF Waiting
  <2>2. z \in Service
    BY <2>1, Updates, Zenon
  <2>3. z.onPend = y.onPend
    BY <2>1 DEF Service
  <2> HIDE DEF z
  <2>4. ~ z.onPend /\ wish = "off"
    BY <1>4, <1>11, <2>3, Known DEF Waiting, OffInv, IInv, Intent
  <2>5. Right(EnterOff(z), wish, shown, lost)
    BY <1>10, <1>11, <2>2, <2>4, OffRight
  <2> QED
    BY <1>5, <1>11, <2>5, StepsKept DEF z
<1>12. CASE /\ late /\ Complete(s, r) /\ ~ y.offPend
            /\ Steps(EnterOff([Recycled(y) EXCEPT !.onPend = TRUE]))
  <2> DEFINE z == [Recycled(y) EXCEPT !.onPend = TRUE]
  <2>1. y \in Service
    BY <1>4 DEF Waiting
  <2>2. z \in Service
    BY <2>1, Updates, Zenon DEF Recycled
  <2>3. z.onPend
    BY <2>1 DEF Service, Recycled
  <2> HIDE DEF z
  <2>4. wish = "off" => lost
    BY <1>1, <1>4, <1>12, FreeFacts DEF Waiting, IInv, Intent, Leaving
  <2>5. Right(EnterOff(z), wish, shown, lost)
    BY <1>10, <1>12, <2>2, <2>3, <2>4, OffRight
  <2> QED
    BY <1>5, <1>12, <2>5, StepsKept DEF z
<1>13. CASE late /\ Steps(Fail(y, ~ Complete(s, r)))
  <2>1. CASE Complete(s, r)
    <3>1. Fail(y, ~ Complete(s, r)) = Fail(y, FALSE)
      BY <2>1, Zenon
    <3>2. Right(Fail(y, FALSE), wish, shown, lost)
      BY <1>4, <1>10, <1>13, <2>1, DeadRight DEF Waiting
    <3> QED
      BY <1>5, <1>13, <3>1, <3>2, StepsKept
  <2>2. CASE ~ Complete(s, r)
    <3>1. Fail(y, ~ Complete(s, r)) = Fail(y, TRUE)
      BY <2>2, Zenon
    <3> QED
      BY <1>5, <1>7, <1>13, <3>1, StepsKept
  <2> QED
    BY <2>1, <2>2
<1>14. \/ Steps(X(r)) \/ Steps(Y(r, idle)) \/ Steps(Fail(X(r), TRUE))
       \/ Steps([Y(r, idle) EXCEPT !.cycle = FALSE, !.st = "probe"])
       \/ /\ late /\ Complete(s, r) /\ Y(r, idle).offPend
          /\ Steps(EnterOff([Y(r, idle) EXCEPT !.offPend = FALSE]))
       \/ /\ late /\ Complete(s, r) /\ ~ Y(r, idle).offPend
          /\ Steps(EnterOff([Recycled(Y(r, idle)) EXCEPT !.onPend = TRUE]))
       \/ late /\ Steps(Fail(Y(r, idle), ~ Complete(s, r)))
  BY <1>1, Zenon
<1> QED
  BY <1>6, <1>8, <1>9, <1>11, <1>12, <1>13, <1>14

(* A command of a session that has begun is sent, or waits for the wake-up. *)
LEMMA SendRight ==
  ASSUME IInv, Free, NEW kind \in {"ping", "init", "query", "set", "reboot", "work", "sim", "sms"},
         At(kind, s.st), NEW awake, NEW x, x = Send(s, kind, awake)
  PROVE  Right(x, wish, shown, lost) /\ x \in Service /\ SameRail(s, x)
         /\ x.onPend = s.onPend /\ x.offPend = s.offPend
<1>1. s.st \in Live /\ s.cmd = "none" /\ s.deferred = "none" /\ ~ s.qualify
  BY FreeFacts, Known DEF At, Live, FailInv
<1>2. s.st = "probe" \/ ~ s.offPend
  BY <1>1, FreeFacts DEF Live
<1>3. /\ x \in Service /\ x.st = s.st
      /\ \/ x.cmd = kind /\ x.deferred = s.deferred /\ x.waking = s.waking
         \/ x.cmd = s.cmd /\ x.deferred = kind /\ x.waking /\ kind # "ping"
      /\ SameRail(s, x) /\ SameRung(s, x) /\ SameMemory(s, x)
  BY Known, SendFacts DEF Commands, Reads
<1>4. CommandInv(x) /\ Leaving(x) = Leaving(s)
  BY <1>1, <1>3 DEF CommandInv, At, Leaving
<1>5. OffInv(x)
  BY <1>1, <1>2, <1>3, Known DEF OffInv, At, SameMemory
<1>6. /\ x.onPend = s.onPend /\ x.offPend = s.offPend /\ ~ x.qualify
  BY <1>1, <1>3 DEF SameMemory
<1>7. x.st \in Live /\ s.st \notin {"off", "failed"}
  BY <1>1, <1>3 DEF Live
<1>8. x.st \notin {"off", "failed", "railwait", "discharge"}
  BY <1>7 DEF Live
<1> QED
  BY <1>3, <1>4, <1>5, <1>6, <1>7, <1>8, MoveRight

LEMMA AdvanceKept == ASSUME IInv, Advance PROVE Kept
<1>1. PICK awake \in BOOLEAN :
        /\ Free
        /\ \/ s.st = "probe" /\ Calm(Send(s, "ping", awake))
           \/ s.st = "init"  /\ Calm(Send(s, "init", awake))
           \/ s.st = "provision" /\ AdvanceProvision(awake)
  BY DEF Advance
<1> DEFINE r == [s EXCEPT !.st = "ready", !.done = TRUE]
           u == Send(s, "reboot", awake)
           b == [u EXCEPT !.cycle = TRUE, !.drop = FALSE]
<1>2. CASE s.st = "probe" /\ Calm(Send(s, "ping", awake))
  BY <1>1, <1>2, SendRight, CalmKept DEF At
<1>3. CASE s.st = "init"  /\ Calm(Send(s, "init", awake))
  BY <1>1, <1>3, SendRight, CalmKept DEF At
<1>4. CASE s.st = "provision" /\ AdvanceProvision(awake)
  <2>1. \/ Calm(Send(s, "query", awake)) \/ Calm(Send(s, "set", awake))
        \/ Calm(r) \/ Calm(Fail(s, TRUE)) \/ Calm(b)
    BY <1>4 DEF AdvanceProvision
  <2>2. CASE Calm(Send(s, "query", awake)) \/ Calm(Send(s, "set", awake))
    BY <1>1, <1>4, <2>2, SendRight, CalmKept DEF At
  <2>3. CASE Calm(r)
    <3>1. r \in Service
      BY Known, Updates, Names, Zenon
    <3>2. r.st = "ready" /\ SameRail(s, r) /\ SameMemory(s, r) /\ SameCommand(s, r)
      BY Known DEF Service, SameRail, SameMemory, SameCommand
    <3> HIDE DEF r
    <3>3. CommandInv(r) /\ ~ Leaving(r) /\ ~ Leaving(s)
      BY <1>1, <1>4, <3>2, FreeFacts DEF SameCommand, CommandInv, At, Leaving
    <3>4. Right(r, wish, shown, lost)
      BY <1>4, <3>1, <3>2, <3>3, SessionRight
    <3> QED
      BY <2>3, <3>4, CalmKept
  <2>4. CASE Calm(Fail(s, TRUE))
    BY <2>4, Known, FailRight, CalmKept
  <2>5. CASE Calm(b)
    <3>1. /\ u \in Service /\ u.st = s.st
          /\ \/ u.cmd = "reboot" /\ u.deferred = s.deferred /\ u.waking = s.waking
             \/ u.cmd = s.cmd /\ u.deferred = "reboot" /\ u.waking
          /\ SameRail(s, u) /\ SameRung(s, u) /\ SameMemory(s, u)
      BY Known, SendFacts DEF Commands
    <3> HIDE DEF u
    <3>2. u \in Service
      BY <3>1
    <3>3. b \in Service
      BY <3>2, Updates, Zenon
    <3>4. b.st = u.st /\ SameRail(u, b) /\ SameMemory(u, b) /\ SameCommand(u, b)
      BY <3>2 DEF Service, SameRail, SameMemory, SameCommand
    <3> HIDE DEF b
    <3>5. /\ SameRail(s, b) /\ SameMemory(s, b) /\ CommandInv(b) /\ ~ Leaving(b)
          /\ ~ Leaving(s) /\ b.st = "provision"
      BY <1>1, <1>4, <3>1, <3>4, FreeFacts
         DEF SameRail, SameMemory, SameCommand, CommandInv, At, Leaving
    <3>6. Right(b, wish, shown, lost)
      BY <1>4, <3>3, <3>5, SessionRight
    <3> QED
      BY <2>5, <3>6, CalmKept
  <2> HIDE DEF r, b
  <2> QED
    BY <2>1, <2>2, <2>3, <2>4, <2>5
<1> QED
  BY <1>1, <1>2, <1>3, <1>4

LEMMA WorkKept == ASSUME IInv, Work PROVE Kept
<1>1. PICK awake \in BOOLEAN, kind \in {"work", "sim", "sms"} :
        Free /\ s.st = "ready" /\ Calm(Send(s, kind, awake))
  BY DEF Work, Reads
<1>2. At(kind, s.st)
  BY <1>1 DEF At
<1> QED
  BY <1>1, <1>2, SendRight, CalmKept

-----------------------------------------------------------------------------
(* The module, the buzzer, and time.                                       *)

LEMMA ModuleKept == ASSUME IInv, Obeys \/ Boots \/ Drops PROVE Kept
<1>1. /\ UNCHANGED <<s, audio, down, wish, shown, lost, asks, sounds>>
      /\ mod # "off" /\ mod' \in {"off", "starting", "on"}
      /\ order' \in {"none", "leave", "reboot"}
      /\ faults' = faults \/ (faults < MaxFaults /\ faults' = faults + 1)
  BY DEF Obeys, Boots, Drops, Hardware, IInv, Env
<1>2. Good(s)' /\ Env' /\ Intent(s, wish, shown, lost)' /\ RailInv'
  BY <1>1 DEF IInv, Env, RailInv
<1>3. Counts'
  BY <1>1, ModemPowerAssumption DEF IInv, Counts
<1> QED
  BY <1>1, <1>2, <1>3 DEF Kept, IInv, HeldStep, ColdStep

(* Time and the buzzer touch only the rail's part of the service.          *)
LEMMA ApartGood ==
  ASSUME IInv, NEW x \in Service, x.st = s.st, x.owner = s.owner, SameMemory(s, x),
         SameCommand(s, x)
  PROVE  Good(x) /\ Intent(x, wish, shown, lost)
<1>1. CommandInv(x) /\ OffInv(x) /\ FailInv(x)
  BY Known DEF CommandInv, OffInv, FailInv, SameMemory, SameCommand
<1>2. Intent(x, wish, shown, lost)
  BY DEF IInv, Intent, Leaving, SameMemory, SameCommand
<1> QED
  BY <1>1, <1>2 DEF Good

LEMMA LowLastsKept == ASSUME IInv, LowLasts PROVE Kept
<1> DEFINE x == [s EXCEPT !.sense = "past"]
<1>1. s' = x /\ UNCHANGED <<audio, down, mod, order, faults, sounds, wish, shown, lost, asks>>
  BY DEF LowLasts, Hardware, world
<1>2. x \in Service
  BY Known, Updates, Zenon
<1>3. /\ x.st = s.st /\ SameRail(s, x) /\ SameMemory(s, x) /\ SameCommand(s, x)
  BY Known DEF Service, SameRail, SameMemory, SameCommand
<1> HIDE DEF x
<1>4. Good(x) /\ Intent(x, wish, shown, lost)
  BY <1>2, <1>3, ApartGood DEF SameRail
<1>5. Env' /\ RailInv' /\ Counts'
  BY <1>1, <1>3 DEF IInv, Env, RailInv, Counts, SameRail, SameMemory
<1> QED
  BY <1>1, <1>3, <1>4, <1>5 DEF Kept, IInv, HeldStep, ColdStep, SameRail

LEMMA DwellEndsKept == ASSUME IInv, DwellEnds PROVE Kept
<1> DEFINE x == [s EXCEPT !.dwell = "over"]
<1>1. /\ s' = x /\ UNCHANGED <<audio, mod, order, faults, sounds, wish, shown, lost, asks>>
      /\ down' = IF down = "brief" /\ ~s.moved THEN "long" ELSE down
  BY DEF DwellEnds, Hardware
<1>2. x \in Service
  BY Known, Updates, Zenon
<1>3. /\ x.st = s.st /\ x.owner = s.owner /\ x.moved = s.moved
      /\ SameMemory(s, x) /\ SameCommand(s, x)
  BY Known DEF Service, SameMemory, SameCommand
<1> HIDE DEF x
<1>4. Good(x) /\ Intent(x, wish, shown, lost)
  BY <1>2, <1>3, ApartGood
<1>5. Env' /\ RailInv' /\ Counts'
  BY <1>1, <1>3 DEF IInv, Env, RailInv, Counts, SameMemory
<1> QED
  BY <1>1, <1>3, <1>4, <1>5 DEF Kept, IInv, HeldStep, ColdStep

LEMMA SoundKept == ASSUME IInv, SoundBegins \/ SoundEnds PROVE Kept
<1>1. s.moved \in BOOLEAN /\ s.owner \in BOOLEAN
  BY Known DEF Service
<1>2. PICK b \in BOOLEAN : b = (s.moved \/ ~ s.owner)
  BY <1>1
<1> DEFINE x == [s EXCEPT !.moved = b]
<1>3. s' = x
  BY <1>2, Zenon DEF SoundBegins, SoundEnds
<1>4. /\ UNCHANGED <<faults, wish, shown, lost, asks>> /\ sounds' \in 0 .. MaxSounds
      /\ \/ /\ audio' = TRUE /\ down' = "up" /\ UNCHANGED <<mod, order>>
         \/ /\ audio' = FALSE /\ audio /\ s.owner /\ down' = "up" /\ UNCHANGED <<mod, order>>
         \/ /\ audio' = FALSE /\ audio /\ ~ s.owner /\ down' = "brief" /\ mod' = "off"
            /\ order' = "none"
  BY ModemPowerAssumption DEF SoundBegins, SoundEnds, Hardware, IInv, Counts
<1>5. x \in Service
  <2>1. b \in BOOLEAN
    BY <1>2
  <2> QED
    BY <2>1, Known, Updates, Zenon
<1>6. /\ x.st = s.st /\ x.owner = s.owner /\ x.moved = b /\ x.dwell = s.dwell
      /\ SameMemory(s, x) /\ SameCommand(s, x)
  BY Known DEF Service, SameMemory, SameCommand
<1> HIDE DEF x
<1>7. Good(x) /\ Intent(x, wish, shown, lost)
  BY <1>5, <1>6, ApartGood
<1>8. Env'
  BY <1>3, <1>4, <1>6 DEF IInv, Env
<1>9. RailInv' /\ Counts'
  BY <1>2, <1>3, <1>4, <1>6 DEF IInv, Env, RailInv, Counts, SameMemory
<1> QED
  BY <1>3, <1>4, <1>6, <1>7, <1>8, <1>9 DEF Kept, IInv, HeldStep, ColdStep

-----------------------------------------------------------------------------
(* The application.                                                        *)

LEMMA FreshFacts ==
  ASSUME NEW x \in Service, NEW y, y = FreshSession(x)
  PROVE  /\ y \in Service /\ y.st = x.st /\ SameRail(x, y) /\ SameRung(x, y)
         /\ SameMemory(x, y) /\ SameCommand(x, y)
<1>1. 0 \in 0 .. RestartLimit
  BY ModemPowerAssumption
<1>2. FreshSession(x) \in Service
  BY <1>1, Updates, Zenon DEF FreshSession
<1> QED
  BY <1>2 DEF FreshSession, Service, SameRail, SameRung, SameMemory, SameCommand

(* A request to switch on is in force: no shutdown is pending, or it has a *)
(* restart behind it.                                                      *)
LEMMA OnTakes ==
  ASSUME IInv, NEW x \in Service, SameRail(s, x), x.st = s.st, x.live = s.live,
         x.pulsing => x.stage = s.stage,
         CommandInv(x), ~ x.offPend, ~ x.qualify, x.parked = s.parked,
         x.st = "off" \/ Leaving(x) => x.onPend,
         x.st = "failed" /\ ~ x.live => x.cmd = "none" /\ x.deferred = "none"
  PROVE  Right(x, "on", FALSE, FALSE)
<1>1. Cold(x) /\ Held(x) /\ FromCold(x) /\ Dark(x)
  BY DEF Cold, Held, FromCold, Dark, SameRail, IInv, RailInv
<1>2. OffInv(x) /\ FailInv(x)
  BY Known DEF OffInv, FailInv, SameRail
<1>3. Intent(x, "on", FALSE, FALSE)
  BY DEF Intent
<1> QED
  BY <1>1, <1>2, <1>3 DEF Right, Good

(* From a failed session: what is live is waited for, or there is a start  *)
(* to come.                                                                *)
LEMMA OnAfterFailure ==
  ASSUME IInv, s.st = "failed", s.deferred # "off", s.cmd # "off", ~ s.offPend,
         NEW r, NEW x, NEW y, y = [FreshSession(s) EXCEPT !.failure = FALSE],
         x = IF s.live THEN Recover(y, r) ELSE EnterOff([y EXCEPT !.onPend = TRUE])
  PROVE  Right(x, "on", FALSE, FALSE)
<1> DEFINE f == FreshSession(s)
           z == [y EXCEPT !.onPend = TRUE]
<1>1. /\ f \in Service /\ SameRail(s, f) /\ SameMemory(s, f) /\ SameCommand(s, f)
  BY Known, FreshFacts
<1>2. y = [f EXCEPT !.failure = FALSE]
  OBVIOUS
<1> HIDE DEF f
<1>3. f \in Service
  BY <1>1
<1>4. y \in Service
  <2>1. [f EXCEPT !.failure = FALSE] \in Service
    BY <1>3, Updates, Zenon
  <2> QED
    BY <1>2, <2>1
<1>5. SameRail(f, y) /\ SameCommand(f, y) /\ y.offPend = f.offPend
  BY <1>2, <1>3 DEF Service, SameRail, SameCommand
<1>6. s.cmd = "none" /\ s.deferred = "none"
  BY Known DEF CommandInv, At, Live, Service, Commands, Reads, Drains
<1>7. SameRail(s, y) /\ y.cmd = "none" /\ y.deferred = "none" /\ ~ y.offPend
  BY <1>1, <1>5, <1>6 DEF SameRail, SameCommand, SameMemory
<1>8. CASE s.live
  <2>0. x = Recover(y, r)
    BY <1>8
  <2>1. /\ x \in Service
        /\ x.st = "modwait" /\ ~ x.qualify /\ ~ x.onPend /\ ~ x.waking
        /\ x.cmd = y.cmd /\ x.deferred = y.deferred
        /\ x.offPend = y.offPend /\ SameRail(y, x)
    BY <1>4, <2>0, RecoverFacts
  <2>2. Cold(x) /\ Held(x) /\ FromCold(x) /\ Dark(x)
    BY <1>7, <2>1 DEF Cold, Held, FromCold, Dark, SameRail
  <2>3. CommandInv(x) /\ OffInv(x) /\ FailInv(x)
    BY <1>7, <2>1 DEF CommandInv, At, OffInv, FailInv
  <2>4. Intent(x, "on", FALSE, FALSE)
    BY <1>7, <2>1 DEF Intent, Leaving
  <2> QED
    BY <2>1, <2>2, <2>3, <2>4 DEF Right, Good
<1>9. CASE ~ s.live
  <2>1. z \in Service
    BY <1>4, Updates, Zenon
  <2>2. z.onPend
    BY <1>4 DEF Service
  <2>3. x = EnterOff(z)
    BY <1>9
  <2> HIDE DEF z
  <2>4. ~ s.owner
    BY <1>9, Known DEF FailInv
  <2> QED
    BY <2>1, <2>2, <2>3, <2>4, OffRight
<1> QED
  BY <1>8, <1>9

(* From OFF: at once if the rail has been down for the dwell, or later.    *)
LEMMA OnAfterOff ==
  ASSUME IInv, s.st = "off", NEW x, NEW y, y = FreshSession(s), NEW z,
         z = IF ~(y.owner \/ audio) /\ DwellStale(y) THEN StartDwell(y) ELSE y,
         x = IF (y.owner \/ audio) \/ DwellStale(y) \/ z.dwell # "over"
             THEN [z EXCEPT !.onPend = TRUE] ELSE BeginOn(z)
  PROVE  Right(x, "on", FALSE, FALSE)
<1>1. /\ y \in Service /\ y.st = "off" /\ SameRail(s, y) /\ SameMemory(s, y)
      /\ SameCommand(s, y)
  BY Known, FreshFacts
<1>2. /\ s.deferred = "none" /\ s.cmd = "none" /\ ~ s.owner /\ ~ s.qualify
      /\ ~ s.offPend
  BY Known DEF CommandInv, At, FailInv, OffInv, Live, Service, Commands, Reads, Drains
<1>3. /\ z \in Service /\ z.st = "off" /\ SameMemory(y, z) /\ SameCommand(y, z)
      /\ z.owner = y.owner /\ (SameRail(y, z) \/ z.dwell = "running")
  <2>1. StartDwell(y) \in Service
    BY <1>1, Updates, Zenon DEF StartDwell
  <2>2. /\ StartDwell(y).st = y.st /\ SameMemory(y, StartDwell(y))
        /\ SameCommand(y, StartDwell(y)) /\ StartDwell(y).owner = y.owner
        /\ StartDwell(y).dwell = "running"
    BY <1>1 DEF StartDwell, Service, SameMemory, SameCommand
  <2>3. SameMemory(y, y) /\ SameCommand(y, y) /\ SameRail(y, y)
    BY DEF SameMemory, SameCommand, SameRail
  <2>4. z = StartDwell(y) \/ z = y
    OBVIOUS
  <2> QED
    BY <1>1, <2>1, <2>2, <2>3, <2>4
<1> DEFINE n == [z EXCEPT !.onPend = TRUE]
<1>4. CASE x = n
  <2>1. n \in Service
    BY <1>3, Updates, Zenon
  <2>2. /\ n.st = z.st /\ n.cmd = z.cmd /\ n.deferred = z.deferred /\ n.onPend
        /\ n.offPend = z.offPend /\ n.qualify = z.qualify /\ SameRail(z, n)
    BY <1>3 DEF Service, SameRail
  <2> HIDE DEF n
  <2>3. /\ x \in Service /\ x.st = "off" /\ x.cmd = "none" /\ x.deferred = "none"
        /\ x.onPend /\ ~ x.offPend /\ ~ x.qualify /\ ~ x.owner
        /\ (SameRail(s, x) \/ x.dwell = "running")
    <3>1. SameRail(s, z) \/ z.dwell = "running"
      BY <1>1, <1>3 DEF SameRail
    <3>2. SameRail(s, n) \/ n.dwell = "running"
      BY <2>2, <3>1 DEF SameRail
    <3>3. /\ z.cmd = "none" /\ z.deferred = "none" /\ ~ z.offPend /\ ~ z.qualify /\ ~ z.owner
      BY <1>1, <1>2, <1>3 DEF SameMemory, SameCommand, SameRail
    <3>4. n.st = "off" /\ n.cmd = "none" /\ n.deferred = "none" /\ ~ n.offPend
          /\ ~ n.qualify /\ ~ n.owner
      BY <1>3, <2>2, <3>3 DEF SameRail
    <3> QED
      BY <1>4, <2>1, <2>2, <3>2, <3>4
  <2>4. Cold(x) /\ Held(x) /\ FromCold(x) /\ Dark(x)
    BY <1>2, <2>3 DEF Cold, Held, FromCold, Dark, SameRail
  <2>5. CommandInv(x) /\ OffInv(x) /\ FailInv(x)
    BY <2>3 DEF CommandInv, At, OffInv, FailInv
  <2>6. Intent(x, "on", FALSE, FALSE)
    BY <2>3 DEF Intent
  <2> QED
    BY <2>3, <2>4, <2>5, <2>6 DEF Right, Good
<1>5. CASE x # n
  <2>1. /\ ~ audio /\ ~ DwellStale(y) /\ z = y /\ z.dwell = "over" /\ x = BeginOn(z)
    BY <1>5
  <2>2. s.dwell = "over" /\ ~ s.moved /\ z.deferred = "none"
    BY <1>1, <1>2, <2>1 DEF DwellStale, SameRail, SameCommand
  <2> QED
    BY <1>2, <1>3, <2>1, <2>2, OnRight
<1> QED
  BY <1>4, <1>5

LEMMA PowerOnRight ==
  ASSUME IInv, NEW r, NEW x, x = PowerOn(s, r)
  PROVE  Right(x, "on", FALSE, FALSE)
<1> DEFINE a == Asleep(s)
           b == [a EXCEPT !.deferred = "none"]
           c == [s EXCEPT !.offPend = FALSE]
           d == [s EXCEPT !.onPend = TRUE]
           f == FreshSession(s)
           y == [f EXCEPT !.failure = FALSE]
           up == s.owner \/ audio
           z == IF ~up /\ DwellStale(f) THEN StartDwell(f) ELSE f
<1>1. CASE s.deferred = "off"
  <2>1. x = b
    BY <1>1 DEF PowerOn
  <2>2. /\ a \in Service /\ a.st = s.st /\ SameRail(s, a) /\ SameRung(s, a)
        /\ SameMemory(s, a) /\ a.cmd = s.cmd
    BY Known, AsleepFacts
  <2> HIDE DEF a
  <2>3. a \in Service
    BY <2>2
  <2>4. b \in Service
    BY <2>3, Updates, Names, Zenon
  <2>5. /\ b.st = a.st /\ SameRail(a, b) /\ SameRung(a, b) /\ SameMemory(a, b)
        /\ b.cmd = a.cmd /\ b.deferred = "none"
    BY <2>2 DEF Service, SameRail, SameRung, SameMemory
  <2> HIDE DEF b
  <2>6. /\ s.cmd = "none" /\ s.st \in Live \cup {"failed"} /\ ~ s.offPend /\ ~ s.qualify
    BY <1>1, Known DEF CommandInv, At, OffInv, FailInv
  <2>7. /\ SameRail(s, x) /\ x.st = s.st /\ x.live = s.live /\ (x.pulsing => x.stage = s.stage)
        /\ ~ x.offPend /\ ~ x.qualify /\ x.parked = s.parked /\ x.cmd = "none"
        /\ x.deferred = "none"
    BY <2>1, <2>2, <2>5, <2>6 DEF SameRail, SameRung, SameMemory
  <2>8. CommandInv(x) /\ ~ Leaving(x) /\ x.st # "off"
    BY <2>6, <2>7 DEF CommandInv, At, Leaving, Live
  <2> QED
    BY <2>1, <2>4, <2>7, <2>8, OnTakes
<1>2. CASE s.deferred # "off" /\ s.offPend
  <2>1. x = c
    BY <1>2 DEF PowerOn
  <2>2. c \in Service
    BY Known, Updates, Zenon
  <2>3. /\ SameRail(s, c) /\ SameRung(s, c) /\ SameCommand(s, c) /\ c.st = s.st
        /\ c.live = s.live /\ ~ c.offPend /\ c.qualify = s.qualify /\ c.parked = s.parked
    BY Known DEF Service, SameRail, SameRung, SameCommand
  <2> HIDE DEF c
  <2>4. /\ s.st \in {"railwait", "pulse", "modwait", "probe", "ready"} /\ s.cmd # "off"
        /\ ~ s.qualify
    BY <1>2, Known DEF OffInv, FailInv, CommandInv, At
  <2>5. CommandInv(c) /\ ~ Leaving(c) /\ c.st \notin {"off", "failed"}
    BY <1>2, <2>3, <2>4, Known DEF CommandInv, SameCommand, Leaving
  <2>6. (c.pulsing => c.stage = s.stage) /\ ~ c.qualify
    BY <2>3, <2>4 DEF SameRung
  <2> QED
    BY <2>1, <2>2, <2>3, <2>5, <2>6, OnTakes
<1>3. CASE s.deferred # "off" /\ ~ s.offPend /\ (s.cmd = "off" \/ s.st = "discharge")
  <2>1. x = d
    BY <1>3 DEF PowerOn
  <2>2. d \in Service
    BY Known, Updates, Zenon
  <2>3. /\ SameRail(s, d) /\ SameRung(s, d) /\ SameCommand(s, d) /\ d.st = s.st
        /\ d.live = s.live /\ d.offPend = s.offPend /\ d.qualify = s.qualify
        /\ d.parked = s.parked /\ d.onPend
    BY Known DEF Service, SameRail, SameRung, SameCommand
  <2> HIDE DEF d
  <2>4. /\ ~ s.qualify /\ (s.st = "failed" /\ ~ s.live => s.cmd = "none" /\ s.deferred = "none")
    BY <1>3, Known DEF FailInv
  <2>5. CommandInv(d)
    BY <2>3, Known DEF CommandInv, SameCommand
  <2>6. /\ ~ d.offPend /\ ~ d.qualify /\ (d.pulsing => d.stage = s.stage)
        /\ (d.st = "failed" /\ ~ d.live => d.cmd = "none" /\ d.deferred = "none")
    BY <1>3, <2>3, <2>4 DEF SameRung, SameCommand
  <2> QED
    BY <2>1, <2>2, <2>3, <2>5, <2>6, OnTakes
<1>4. CASE s.deferred # "off" /\ ~ s.offPend /\ s.cmd # "off" /\ s.st # "discharge"
  <2>1. x = IF s.st = "failed"
            THEN IF s.live THEN Recover(y, r) ELSE EnterOff([y EXCEPT !.onPend = TRUE])
            ELSE IF s.st # "off" THEN s
            ELSE IF up \/ DwellStale(f) \/ z.dwell # "over" THEN [z EXCEPT !.onPend = TRUE]
            ELSE BeginOn(z)
    BY <1>4 DEF PowerOn
  <2>2. CASE s.st = "failed"
    BY <1>4, <2>1, <2>2, OnAfterFailure
  <2>3. CASE s.st \notin {"failed", "off"}
    <3>1. x = s /\ ~ Leaving(s) /\ ~ s.qualify
      BY <1>4, <2>1, <2>3, Known DEF Leaving, FailInv
    <3> QED
      BY <1>4, <2>3, <3>1, Known, OnTakes
  <2>4. CASE s.st = "off"
    <3>1. f.owner = s.owner
      BY Known, FreshFacts DEF SameRail
    <3>2. /\ z = IF ~(f.owner \/ audio) /\ DwellStale(f) THEN StartDwell(f) ELSE f
          /\ x = IF (f.owner \/ audio) \/ DwellStale(f) \/ z.dwell # "over"
                 THEN [z EXCEPT !.onPend = TRUE] ELSE BeginOn(z)
      BY <2>1, <2>4, <3>1
    <3> HIDE DEF z
    <3> QED
      BY <2>4, <3>2, OnAfterOff
  <2> QED
    BY <2>2, <2>3, <2>4
<1> QED
  BY <1>1, <1>2, <1>3, <1>4

LEMMA AskOnKept == ASSUME IInv, AskOn PROVE Kept
<1>1. PICK r \in Reading :
        /\ wish' = "on" /\ asks < MaxAsks /\ asks' = asks + 1
        /\ Sample(r) /\ Become(PowerOn(s, r)) /\ shown' = FALSE /\ lost' = FALSE
        /\ UNCHANGED <<audio, sounds>>
  BY DEF AskOn
<1>2. faults' \in 0 .. MaxFaults
  BY <1>1, FaultCount
<1>3. asks' \in 0 .. MaxAsks
  BY <1>1, ModemPowerAssumption DEF IInv, Counts
<1>4. Counts'
  BY <1>1, <1>2, <1>3 DEF IInv, Counts
<1>5. Right(PowerOn(s, r), wish', shown', lost')
  BY <1>1, PowerOnRight
<1> QED
  BY <1>1, <1>4, <1>5, BecomeKept

(* A request to switch off that waits for a start or a read to be over.    *)
LEMMA WaitOffRight ==
  ASSUME IInv, NEW x \in Service, SameRail(s, x), NEW sh, NEW l,
         x.offPend, ~ x.onPend, ~ x.qualify, x.st \notin {"off", "discharge", "failed"},
         x.st = "railwait" => s.st = "railwait" /\ (x.pulsing => x.stage = s.stage),
         CommandInv(x), OffInv(x)
  PROVE  Right(x, "off", sh, l)
<1>1. Cold(x) /\ Held(x) /\ FromCold(x) /\ Dark(x)
  BY DEF Cold, Held, FromCold, Dark, SameRail, IInv, RailInv
<1>2. FailInv(x)
  BY DEF FailInv
<1>3. Intent(x, "off", sh, l)
  BY DEF Intent
<1> QED
  BY <1>1, <1>2, <1>3 DEF Right, Good

(* After a failure of the supply the shutdown begins with a pulse.         *)
LEMMA FaultShutdownRight ==
  ASSUME IInv, NEW y \in Service, SameRail(s, y), ~ y.onPend, ~ y.offPend,
         y.cmd = "none", y.deferred = "none", NEW sh, NEW l,
         NEW armed, NEW r, NEW x, x = SupplyFaultShutdown(y, armed, r)
  PROVE  Right(x, "off", sh, l)
<1> DEFINE z == [ResetEscalation(y) EXCEPT !.failure = FALSE, !.qualify = FALSE,
                 !.live = FALSE, !.st = "discharge", !.parked = TRUE]
           u == StartFallback(z, "graceful", armed, r)
<1>1. z \in Service
  BY Updates, Names, Zenon DEF ResetEscalation
<1>2. /\ z.st = "discharge" /\ z.parked /\ ~ z.qualify /\ z.onPend = y.onPend
      /\ z.offPend = y.offPend /\ z.cmd = y.cmd /\ z.deferred = y.deferred /\ SameRail(y, z)
  BY DEF ResetEscalation, Service, SameRail
<1>3. x = [u EXCEPT !.supply = FALSE]
  BY DEF SupplyFaultShutdown
<1> HIDE DEF z
<1>4. SameRail(s, z) /\ ~ z.onPend /\ ~ z.offPend /\ z.cmd = "none" /\ z.deferred = "none"
  BY <1>2 DEF SameRail
<1>5. \/ /\ u \in Service /\ u.st = z.st
         /\ SameRail(z, u) /\ SameCommand(z, u) /\ SameMemory(z, u)
      \/ u = Terminal(z, r)
  BY <1>1, Known, StartFallbackFacts
<1> HIDE DEF u
<1>6. Right(u, "off", sh, l)
  <2>1. CASE u = Terminal(z, r)
    BY <1>1, <1>2, <1>4, <2>1, TerminalRight
  <2>2. CASE /\ u \in Service /\ u.st = z.st
             /\ SameRail(z, u) /\ SameCommand(z, u) /\ SameMemory(z, u)
    <3>1. /\ SameRail(s, u) /\ u.st = "discharge" /\ u.parked /\ ~ u.onPend /\ ~ u.offPend
          /\ ~ u.qualify /\ CommandInv(u) /\ Leaving(u)
      BY <1>2, <1>4, <2>2 DEF SameRail, SameCommand, SameMemory, CommandInv, At, Leaving
    <3> QED
      BY <2>2, <3>1, LeaveRight
  <2> QED
    BY <1>5, <2>1, <2>2
<1> QED
  BY <1>3, <1>6, SupplyRight

LEMMA BeginOffRight ==
  ASSUME IInv, NEW r, r = "on" => mod = "on", NEW awake \in BOOLEAN, NEW armed,
         NEW sh, NEW l, NEW x, x = BeginOff(s, r, awake, armed)
  PROVE  Right(x, "off", sh, l)
<1> DEFINE o == [s EXCEPT !.onPend = FALSE, !.failure = FALSE]
           y == [o EXCEPT !.cmd = "none", !.deferred = "none"]
           c == [o EXCEPT !.offPend = TRUE]
           d == [y EXCEPT !.offPend = TRUE]
           e == [d EXCEPT !.live = FALSE]
<1>1. x =
        CASE o.offPend \/ o.st = "discharge" \/ o.cmd = "off" -> o
          [] ~o.offPend /\ o.st = "off" -> EnterOff(o)
          [] ~o.offPend /\ o.cmd \in Reads \cup Drains -> c
          [] OTHER ->
                IF y.st = "failed" /\ y.supply /\ y.live THEN SupplyFaultShutdown(y, armed, r)
                ELSE IF y.st \in {"pulse", "modwait"} \/ (y.st = "railwait" /\ r = "on")
                THEN d
                ELSE IF y.st = "failed" /\ y.live /\ y.parked
                THEN EnterModuleWait([y EXCEPT !.offPend = TRUE, !.live = FALSE])
                ELSE IF y.st \in Live \/ (y.st = "failed" /\ y.live) \/ r = "on"
                THEN Send(y, "off", awake)
                ELSE EnterOff(y)
  BY Zenon DEF BeginOff, Overrides
<1>2. o \in Service /\ y \in Service /\ c \in Service /\ d \in Service /\ e \in Service
  BY Known, Updates, Names, Zenon
<1>3. /\ o.st = s.st /\ o.cmd = s.cmd /\ o.deferred = s.deferred /\ o.waking = s.waking
      /\ ~ o.onPend /\ o.offPend = s.offPend /\ o.qualify = s.qualify /\ o.live = s.live
      /\ o.parked = s.parked /\ SameRail(s, o) /\ SameRung(s, o)
  BY Known DEF Service, SameRail, SameRung
<1>4. /\ y.st = s.st /\ y.cmd = "none" /\ y.deferred = "none"
      /\ ~ y.onPend /\ y.offPend = s.offPend /\ y.qualify = s.qualify /\ y.live = s.live
      /\ y.parked = s.parked /\ SameRail(s, y) /\ SameRung(s, y)
  BY Known DEF Service, SameRail, SameRung
<1>5. /\ c.st = s.st /\ c.cmd = s.cmd /\ c.deferred = s.deferred /\ c.waking = s.waking
      /\ ~ c.onPend /\ c.offPend /\ c.qualify = s.qualify
      /\ SameRail(s, c) /\ SameRung(s, c)
  BY Known DEF Service, SameRail, SameRung
<1>6. /\ d.st = s.st /\ d.cmd = "none" /\ d.deferred = "none"
      /\ ~ d.onPend /\ d.offPend /\ d.qualify = s.qualify
      /\ SameRail(s, d) /\ SameRung(s, d)
  BY Known DEF Service, SameRail, SameRung
<1>7. /\ e.cmd = "none" /\ e.deferred = "none" /\ ~ e.onPend /\ e.offPend
      /\ SameRail(s, e) /\ e = [y EXCEPT !.offPend = TRUE, !.live = FALSE]
  BY Known DEF Service, SameRail
<1> HIDE DEF o, y, c, d, e
<1>8. CASE s.offPend \/ s.st = "discharge" \/ s.cmd = "off"
  <2>0. ~ s.offPend => s.st # "off" /\ s.cmd \notin Reads \cup Drains
    BY <1>8, Known DEF CommandInv, At, Live, Reads, Drains
  <2>1. x = o
    BY <1>1, <1>3, <1>8, <2>0
  <2>2. CommandInv(o)
    BY <1>3, Known DEF CommandInv
  <2>3. CASE s.offPend
    <3>1. /\ ~ o.qualify /\ o.st \notin {"off", "discharge", "failed"} /\ OffInv(o)
          /\ o.offPend /\ (o.pulsing => o.stage = s.stage)
      BY <1>3, <2>3, Known DEF OffInv, FailInv, CommandInv, At, SameRung
    <3> QED
      BY <1>2, <1>3, <2>1, <2>2, <3>1, WaitOffRight
  <2>4. CASE ~ s.offPend
    <3>1. /\ o.st \notin {"off", "railwait"} /\ (o.st = "failed" => o.live)
          /\ (o.st = "discharge" => o.parked) /\ ~ o.offPend /\ ~ o.qualify /\ Leaving(o)
      BY <1>3, <1>8, <2>4, Known DEF FailInv, CommandInv, At, Live, Leaving
    <3> QED
      BY <1>2, <1>3, <2>1, <2>2, <3>1, LeaveRight
  <2> QED
    BY <2>3, <2>4
<1>9. CASE ~ s.offPend /\ s.st = "off"
  <2>1. s.cmd = "none" /\ ~ s.owner
    BY <1>9, Known DEF CommandInv, At, Live, FailInv, Service, Commands, Reads, Drains
  <2>3. s.cmd \notin Reads \cup Drains
    BY <2>1 DEF Reads, Drains
  <2>2. x = EnterOff(o)
    BY <1>1, <1>3, <1>9, <2>1, <2>3
  <2> QED
    BY <1>2, <1>3, <2>1, <2>2, OffRight
<1>10. CASE ~ s.offPend /\ s.cmd \in {"sim", "sms", "simdrain", "smsdrain"}
  <2>1. s.st = "ready" /\ s.deferred = "none" /\ ~ s.qualify
    BY <1>10, Known DEF CommandInv, At, FailInv
  <2>2. s.cmd \in Reads \cup Drains
    BY <1>10 DEF Reads, Drains
  <2>3. x = c
    BY <1>1, <1>3, <1>10, <2>1, <2>2
  <2>4. CommandInv(c) /\ OffInv(c)
    BY <1>5, <1>10, <2>1, Known DEF CommandInv, OffInv
  <2> QED
    BY <1>2, <1>5, <2>1, <2>3, <2>4, WaitOffRight
<1>11. CASE /\ ~ s.offPend /\ s.st \notin {"off", "discharge"}
            /\ s.cmd \notin {"off", "sim", "sms", "simdrain", "smsdrain"}
  <2>1. s.cmd \notin Reads \cup Drains
    BY <1>11 DEF Reads, Drains
  <2>2. \/ y.st = "failed" /\ x = SupplyFaultShutdown(y, armed, r)
        \/ y.st \in {"pulse", "modwait", "railwait"} /\ x = d
        \/ x = EnterModuleWait(e)
        \/ /\ y.st \in Live \/ (y.st = "failed" /\ y.live /\ ~ y.parked)
              \/ (/\ r = "on" /\ y.st \notin {"pulse", "modwait", "railwait"}
                  /\ ~ (y.st = "failed" /\ y.live /\ y.parked))
           /\ x = Send(y, "off", awake)
        \/ /\ y.st \notin Live /\ ~ (y.st = "failed" /\ y.live) /\ x = EnterOff(y)
           /\ y.st \notin {"pulse", "modwait"}
    BY <1>1, <1>3, <1>7, <1>11, <2>1
  <2>3. s.st # "failed" => ~ s.qualify
    BY Known DEF FailInv
  <2>4. CASE y.st = "failed" /\ x = SupplyFaultShutdown(y, armed, r)
    BY <1>2, <1>4, <1>11, <2>4, FaultShutdownRight
  <2>5. CASE y.st \in {"pulse", "modwait", "railwait"} /\ x = d
    <3>1. CommandInv(d) /\ OffInv(d) /\ ~ d.qualify /\ (d.pulsing => d.stage = s.stage)
          /\ d.st \in {"pulse", "modwait", "railwait"}
      BY <1>4, <1>6, <2>3, <2>5 DEF CommandInv, At, OffInv, SameRung
    <3> QED
      BY <1>2, <1>6, <2>5, <3>1, WaitOffRight
  <2>6. CASE x = EnterModuleWait(e)
    <3>1. /\ x \in Service /\ x.st = "modwait" /\ ~ x.qualify
          /\ x.onPend = e.onPend /\ x.offPend = e.offPend
          /\ SameRail(e, x) /\ SameCommand(e, x)
      BY <1>2, <2>6, EnterModuleWaitFacts
    <3>2. SameRail(s, x) /\ CommandInv(x) /\ OffInv(x)
      BY <1>7, <3>1 DEF SameRail, SameCommand, CommandInv, At, OffInv
    <3> QED
      BY <1>7, <3>1, <3>2, WaitOffRight
  <2>7. CASE /\ y.st \in Live \/ (y.st = "failed" /\ y.live /\ ~ y.parked)
                \/ (/\ r = "on" /\ y.st \notin {"pulse", "modwait", "railwait"}
                    /\ ~ (y.st = "failed" /\ y.live /\ y.parked))
             /\ x = Send(y, "off", awake)
    <3>1. /\ x \in Service /\ x.st = y.st
          /\ \/ x.cmd = "off" /\ x.deferred = y.deferred
             \/ x.cmd = y.cmd /\ x.deferred = "off" /\ x.waking
          /\ SameRail(y, x) /\ SameMemory(y, x)
      BY <1>2, <2>7, SendFacts DEF Commands
    <3>2. s.st \in Live \/ (s.st = "failed" /\ s.live)
      <4>1. s.st \in States
        BY Known DEF Service
      <4>2. r = "on" => ~ (s.st = "failed" /\ ~ s.live)
        BY DEF IInv, RailInv
      <4> QED
        BY <1>4, <1>11, <2>7, <4>1, <4>2 DEF States, Live
    <3>3. ~ s.qualify
      <4>1. CASE s.st \in Live
        BY <2>3, <4>1 DEF Live
      <4>2. CASE s.st = "failed"
        <5>1. s.qualify => s.parked /\ s.live
          BY Known DEF FailInv
        <5> QED
          BY <1>4, <2>7, <4>2, <5>1 DEF Live
      <4> QED
        BY <3>2, <4>1, <4>2
    <3>4. /\ SameRail(s, x) /\ x.st \notin {"off", "railwait", "discharge"}
          /\ (x.st = "failed" => x.live) /\ ~ x.onPend /\ ~ x.offPend /\ ~ x.qualify
      BY <1>4, <1>11, <3>1, <3>2, <3>3 DEF SameRail, SameMemory, Live
    <3>5. CommandInv(x) /\ Leaving(x)
      BY <1>4, <3>1, <3>2 DEF CommandInv, At, Leaving
    <3> QED
      BY <3>1, <3>4, <3>5, LeaveRight
  <2>8. CASE /\ y.st \notin Live /\ ~ (y.st = "failed" /\ y.live) /\ x = EnterOff(y)
             /\ y.st \notin {"pulse", "modwait"}
    <3>1. s.st = "railwait" \/ (s.st = "failed" /\ ~ s.live)
      <4>1. s.st \in States
        BY Known DEF Service
      <4> QED
        BY <1>4, <1>11, <2>8, <4>1 DEF States, Live
    <3>2. mod = "off"
      BY <3>1 DEF IInv, RailInv
    <3> QED
      BY <1>2, <1>4, <2>8, <3>2, OffRight
  <2> QED
    BY <2>2, <2>4, <2>5, <2>6, <2>7, <2>8
<1> QED
  BY <1>8, <1>9, <1>10, <1>11

LEMMA AskOffKept == ASSUME IInv, AskOff PROVE Kept
<1>1. PICK r \in Reading, awake \in BOOLEAN, armed \in BOOLEAN :
        /\ wish' = "off" /\ asks < MaxAsks /\ asks' = asks + 1
        /\ Sample(r) /\ Become(BeginOff(s, r, awake, armed)) /\ shown' = FALSE
        /\ UNCHANGED <<audio, sounds, lost>>
  BY DEF AskOff
<1>2. faults' \in 0 .. MaxFaults /\ (r = "on" => mod = "on")
  BY <1>1, SampleFacts
<1>3. asks' \in 0 .. MaxAsks
  BY <1>1, ModemPowerAssumption DEF IInv, Counts
<1>4. Counts'
  BY <1>1, <1>2, <1>3 DEF IInv, Counts
<1>5. Right(BeginOff(s, r, awake, armed), wish', shown', lost')
  BY <1>1, <1>2, BeginOffRight
<1> QED
  BY <1>1, <1>4, <1>5, BecomeKept

LEMMA TickPowerOffKept == ASSUME IInv, TickPowerOff PROVE Kept
<1> DEFINE x == [s EXCEPT !.failure = FALSE]
<1>1. /\ wish = "off" /\ UNCHANGED <<audio, down, mod, order, wish, lost, asks, faults, sounds>>
      /\ \/ shown /\ s.st = "off" /\ ~ s.onPend /\ shown' = FALSE /\ s' = s
         \/ shown' = TRUE /\ s' = x
  BY DEF TickPowerOff, PoweredOff, world
<1>2. Counts'
  BY <1>1 DEF IInv, Counts
<1>3. CASE s.st = "off" /\ ~ s.onPend /\ shown' = FALSE /\ s' = s
  <2>1. Good(s)' /\ Env' /\ RailInv' /\ Intent(s, wish, shown, lost)'
    BY <1>1, <1>3 DEF IInv, Env, RailInv, Intent
  <2> QED
    BY <1>2, <1>3, <2>1 DEF Kept, IInv, HeldStep, ColdStep
<1>4. CASE shown' = TRUE /\ s' = x
  <2>1. x \in Service
    BY Known, Updates, Zenon
  <2>2. /\ x.st = s.st /\ SameRail(s, x) /\ SameCommand(s, x) /\ x.onPend = s.onPend
        /\ x.offPend = s.offPend /\ x.parked = s.parked /\ x.live = s.live
        /\ x.qualify = s.qualify
    BY Known DEF Service, SameRail, SameCommand
  <2> HIDE DEF x
  <2>3. CommandInv(x) /\ OffInv(x) /\ FailInv(x)
    BY <2>2, Known DEF CommandInv, OffInv, FailInv, SameRail, SameCommand
  <2>4. Intent(x, wish, TRUE, lost)
    BY <2>2 DEF IInv, Intent, Leaving, SameCommand
  <2>5. Good(s)' /\ Intent(s, wish, shown, lost)'
    BY <1>1, <1>4, <2>1, <2>3, <2>4 DEF Good
  <2>6. Env' /\ RailInv'
    BY <1>1, <1>4, <2>2 DEF IInv, Env, RailInv, SameRail
  <2> QED
    BY <1>2, <1>4, <2>2, <2>5, <2>6 DEF Kept, IInv, HeldStep, ColdStep, SameRail
<1> QED
  BY <1>1, <1>3, <1>4

-----------------------------------------------------------------------------
(* The theorems.                                                           *)

LEMMA InitIInv == Init => IInv
<1> SUFFICES ASSUME Init PROVE IInv
  OBVIOUS
<1>1. s \in Service
  <2>1. 0 \in 0 .. RestartLimit
    BY ModemPowerAssumption
  <2> QED
    BY <2>1 DEF Init, Service, States, Commands, Drains, Reads
<1>2. CommandInv(s) /\ OffInv(s) /\ FailInv(s)
  BY DEF Init, CommandInv, At, OffInv, FailInv
<1>3. Env
  <2>1. ~ s.owner /\ ~ audio /\ down = "brief" /\ mod = "off" /\ order = "none" /\ audio \in BOOLEAN
    BY DEF Init
  <2> QED
    BY <2>1 DEF Env
<1>4. Counts
  <2>1. /\ wish = "off" /\ shown = FALSE /\ lost = FALSE
        /\ asks = 0 /\ faults = 0 /\ sounds = 0
    BY DEF Init
  <2>2. 0 \in 0 .. MaxAsks /\ 0 \in 0 .. MaxFaults /\ 0 \in 0 .. MaxSounds
    BY ModemPowerAssumption
  <2> QED
    BY <2>1, <2>2 DEF Counts
<1>5. RailInv /\ Intent(s, wish, shown, lost)
  BY DEF Init, RailInv, Intent, Leaving
<1> QED
  BY <1>1, <1>2, <1>3, <1>4, <1>5 DEF IInv, Good

LEMMA NextKept == ASSUME IInv, Next PROVE Kept
<1>1. CASE Watch \/ Wake
  BY <1>1, WatchModuleKept, WatchFailedKept, WakeDoneKept, WakeLateKept DEF Watch, Wake
<1>2. CASE Finals
  BY <1>2, PingDoneKept, PingFailsKept, InitKept, QueryDoneKept, QueryFailsKept, SetKept,
     RebootDoneKept, OffDoneKept, WorkDoneKept, ReadDoneKept, ReadLateKept, PulseEndsKept
     DEF Finals
<1>3. CASE Advances
  BY <1>3, AdvanceOffKept, DischargePulseEndsKept, AdvanceDischargeKept, RailGoodKept,
     AdvanceModuleWaitKept, AdvanceKept DEF Advances
<1>4. CASE Work \/ RingWakes
  BY <1>4, WorkKept, RingWakesKept
<1>5. CASE Faults
  BY <1>5, WatchSupplyKept, RebootRefusedKept, RailLateKept, ModuleWaitSupplyKept,
     ModuleKept DEF Faults
<1>6. CASE Obeys \/ Boots \/ LowLasts \/ DwellEnds \/ SoundBegins \/ SoundEnds
  BY <1>6, ModuleKept, LowLastsKept, DwellEndsKept, SoundKept
<1>7. CASE AskOn \/ AskOff \/ TickPowerOff
  BY <1>7, AskOnKept, AskOffKept, TickPowerOffKept
<1> QED
  BY <1>1, <1>2, <1>3, <1>4, <1>5, <1>6, <1>7 DEF Next

LEMMA StutterKept == ASSUME IInv, UNCHANGED vars PROVE Kept
<1>1. UNCHANGED <<s, audio, down, mod, order, wish, shown, lost, asks, faults, sounds>>
  BY DEF vars, world
<1>2. IInv'
  BY <1>1 DEF IInv, Env, Counts, RailInv
<1> QED
  BY <1>1, <1>2 DEF Kept, HeldStep, ColdStep

(* The inductive invariant: the types, where a command or a request to     *)
(* switch off may wait, what a failed ladder leaves, no module without a   *)
(* rail, and the application's request in force.                           *)
THEOREM PowerInvariant == Spec => []IInv
<1>1. IInv /\ [Next]_vars => IInv'
  BY NextKept, StutterKept DEF Kept
<1> QED
  BY <1>1, InitIInv, PTL DEF Spec

(* The latest request to switch on or off holds at every moment, however   *)
(* modem_service_power_on, modem_begin_power_off, the ladder, restarts and *)
(* faults interleave.                                                      *)
THEOREM LatestRequestHolds == Spec => []IntentKept
<1>1. IInv => IntentKept
  <2> SUFFICES ASSUME IInv PROVE IntentKept
    OBVIOUS
  <2>1. TypeOK
    BY TypeParts DEF IInv, Good
  <2> QED
    BY <2>1 DEF IInv, Intent, Leaving, IntentKept, LeavingOff
<1> QED
  BY <1>1, PowerInvariant, PTL

(* modem_enter_off and a failure with nothing live are the only releases   *)
(* of the rail, and they come when the module has lost or left its state.  *)
THEOREM SupplyIsHeld == Spec => SupplyHeld
<1>1. IInv /\ [Next]_vars =>
        [s.owner /\ ~s'.owner =>
            mod # "on" /\ (mod = "starting" => s.st \in {"discharge", "failed"})]_vars
  BY NextKept DEF Kept, HeldStep
<1> QED
  BY <1>1, PowerInvariant, PTL DEF Spec, SupplyHeld

(* Every start, the first or a queued one, finds a rail that has been down *)
(* for the whole dwell of modem_power_dwell_observe.                       *)
THEOREM StartsFromCold == Spec => RestartsFromCold
<1>1. IInv /\ [Next]_vars =>
        [s.st # "railwait" /\ s'.st = "railwait" => down = "long"]_vars
  BY NextKept DEF Kept, ColdStep
<1> QED
  BY <1>1, PowerInvariant, PTL DEF Spec, RestartsFromCold

=============================================================================
