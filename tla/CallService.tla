----------------------------- MODULE CallService -----------------------------
(***************************************************************************)
(* The call table at work: the modem service (services/modem_service.c)    *)
(* feeds CallModel with the lines it hears, sends one AT command at a time *)
(* and shows the user the projection; around it are the user's requests,   *)
(* the modem and the network.                                              *)
(*                                                                         *)
(* The service takes any final line as the end of the command it is        *)
(* waiting for.  The modem answers in order, so a command the service gave *)
(* up waiting for stays in owed, and its answer may end a later one.       *)
(***************************************************************************)
EXTENDS CallModel

CONSTANTS QueueLen,    \* requests the service can hold
          Starts,      \* how the runs begin: "idle", "talking"
          Kinds,       \* the requests the user makes
          MaxCalls,    \* bound: calls the network sees
          MaxAsked,    \* bound: requests of the user
          Faults,      \* what goes wrong: "refuse" "miss" "timeout" "slow" "unheard"
          MaxFaults    \* bound: how many of them

ASSUME CallServiceAssumption ==
    /\ QueueLen \in Nat \ {0}
    /\ MaxCalls \in Nat  /\ MaxAsked \in Nat  /\ MaxFaults \in Nat
    /\ "talking" \in Starts => Id # {} /\ MaxCalls # 0

VARIABLES m,         \* the call model
          queue,     \* requests not started, first to go first
          wire,      \* the command the service waits for, or Silence
          owed,      \* the commands the modem has and has not answered
          net,       \* what is really going on, a row per id
          calls,     \* history: the token of the command that placed each call
          given,     \* history: the calls the table gave up
          lost,      \* history: the calls the table dropped while they went on
          cut,       \* history: whether a command ended before its own answer
          asked,
          faults     \* the kinds of fault that happened

vars == <<m, queue, wire, owed, net, calls, given, lost, cut, asked, faults>>
outside == <<net, calls>>
budget  == <<cut, asked, faults>>

Silence    == [kind |-> "NONE", token |-> 0, at |-> 0]
Cmd(k, tok, id) == [kind |-> k, token |-> tok, at |-> id]

(* A call the user placed and is talking in, with its dial remembered.     *)
TalkingModel ==
    LET id == Min(Id) IN
    [InitModel EXCEPT
        !.legs[id] = [slot |-> 1, state |-> "ACTIVE", dir |-> "MO", leaving |-> FALSE,
                      role |-> "ACTIVE", call |-> 1],
        !.txns[1]  = [NoTxn EXCEPT !.kind = "DIAL", !.token = 1, !.state = "SUCCEEDED",
                                   !.leg = Ref(InitModel, id)],
        !.shown    = [Idle EXCEPT !.state = "ACTIVE", !.id = id],
        !.token    = 2]

Init ==
    /\ \/ /\ "idle" \in Starts
          /\ m = InitModel  /\ net = [id \in Id |-> NoRow]  /\ calls = <<>>
       \/ /\ "talking" \in Starts
          /\ m = TalkingModel  /\ calls = <<1>>
          /\ net = [id \in Id |-> IF id = Min(Id) THEN [state |-> "ACTIVE", dir |-> "MO", call |-> 1]
                                  ELSE NoRow]
    /\ queue = <<>>  /\ wire = Silence  /\ owed = <<>>  /\ given = {}  /\ lost = {}  /\ cut = FALSE
    /\ asked = 0  /\ faults = {}

----------------------------------------------------------------------------
(* The network.                                                            *)

On(n, st)   == {id \in Id : n[id].state = st}
Busy(n)     == {id \in Id : n[id].state # "FREE"}
Put(n, S, st) == [id \in Id |-> IF id \in S THEN [n[id] EXCEPT !.state = st] ELSE n[id]]

(* A waiting call that is left alone rings as an ordinary one.             *)
Realert(n)  == IF Busy(n) = On(n, "WAITING") THEN Put(n, On(n, "WAITING"), "INCOMING") ELSE n
Drop(n, S)  == Realert([id \in Id |-> IF id \in S THEN NoRow ELSE n[id]])

(* The modem gives a new call an id that neither it nor the table uses.    *)
Spare       == Id \ (Busy(net) \cup InUse(m))
NewCall(n, st, dir) == [n EXCEPT ![Min(Spare)] =
                           [state |-> st, dir |-> dir, call |-> Len(calls) + 1]]

Done(n)     == [net |-> n, ok |-> TRUE]
Refused     == [net |-> net, ok |-> FALSE]

(* What a command does to the calls (3GPP 27.007), and its final line.     *)
Effect(c) ==
    LET up == On(net, "ACTIVE")       held == On(net, "HELD")
        wt == On(net, "WAITING")      out  == On(net, "DIALING")
        inc == On(net, "INCOMING")    fg   == up \cup out
    IN  CASE c.kind = "CLCC"   -> Done(net)
          [] c.kind = "DIAL"   ->
               IF Spare = {} \/ Len(calls) = MaxCalls \/ out \cup wt \cup inc # {}
                  \/ (up # {} /\ held # {})
               THEN Refused
               ELSE Done(NewCall(Put(net, up, "HELD"), "DIALING", "MO"))
          [] c.kind = "ANSWER" -> IF inc = {} THEN Refused ELSE Done(Put(net, inc, "ACTIVE"))
          [] c.kind = "HANGUP" -> Done(Drop(net, Id))
          [] c.kind \in {"HOLD", "SWAP", "WAIT_ANSWER"} ->
               IF out # {} \/ fg \cup held \cup wt = {} \/ (wt # {} /\ up # {} /\ held # {})
               THEN Refused
               ELSE Done(Put(Put(net, up, "HELD"), IF wt # {} THEN wt ELSE held, "ACTIVE"))
          [] c.kind = "WAIT_REJECT" ->
               IF wt \cup held = {} THEN Refused ELSE Done(Drop(net, IF wt # {} THEN wt ELSE held))
          [] c.kind = "RELEASE_ACTIVE" ->
               IF fg \cup held \cup wt = {} THEN Refused
               ELSE Done(Put(Drop(net, fg), IF wt # {} THEN wt ELSE held, "ACTIVE"))
          [] c.kind = "RELEASE_LEG" ->
               IF c.at \in fg \cup held THEN Done(Drop(net, {c.at})) ELSE Refused

----------------------------------------------------------------------------
(* The user.                                                               *)

(* What the call screens let the user ask for.  While a second call is set *)
(* up they only offer to give it up (AbandonNewCall); the cancel key that  *)
(* comes just after it connected releases it by its id.                    *)
Offered ==
    LET s == m.shown
        no(k) == [kind |-> k, at |-> 0]
    IN  CASE OpenDials(m) # {} -> IF \E d \in OpenDials(m) : m.txns[d].second THEN {}
                                  ELSE {no("HANGUP")}
          [] OpenDials(m) = {} /\ s.state = "IDLE"    -> {no("DIAL")}
          [] OpenDials(m) = {} /\ s.state = "RINGING" -> {no("ANSWER"), no("HANGUP")}
          [] OpenDials(m) = {} /\ s.state \in {"DIALING", "ANSWERING"} -> {no("HANGUP")}
          [] OpenDials(m) = {} /\ s.state = "ACTIVE"  ->
               {no("HANGUP")}
               \cup (IF s.second
                     THEN {no("SWAP"), no("RELEASE_ACTIVE"), [kind |-> "RELEASE_LEG", at |-> s.id]}
                     ELSE {no("DIAL"), no("HOLD")})
               \cup (IF s.waiting
                     THEN {no("WAIT_REJECT"), [kind |-> "RELEASE_LEG", at |-> s.id]} ELSE {})
               \cup (IF s.waiting /\ ~s.second THEN {no("WAIT_ANSWER")} ELSE {})

CleanupBlocks(kind) == kind \in {"DIAL", "HOLD", "SWAP", "WAIT_ANSWER"}

(* Cancelling a queued request; a release of a leg given up is kept.       *)
CancelToken(mm, tok) ==
    LET mine == {s \in SlotOf(mm, tok) :
                    LET t == mm.txns[s] IN
                    /\ t.kind \in {"RELEASE_ACTIVE", "RELEASE_LEG"} /\ t.state = "PENDING"
                    /\ Has(mm, t.leg) /\ mm.legs[t.leg.id].leaving}
        t    == mm.txns[CHOOSE s \in mine : TRUE]
    IN  IF mine = {} THEN Cancel(mm, tok)
        ELSE QueueRelease(Cancel(mm, tok), t.leg, t.kind = "RELEASE_ACTIVE")

(* Calls are controlled at the front of the queue, over the newest entry   *)
(* when it is full; a dial waits its turn or is refused.                   *)
QueueCall(kind, id) ==
    LET full == Len(queue) = QueueLen IN
    IF \/ kind = "DIAL" /\ full
       \/ CleanupBlocks(kind) /\ CleanupPending(m)
       \/ kind = "HOLD" /\ ~HoldAvailable(m)
    THEN UNCHANGED <<m, queue>>
    ELSE \E r \in {Request(m, kind, id, kind = "DIAL" /\ m.shown.id # 0)} :
           LET c == Cmd(kind, r.token, id) IN
           IF r.token = 0 THEN m' = r.m /\ UNCHANGED queue
           ELSE IF kind = "DIAL" THEN m' = r.m /\ queue' = Append(queue, c)
           ELSE IF full THEN /\ m' = CancelToken(r.m, Last(queue).token)
                             /\ queue' = <<c>> \o Front(queue)
           ELSE m' = r.m /\ queue' = <<c>> \o queue

(* The history variables.                                                  *)
Shows(legs) == {legs[id].call : id \in {x \in Id : legs[x].state # "FREE"}}
Going(n)    == {n[id].call : id \in Busy(n)}
Note ==
    /\ given' = given \cup {m'.legs[id].call : id \in {x \in Id : m'.legs[x].state = "RELEASING"}}
    /\ lost' = (lost \cap (Going(net') \cup Shows(m'.legs)))
                \cup ((Shows(m.legs) \ Shows(m'.legs)) \cap Going(net'))

Ask == \E o \in Offered :
    /\ o.kind \in Kinds  /\ asked < MaxAsked  /\ asked' = asked + 1
    /\ QueueCall(o.kind, o.at)
    /\ UNCHANGED <<wire, owed, outside, cut, faults>>  /\ Note

(* The user gives up a second call that is still being set up.             *)
AbandonNewCall ==
    /\ "ABANDON" \in Kinds  /\ asked < MaxAsked  /\ asked' = asked + 1
    /\ \E s \in OpenDials(m) : m.txns[s].second
    /\ m' = NewCallAbandoned(m)
    /\ UNCHANGED <<queue, wire, owed, outside, cut, faults>>  /\ Note

----------------------------------------------------------------------------
(* One pass of the service: the line or deadline that is due, the tick of  *)
(* the model, and the frame for the user.                                  *)

Serve(mm)        == \E heard \in {mm} : \E ticked \in {Tick(heard, Calm)} : m' = Project(ticked)
Fault(kind)      == /\ kind \in Faults \ faults  /\ Cardinality(faults) < MaxFaults
                    /\ faults' = faults \cup {kind}
Waits            == wire # Silence
WaitsForCall     == Waits /\ wire.kind # "CLCC"

(* A final line ends whatever command the service is waiting for.          *)
Final(ok, rows) ==
    CASE ~Waits                      -> m
      [] Waits /\ wire.kind # "CLCC" -> CommandResult(m, wire.token, IF ok THEN "OK" ELSE "ERROR")
      [] Waits /\ wire.kind = "CLCC" -> IF ok THEN ClccOk(m, rows) ELSE ClccError(m)

(* The modem executes the oldest command it has and answers it.  The rows  *)
(* of a listing are read only by a service that waits for one.             *)
Answer(eff, rows) ==
    /\ owed # <<>>  /\ owed' = Tail(owed)  /\ UNCHANGED <<queue, cut, asked>>
    /\ net' = eff.net
    /\ calls' = IF Head(owed).kind = "DIAL" /\ eff.ok THEN Append(calls, Head(owed).token)
                ELSE calls
    /\ Serve(Final(eff.ok, rows))  /\ wire' = Silence  /\ Note

Listed == IF Head(owed).kind = "CLCC" THEN net ELSE [id \in Id |-> NoRow]

Answers == UNCHANGED faults /\ owed # <<>> /\ Answer(Effect(Head(owed)), Listed)

Refuses == Fault("refuse") /\ owed # <<>> /\ Answer(Refused, Listed)

Misses  == /\ Fault("miss")  /\ owed # <<>>  /\ Head(owed).kind = "CLCC"
           /\ \E id \in Busy(net) : Answer(Done(net), [Listed EXCEPT ![id] = NoRow])

(* The deadline of the command passes with no final line.                  *)
TimesOut ==
    /\ Fault("timeout")  /\ Waits  /\ wire' = Silence  /\ cut' = TRUE
    /\ Serve(IF wire.kind = "CLCC" THEN ClccError(m) ELSE CommandResult(m, wire.token, "TIMEOUT"))
    /\ UNCHANGED <<queue, owed, outside, asked>>  /\ Note

----------------------------------------------------------------------------
(* The network acts, and the service hears of it or not.                   *)

Arrives ==
    /\ Len(calls) < MaxCalls  /\ Spare # {}
    /\ On(net, "DIALING") \cup On(net, "INCOMING") \cup On(net, "WAITING") = {}
    /\ net' = NewCall(net, IF Busy(net) = {} THEN "INCOMING" ELSE "WAITING", "MT")
    /\ calls' = Append(calls, 0)
    /\ UNCHANGED <<m, queue, wire, owed, budget>>  /\ Note

(* RING, and +CLIP or +CCWA with the caller, as long as the call rings.    *)
Rings ==
    /\ On(net, "INCOMING") \cup On(net, "WAITING") # {}
    /\ UNCHANGED <<queue, wire, owed, outside, budget>>
    /\ Serve(OnRing(m)) \/ Serve(OnClip(m))
    /\ Note

RemoteAnswers ==
    /\ On(net, "DIALING") # {}
    /\ net' = Put(net, On(net, "DIALING"), "ACTIVE")
    /\ Serve(OnEvent(m))
    /\ UNCHANGED <<queue, wire, owed, calls, budget>>  /\ Note

Ends(id) == id \in Busy(net) /\ net' = Drop(net, {id}) /\ UNCHANGED <<queue, owed, calls, asked>>

EndsWithEvent == \E id \in Id :
    Ends(id) /\ Serve(OnEvent(m)) /\ UNCHANGED <<wire, cut, faults>> /\ Note

(* NO CARRIER, for a call that was connected or being dialled, ends the    *)
(* call command that is out; the answer of that command is still to come.  *)
EndsWithFinal == \E id \in Id \ (On(net, "INCOMING") \cup On(net, "WAITING")) :
    /\ Ends(id)
    /\ IF WaitsForCall
       THEN /\ Serve(CommandResult(m, wire.token, "ERROR"))  /\ wire' = Silence
            /\ cut' = TRUE
       ELSE Serve(OnBareFinal(m)) /\ UNCHANGED <<wire, cut>>
    /\ UNCHANGED faults  /\ Note

EndsUnheard == Fault("unheard") /\ \E id \in Id : Ends(id) /\ UNCHANGED <<m, wire, cut>> /\ Note

----------------------------------------------------------------------------
(* The service starts something when no command is out.                    *)

(* Writing the command of a request, if its transaction still wants it.    *)
SendAs(mm, s, c, guard) ==
    [m |-> Dispatch(mm, s, guard), cmd |-> IF guard = "SEND" THEN c ELSE Silence]

Send(mm, c) ==
    LET live == {s \in SlotOf(mm, c.token) : ~IsTerminal(mm.txns[s])}
        send(s) == SendAs(mm, s, c, Guard(mm, mm.txns[s]))
    IN  IF live = {} THEN [m |-> mm, cmd |-> Silence] ELSE send(CHOOSE s \in live : TRUE)

Scheduled(mm, r) ==
    \E s \in Slot : LET t == mm.txns[s] IN
        /\ t.kind \in {"RELEASE_ACTIVE", "RELEASE_LEG"} /\ t.leg = r
        /\ t.state \notin {"FAILED", "CANCELLED"}

(* AT+CHLD=1 releases the second call and takes the held one back; it may  *)
(* only be sent when nothing else would be hit.                            *)
ReleaseReady(mm, id) == \A o \in InUse(mm) \ {id} : mm.legs[o].state = "HELD"

Released(q, r, kind) ==
    IF q.token = 0 THEN [m |-> QueueRelease(q.m, r.leg, r.recover), cmd |-> Silence]
    ELSE Send(q.m, Cmd(kind, q.token, r.leg.id))

Release(mm, rest, r) ==
    LET kind == IF r.recover THEN "RELEASE_ACTIVE" ELSE "RELEASE_LEG" IN
    IF r.recover /\ ~ReleaseReady(mm, r.leg.id)
    THEN [m |-> QueueRelease(rest, r.leg, r.recover), cmd |-> Silence]
    ELSE Released(Request(rest, kind, r.leg.id, FALSE), r, kind)

ReleaseFirst(mm, todo) ==
    IF todo = {} THEN [m |-> [mm EXCEPT !.releases = <<>>], cmd |-> Silence]
    ELSE Release(mm, [mm EXCEPT !.releases = SubSeq(@, Min(todo) + 1, Len(@))],
                 mm.releases[Min(todo)])

StartRelease(mm) ==
    ReleaseFirst(mm, {n \in DOMAIN mm.releases : /\ Has(mm, mm.releases[n].leg)
                                                 /\ ~Scheduled(mm, mm.releases[n].leg)})

(* A request that the cleanup of a second call stands in the way of.  (With *)
(* no listing due the code starts it all the same; the screens never queue *)
(* one behind a second call.)                                              *)
Blocked(t) == queue # <<>> /\ CleanupBlocks(Head(queue).kind) /\ CleanupPending(t)
Ready(t)   == queue # <<>> /\ ~Blocked(t)

Begins(r) ==
    /\ wire' = r.cmd  /\ owed' = IF r.cmd = Silence THEN owed ELSE Append(owed, r.cmd)
    /\ m' = Project(r.m)  /\ Note

(* A pass begins with the tick, t; r is what the cleanup would start then. *)
StartRequest(t) ==
    /\ UNCHANGED <<outside, budget>>  /\ ~Waits  /\ Ready(t)  /\ queue' = Tail(queue)
    /\ \E sent \in {Send(t, Head(queue))} : Begins(sent)

StartCleanup(t, r) ==
    /\ UNCHANGED <<queue, outside, budget>>  /\ ~Waits  /\ ~Ready(t)  /\ r.cmd # Silence
    /\ Begins(r)

Poll(t, r) ==
    /\ UNCHANGED <<queue, outside, budget>>  /\ ~Waits  /\ ~Ready(t)
    /\ r.cmd = Silence  /\ WantsClcc(r.m)
    /\ Begins([m |-> ClccBegin(r.m), cmd |-> Cmd("CLCC", 0, 0)])

(* A pass in which nothing is due.                                         *)
Rested(t, r) == Project(IF Waits \/ Ready(t) \/ r.cmd # Silence THEN t ELSE r.m)

Rest(t, r) == UNCHANGED <<queue, wire, owed, outside, budget>> /\ m' = Rested(t, r) /\ Note

Turn == \E t \in {Tick(m, Calm)} : \E r \in {StartRelease(t)} :
            StartRequest(t) \/ StartCleanup(t, r) \/ Poll(t, r) \/ Rest(t, r)

(* Nothing that was given up can be released now.                          *)
NoRelease == StartRelease(Tick(m, Calm)).cmd = Silence

(* The table has caught up: nothing is out and every call has its leg.     *)
CaughtUp == /\ ~Waits  /\ owed = <<>>  /\ queue = <<>>  /\ InUse(m) = Busy(net)
            /\ \A id \in Busy(net) : m.legs[id].state \in {net[id].state, "RELEASING"}

RingsOn  == On(net, "INCOMING") \cup On(net, "WAITING") # {}

(* The two minutes of the long deadlines are longer than any command and   *)
(* the listings after it, and a call that rings is heard ringing.  Of the  *)
(* 8 s of limbo, a leg that one listing missed needs only the next one; a  *)
(* leg given up stays if its release can not start or did not work.        *)
Timely(e) ==
    CASE e.kind \in {"abandon", "tombstone"} -> CaughtUp /\ (m.mt = NoMt \/ m.mt.leg # NoRef \/ RingsOn)
      [] e.kind = "ring"  -> CaughtUp /\ ~RingsOn
      [] e.kind = "limbo" -> CaughtUp /\ m.legs[e.at].state = "RELEASING" /\ NoRelease

Passes(e) == /\ UNCHANGED <<queue, wire, owed, outside, cut, asked>>
             /\ \E t \in {Tick(m, e)} : m' = Project(t)
             /\ Note

Deadline == UNCHANGED <<wire, faults>> /\ \E e \in Expiries(m) : Timely(e) /\ Passes(e)

(* A call command, which may take up to 30 s, lasts longer than the limbo. *)
Slow == /\ Fault("slow")  /\ WaitsForCall
        /\ \E e \in Expiries(m) : e.kind = "limbo" /\ Passes(e)

----------------------------------------------------------------------------
User    == Ask \/ AbandonNewCall
Network == Arrives \/ RemoteAnswers \/ EndsWithEvent \/ EndsWithFinal \/ EndsUnheard
Modem   == Answers \/ Refuses \/ Misses
Service == TimesOut \/ Turn \/ Deadline \/ Slow

Next == User \/ Network \/ Rings \/ Modem \/ Service

Spec == Init /\ [][Next]_vars

(* Fairness.  TLC computes ENABLED of an action afresh for every use of    *)
(* what the action defines, so weak fairness is written out, with the      *)
(* condition under which the action can change something.                  *)
MayTurn  == \E t \in {Tick(m, Calm)} : \E r \in {StartRelease(t)} :
                \/ ~Waits /\ (queue # <<>> \/ r.cmd # Silence \/ WantsClcc(r.m))
                \/ Rested(t, r) # m
MayRing  == ~m.mt.active /\ RingsOn
MayExpire == \E e \in Expiries(m) : Timely(e)

ListsWell == m.shadow = "open" /\ owed # <<>> /\ Head(owed) = wire

LiveSpec == /\ Spec
            /\ []<>~MayTurn \/ []<><<Turn>>_vars
            /\ []<>(owed = <<>>) \/ []<><<Answers>>_vars
            /\ <>[]~ListsWell \/ []<><<ListsWell /\ Answers>>_vars
            /\ []<>~MayRing \/ []<><<Rings>>_vars
            /\ <>[]~MayExpire \/ []<><<Deadline>>_vars

----------------------------------------------------------------------------
Ops     == {"NONE", "DIAL", "ANSWER", "HANGUP", "HOLD", "SWAP", "WAIT_ANSWER", "WAIT_REJECT",
            "RELEASE_ACTIVE", "RELEASE_LEG", "CLCC"}
Dirs    == {"NONE", "MO", "MT"}
OnAir   == {"FREE", "DIALING", "INCOMING", "WAITING", "ACTIVE", "HELD"}
Refs    == [id : Id \cup {0}, gen : Nat]
Command == [kind : Ops, token : Nat, at : Id \cup {0}]
Row     == [state : OnAir, dir : Dirs, call : Nat]
Leg     == [slot : 0..Cardinality(Id), state : OnAir \cup {"RELEASING"}, dir : Dirs,
            leaving : BOOLEAN, role : OnAir \cup {"NONE", "RELEASING"}, call : Nat]
Txn     == [kind : Ops \ {"CLCC"}, token : Nat, second : BOOLEAN, leg : Refs, held : Refs,
            state : {"PENDING", "SENT", "SUCCEEDED", "FAILED", "CANCELLED"},
            wasHeld : BOOLEAN, baseline : SUBSET Refs, setups : SUBSET Nat, episode : Nat,
            cause : BOOLEAN, tomb : BOOLEAN, cleaned : BOOLEAN]
Shown   == [state : {"IDLE", "DIALING", "ANSWERING", "RINGING", "ACTIVE"}, id : Id \cup {0},
            hold : BOOLEAN, second : BOOLEAN, waiting : BOOLEAN, ring : BOOLEAN]
Model   == [legs : [Id -> Leg], gen : [Id -> Nat], txns : [Slot -> Txn],
            mt : [active : BOOLEAN, gen : Nat, leg : Refs, missed : 0..1],
            shadow : {"closed", "open", "bad"}, absent : SUBSET Refs, revised : BOOLEAN,
            releases : Seq([leg : Refs, recover : BOOLEAN]), shown : Shown, token : Nat \ {0}]

(* Every variable has its type; the legs in use have a slot each, and a    *)
(* full queue gives an entry up for one that is put before it.             *)
TypeOK ==
    /\ m \in Model
    /\ \A id, o \in InUse(m) : id # o => m.legs[id].slot # m.legs[o].slot
    /\ queue \in Seq(Command)  /\ Len(queue) <= QueueLen
    /\ wire \in Command  /\ owed \in Seq(Command)
    /\ net \in [Id -> Row]  /\ calls \in Seq(Nat)  /\ Len(calls) <= MaxCalls
    /\ given \subseteq 1..Len(calls)  /\ lost \subseteq 1..Len(calls)
    /\ asked \in 0..MaxAsked  /\ faults \subseteq Faults  /\ cut \in BOOLEAN

(* A call the table gave up never comes back as a live one: whatever the   *)
(* listings show, whatever is asked for and whatever goes wrong, its leg   *)
(* is RELEASING until it ends.  The exception is a leg that the table lets *)
(* go of while its call goes on, and the next listing finds anew: a leg    *)
(* whose release was refused or could not start before its limbo was over. *)
(* The variables have their types.                                         *)
NeverResurrected ==
    /\ TypeOK
    /\ \A id \in Id : m.legs[id].state # "RELEASING" => m.legs[id].call \notin given \ lost

(* A dial that takes a leg takes that of its own call, or of a call of a   *)
(* dial that is forgotten or has another leg: never of an incoming call,   *)
(* nor of a dial that has this leg or waits for one.  Of the calls that a  *)
(* cancelled dial waits for, another cancelled dial may take one, and a    *)
(* later dial one that the table let go of.                                *)
BindsOwnCall ==
    [][\A s \in Slot : LET t == m'.txns[s]  c == m'.legs[t.leg.id].call IN
         t.kind = "DIAL" /\ t.leg \notin {NoRef, m.txns[s].leg} /\ c # 0 =>
             \/ calls'[c] = t.token
             \/ /\ calls'[c] # 0
                /\ \A o \in SlotOf(m, calls'[c]) :
                      IF m.txns[o].leg = NoRef THEN m.txns[o].tomb /\ (t.tomb \/ c \in lost)
                      ELSE m.txns[o].leg # t.leg]_vars

(* As long as every command ends with its own answer, a listing that lacks *)
(* a row drops no call that goes on.                                       *)
PollNeverDropsLive ==
    [][owed # <<>> /\ owed' = Tail(owed) /\ ~cut' => lost' \subseteq lost]_vars

Settled ==
    /\ queue = <<>>  /\ m.releases = <<>>
    /\ \A s \in Slot : m.txns[s] = NoTxn \/ (IsTerminal(m.txns[s]) /\ Has(m, m.txns[s].leg))
    /\ \A id \in Id : m.legs[id].state = net[id].state /\ m.legs[id].call = net[id].call
    /\ m.shown.state = "IDLE" <=> Busy(net) = {}

(* As long as every command ends with its own answer, the modem refuses no *)
(* command it could carry out, no listing lacks a row and no call command  *)
(* outlasts a leg's limbo, the table comes to show the calls there are,    *)
(* with nothing left to do, once the user and the network are quiet.       *)
Smooth  == ~cut /\ faults \subseteq {"unheard"}
Settles == []Smooth => <>[]Settled
=============================================================================
