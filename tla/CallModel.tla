------------------------------- MODULE CallModel -------------------------------
(***************************************************************************)
(* The call-leg table of the phone (services/modem_call_model.c): a pure   *)
(* reducer over one record m, called by the modem service for every line   *)
(* heard, every listing of calls (AT+CLCC), every request of the user and  *)
(* every tick.  Each operator below takes m and gives the m that follows.  *)
(*                                                                         *)
(* The only backend with calls never trusts the id of a call event, so the *)
(* table is driven by listings alone and directions are always known.      *)
(* DISPATCHED, BOUND and UNCERTAIN differ only in how soon the next        *)
(* listing is wanted; all three are "SENT" here.  The leg that a dial is   *)
(* bound to and the target of the other operations are one field, leg.     *)
(***************************************************************************)
EXTENDS Naturals, Sequences, FiniteSets, FiniteSetsExt, SequencesExt

CONSTANTS Id,        \* the call ids the modem may use, a set of positive numbers
          LastSlot   \* the last transaction slot; slot 0 belongs to HANGUP

ASSUME CallModelAssumption ==
    /\ Id \subseteq Nat \ {0}  /\ IsFiniteSet(Id)
    /\ LastSlot \in Nat \ {0}

Slot == 0..LastSlot

(* A pass over some slots in order: each step sees what those before did.  *)
InOrder(Do(_, _), m, S) == MapThenFoldSet(LAMBDA s, mm : Do(mm, s), m, LAMBDA s : s, Max, S)

NoRef   == [id |-> 0, gen |-> 0]
NoLeg   == [slot |-> 0, state |-> "FREE", dir |-> "NONE", leaving |-> FALSE,
            role |-> "NONE", call |-> 0]
NoTxn   == [kind |-> "NONE", token |-> 0, state |-> "PENDING", second |-> FALSE,
            leg |-> NoRef, held |-> NoRef, wasHeld |-> FALSE, baseline |-> {},
            setups |-> {}, episode |-> 0, cause |-> FALSE, tomb |-> FALSE,
            cleaned |-> FALSE]
NoMt    == [active |-> FALSE, gen |-> 0, leg |-> NoRef, missed |-> 0]
NoRow   == [state |-> "FREE", dir |-> "NONE", call |-> 0]
Idle    == [state |-> "IDLE", id |-> 0, hold |-> FALSE, second |-> FALSE,
            waiting |-> FALSE, ring |-> FALSE]

(* leg.call is a history field: which call of the network the listing that *)
(* made the leg had shown.                                                 *)
InitModel ==
    [legs |-> [id \in Id |-> NoLeg], gen |-> [id \in Id |-> 1],
     txns |-> [s \in Slot |-> NoTxn], mt |-> NoMt, shadow |-> "closed",
     absent |-> {}, revised |-> FALSE, releases |-> <<>>, shown |-> Idle,
     token |-> 1]

----------------------------------------------------------------------------
(* Reading the table.                                                      *)

Ref(m, id)     == [id |-> id, gen |-> m.gen[id]]
InUse(m)       == {id \in Id : m.legs[id].state # "FREE"}
Has(m, r)      == r.id # 0 /\ m.gen[r.id] = r.gen /\ r.id \in InUse(m)
StateOf(m, r)  == IF Has(m, r) THEN m.legs[r.id].state ELSE "FREE"
Ringing(m, id) == m.legs[id].state \in {"INCOMING", "WAITING"}

IsOpen(t)      == t.kind # "NONE" /\ t.state \in {"PENDING", "SENT"}
IsTerminal(t)  == t.state \in {"SUCCEEDED", "FAILED", "CANCELLED"}
SlotOf(m, tok) == {s \in Slot : m.txns[s].kind # "NONE" /\ m.txns[s].token = tok}

(* The first leg of a state in slot order.                                 *)
FindRole(m, st) ==
    LET some == {id \in Id : m.legs[id].state = st}
    IN  IF some = {} THEN NoRef
        ELSE Ref(m, CHOOSE id \in some :
                       \A o \in some : m.legs[id].slot <= m.legs[o].slot)

(* An operation bound to an episode of ringing is stale once it is over.   *)
EpisodeStale(m, t) ==
    IF t.episode = 0 THEN t.leg = NoRef
    ELSE ~m.mt.active \/ m.mt.gen # t.episode

OwnedByOther(m, s, r) == \E o \in Slot \ {s} : m.txns[o].kind # "NONE" /\ m.txns[o].leg = r

HangupOwns(m, t, r) ==
    \/ t.leg = r
    \/ r \in t.baseline
    \/ \E s \in Slot : /\ m.txns[s].kind = "DIAL" /\ m.txns[s].token \in t.setups
                       /\ m.txns[s].leg = r

HangupHasWork(m, t) ==
    \/ \E id \in InUse(m) : HangupOwns(m, t, Ref(m, id))
    \/ \E s \in Slot : /\ m.txns[s].kind = "DIAL" /\ m.txns[s].token \in t.setups
                       /\ m.txns[s].state = "SENT" /\ m.txns[s].leg = NoRef
    \/ t.episode # 0 /\ m.mt.active /\ m.mt.gen = t.episode

(* HOLD, SWAP and HANGUP own no leg of their own.                          *)
Owner(t) == IF t.kind \in {"HOLD", "SWAP", "HANGUP"} THEN NoRef ELSE t.leg

(* An abandoned new call may still have, or still get, a leg.              *)
CleanupPending(m) ==
    \E s \in Slot : LET t == m.txns[s] IN
        /\ t.kind = "DIAL" /\ t.second /\ t.tomb
        /\ IF t.leg = NoRef THEN ~t.cleaned ELSE Has(m, t.leg)

HoldAvailable(m) ==
    /\ ~m.mt.active
    /\ \E id \in Id : /\ InUse(m) = {id}
                      /\ m.legs[id].state \in {"ACTIVE", "HELD"} /\ ~m.legs[id].leaving

----------------------------------------------------------------------------
(* Changes every path shares: an open listing is spoilt by any of them.    *)

Touched(m) == IF m.shadow = "open" THEN "bad" ELSE m.shadow
Touch(m)   == [m EXCEPT !.shadow = Touched(m)]
Revise(m)  == m.absent # {}   \* only compared while a removal is armed

Unbind(m, id) == IF m.mt.leg = Ref(m, id) THEN NoMt ELSE m.mt

Evict(m, id) ==
    [m EXCEPT !.shadow = Touched(m), !.mt = Unbind(m, id), !.gen[id] = @ + 1,
              !.legs[id] = NoLeg, !.revised = Revise(m)]

EvictAll(m, ids) == FoldSet(LAMBDA id, mm : Evict(mm, id), m, ids)

QueueRelease(m, r, recover) ==
    IF \E n \in DOMAIN m.releases : m.releases[n].leg = r
    THEN [m EXCEPT !.releases =
            [n \in DOMAIN @ |-> IF @[n].leg = r /\ recover
                                THEN [@[n] EXCEPT !.recover = TRUE] ELSE @[n]]]
    ELSE [m EXCEPT !.releases = Append(@, [leg |-> r, recover |-> recover])]

(* Giving a leg up: it is RELEASING from here on, and a release is queued. *)
AbandonLeg(m, t) ==
    LET r == Owner(t) IN
    IF ~Has(m, r) THEN m
    ELSE QueueRelease(
            [m EXCEPT !.shadow = Touched(m),
                      !.legs[r.id].state = "RELEASING",
                      !.legs[r.id].leaving = TRUE,
                      !.revised = IF m.legs[r.id].state = "RELEASING" THEN @ ELSE Revise(m),
                      !.mt = Unbind(m, r.id)],
            r, t.kind = "RELEASE_ACTIVE" \/ (t.kind = "DIAL" /\ t.second))

(* Fault for CancelTxn: the record of a cancelled dial is dropped at once. *)
CancelTxnForgets(m, s) ==
    LET t == m.txns[s] IN [AbandonLeg(Touch(m), t) EXCEPT !.txns[s] = NoTxn]

(* Cancelling an operation never sent frees its slot; one that was sent    *)
(* leaves a tombstone that waits for the leg it may still produce.         *)
CancelTxn(m, s) ==
    LET t == m.txns[s] IN
    IF t.state = "PENDING" THEN [Touch(m) EXCEPT !.txns[s] = NoTxn]
    ELSE [AbandonLeg(Touch(m), t) EXCEPT
            !.txns[s].state = "CANCELLED", !.txns[s].tomb = TRUE,
            !.txns[s].cleaned = t.kind \in {"HOLD", "SWAP", "HANGUP"}]

Cancel(m, tok) ==
    LET live == {s \in SlotOf(m, tok) : ~IsTerminal(m.txns[s])}
    IN  IF tok = 0 \/ live = {} THEN m ELSE CancelTxn(m, CHOOSE s \in live : TRUE)

NewCallAbandoned(m) ==
    LET some == {s \in Slot : IsOpen(m.txns[s]) /\ m.txns[s].kind = "DIAL" /\ m.txns[s].second}
    IN  IF some = {} THEN m ELSE CancelTxn(m, Min(some))

----------------------------------------------------------------------------
(* Reconciling transactions with the table, one pass over the slots each;  *)
(* where no slot depends on another the pass is a map.                     *)

ForEach(m, New(_, _)) == [m EXCEPT !.txns = [s \in Slot |-> New(m, m.txns[s])]]

(* Fault for Places: whatever its direction and state, a new leg will do.  *)
PlacesAny(m, id) == id \in InUse(m)

Places(m, id) == m.legs[id].dir # "MT" /\ m.legs[id].state \in {"DIALING", "ACTIVE"}

(* A dial takes the one leg that was not there when it was sent.           *)
BindDial(m, s) ==
    LET some == {id \in InUse(m) : /\ Ref(m, id) \notin m.txns[s].baseline
                                   /\ ~OwnedByOther(m, s, Ref(m, id))
                                   /\ Places(m, id)}
    IN  IF Cardinality(some) = 1
        THEN [m EXCEPT !.txns[s].leg = Ref(m, CHOOSE id \in some : TRUE)] ELSE m

BindDials(m) ==
    InOrder(BindDial, m, {s \in Slot : LET t == m.txns[s] IN
                            t.kind = "DIAL" /\ t.state = "SENT" /\ t.leg = NoRef})

BindTarget(m, t) ==
    IF /\ t.kind \in {"ANSWER", "WAIT_ANSWER", "WAIT_REJECT"}
       /\ t.state = "SENT" /\ t.leg = NoRef /\ ~EpisodeStale(m, t)
    THEN [t EXCEPT !.leg = FindRole(m, IF t.kind = "ANSWER" THEN "INCOMING" ELSE "WAITING")]
    ELSE t

Succeeds(m, t) ==
    LET leg == StateOf(m, t.leg)   held == StateOf(m, t.held) IN
    CASE t.kind = "DIAL"        -> t.leg # NoRef /\ leg = "ACTIVE"
      [] t.kind = "ANSWER"      -> t.leg # NoRef /\ leg = "ACTIVE"
      [] t.kind = "HOLD"        -> leg # "FREE" /\ (leg = "HELD") # t.wasHeld
      [] t.kind = "SWAP"        -> IF t.wasHeld THEN leg = "ACTIVE" /\ held = "HELD"
                                   ELSE leg = "HELD" /\ held = "ACTIVE"
      [] t.kind = "WAIT_ANSWER" -> t.leg # NoRef /\ leg = "ACTIVE" /\ held \in {"FREE", "HELD"}
      [] t.kind = "WAIT_REJECT" -> IF t.leg = NoRef THEN EpisodeStale(m, t) ELSE leg = "FREE"
      [] t.kind = "RELEASE_ACTIVE" -> leg = "FREE" /\ (t.held = NoRef \/ held = "ACTIVE")
      [] t.kind = "RELEASE_LEG" -> leg = "FREE"
      [] t.kind = "HANGUP"      -> ~HangupHasWork(m, t)

Fails(m, t) ==
    CASE t.kind = "DIAL"        -> t.leg # NoRef /\ StateOf(m, t.leg) \in {"FREE", "RELEASING"}
      [] t.kind = "ANSWER"      -> IF t.leg = NoRef THEN EpisodeStale(m, t)
                                   ELSE StateOf(m, t.leg) \in {"FREE", "RELEASING"}
      [] t.kind = "HOLD"        -> StateOf(m, t.leg) = "FREE"
      [] t.kind = "WAIT_ANSWER" -> t.leg = NoRef /\ EpisodeStale(m, t)
      [] OTHER                  -> FALSE

Resolve(m, t) ==
    IF t.kind = "NONE" \/ t.state # "SENT" THEN t
    ELSE [t EXCEPT !.state = IF Succeeds(m, t) THEN "SUCCEEDED"
                             ELSE IF Fails(m, t) THEN "FAILED" ELSE @]

(* Only an operation that was sent is given up when its deadline is past.  *)
GiveUp(m, s) ==
    IF m.txns[s].kind # "NONE" /\ m.txns[s].state = "SENT"
    THEN [CancelTxn(m, s) EXCEPT !.txns[s].state = "FAILED"]
    ELSE m

(* A tombstone takes, and gives up, the leg its command made after all.    *)
Steady(m, id) == ~m.legs[id].leaving

TakeAndAbandon(m, s, r) ==
    AbandonLeg([m EXCEPT !.txns[s].leg = r], [m.txns[s] EXCEPT !.leg = r])

BindTombstone(m, s) ==
    LET t    == m.txns[s]
        some == {id \in InUse(m) : /\ Steady(m, id) /\ Places(m, id)
                                   /\ Ref(m, id) \notin t.baseline
                                   /\ ~OwnedByOther(m, s, Ref(m, id))}
    IN  CASE t.kind \in {"ANSWER", "WAIT_ANSWER"} /\ StateOf(m, t.leg) = "ACTIVE" -> AbandonLeg(m, t)
          [] t.kind = "DIAL" /\ t.leg = NoRef /\ Cardinality(some) = 1 ->
                TakeAndAbandon(m, s, Ref(m, CHOOSE id \in some : TRUE))
          [] OTHER -> m

BindTombstones(m) == InOrder(BindTombstone, m, {s \in Slot : m.txns[s].tomb})

Reconcile(m, late) ==
    BindTombstones(FoldSet(LAMBDA s, mm : GiveUp(mm, s),
                           ForEach(ForEach(BindDials(m), BindTarget), Resolve), late))

CleanupResolved(m, t) ==
    LET gone == t.leg = NoRef \/ ~Has(m, t.leg) IN
    \/ t.cleaned
    \/ CASE t.kind = "DIAL"    -> IF t.leg = NoRef THEN ~t.tomb ELSE gone
         [] t.kind = "ANSWER"  -> \/ t.state = "FAILED" /\ ~t.tomb
                                  \/ IF t.leg = NoRef THEN ~t.tomb ELSE gone
         [] t.kind = "HANGUP"  -> t.state = "FAILED" \/ ~HangupHasWork(m, t)
         [] t.kind \in {"RELEASE_ACTIVE", "RELEASE_LEG", "WAIT_REJECT"} ->
                                  (t.state = "FAILED" /\ ~t.tomb) \/ gone
         [] OTHER              -> TRUE

Retirable(m, s) == IsTerminal(m.txns[s]) /\ CleanupResolved(m, m.txns[s])
Retire(m, S)    == [m EXCEPT !.txns = [s \in Slot |-> IF s \in S /\ Retirable(m, s) THEN NoTxn
                                                     ELSE m.txns[s]]]

----------------------------------------------------------------------------
(* Lines heard.                                                            *)

BindExisting(m) ==
    LET some == {id \in InUse(m) : Steady(m, id) /\ Ringing(m, id) /\ m.legs[id].dir # "MO"}
        one  == CHOOSE id \in some : TRUE
    IN  IF m.mt.active /\ m.mt.leg = NoRef /\ Cardinality(some) = 1
        THEN [m EXCEPT !.mt.leg = Ref(m, one), !.legs[one].dir = "MT"]
        ELSE m

(* The code counts episodes; only whether two are the same matters.        *)
NewEpisode(m) == Min((1..(LastSlot + 2)) \ {m.txns[s].episode : s \in Slot})

OnRing(m) ==
    IF m.mt.active THEN [Touch(m) EXCEPT !.mt.missed = 0]
    ELSE [Touch(m) EXCEPT !.mt = [NoMt EXCEPT !.active = TRUE, !.gen = NewEpisode(m)]]

OnClip(m) == BindExisting(OnRing(m))

(* An event without a usable id: the listing under way can not be trusted. *)
OnEvent(m) == Touch(m)

(* BUSY, NO CARRIER... heard outside a call command: the cause of the only *)
(* operation it can belong to, never the end of a leg.                     *)
OnBareFinal(m) ==
    LET some == {s \in Slot : /\ m.txns[s].state = "SENT"
                              /\ m.txns[s].kind \in {"DIAL", "ANSWER", "HANGUP",
                                                     "RELEASE_ACTIVE", "RELEASE_LEG"}}
    IN  IF Cardinality(some) = 1
        THEN [Touch(m) EXCEPT !.txns[CHOOSE s \in some : TRUE].cause = TRUE]
        ELSE Touch(m)

----------------------------------------------------------------------------
(* Requests: each gives the m that follows and a token, 0 when refused.    *)

WantedRole(m, kind) ==
    CASE kind = "HOLD" -> IF FindRole(m, "ACTIVE") # NoRef THEN FindRole(m, "ACTIVE")
                          ELSE FindRole(m, "HELD")
      [] kind = "ANSWER" -> FindRole(m, "INCOMING")
      [] kind \in {"SWAP", "RELEASE_ACTIVE"} -> FindRole(m, "ACTIVE")
      [] kind \in {"WAIT_ANSWER", "WAIT_REJECT"} -> FindRole(m, "WAITING")
      [] kind = "HANGUP" -> m.mt.leg
      [] OTHER -> NoRef

NewTxn(m, kind, target, second) ==
    [NoTxn EXCEPT
        !.kind = kind, !.token = m.token, !.second = second,
        !.leg  = CASE kind \in {"DIAL", "HANGUP"} \/ target = 0 -> WantedRole(m, kind)
                   [] OTHER -> [id |-> target, gen |-> IF target \in InUse(m)
                                                       THEN m.gen[target] ELSE 0],
        !.held = CASE kind \in {"SWAP", "RELEASE_ACTIVE"} -> FindRole(m, "HELD")
                   [] kind = "WAIT_ANSWER" -> FindRole(m, "ACTIVE")
                   [] OTHER -> NoRef,
        !.episode = IF kind \in {"ANSWER", "WAIT_ANSWER", "WAIT_REJECT", "HANGUP"} /\ m.mt.active
                    THEN m.mt.gen ELSE 0]

Everyone(m) == {Ref(m, id) : id \in InUse(m)}

OpenDials(m) == {s \in Slot : m.txns[s].kind = "DIAL" /\ IsOpen(m.txns[s])}

(* A hang-up owns every leg there is and every dial that may still make    *)
(* one; a dial not sent yet is simply forgotten.                           *)
CaptureSetups(m, s) ==
    LET sent == {o \in OpenDials(m) : m.txns[o].state = "SENT"}
        own  == {m.txns[o].token : o \in {x \in sent : ~Has(m, m.txns[x].leg)}}
        free == FoldSet(LAMBDA o, mm : CancelTxn(mm, o), m, OpenDials(m) \ sent)
    IN  [free EXCEPT !.txns[s].setups = own, !.txns[s].baseline = Everyone(m)]

(* A new dial supersedes the open ones of its sort, unless one of them     *)
(* already has its leg or no slot would be left.                           *)
Superseded(m, second) == {s \in OpenDials(m) : m.txns[s].second = second}
MayDial(m, second) ==
    LET old == Superseded(m, second) IN
    /\ \A s \in old : ~Has(m, m.txns[s].leg)
    /\ \/ old = {}
       \/ \E s \in old : m.txns[s].state = "PENDING"
       \/ \E s \in Slot \ {0} : m.txns[s].kind = "NONE" \/ Retirable(m, s)

Cleared(m, kind, second) ==
    IF kind = "DIAL" THEN FoldSet(LAMBDA s, mm : CancelTxn(mm, s), m, Superseded(m, second)) ELSE m

Placed(m, slot, kind, target, second) ==
    LET made == [m EXCEPT !.txns[slot] = NewTxn(m, kind, target, second), !.token = @ + 1]
    IN  [m |-> IF kind = "HANGUP" THEN CaptureSetups(made, slot) ELSE made, token |-> m.token]

PlaceIn(m, free, kind, target, second) ==
    IF free = {} THEN [m |-> m, token |-> 0] ELSE Placed(m, Min(free), kind, target, second)

Request(m, kind, target, second) ==
    LET may   == IF kind = "HANGUP" THEN {0} ELSE Slot \ {0}
        ready == Retire(Cleared(m, kind, second), may)
    IN  IF kind = "DIAL" /\ ~MayDial(m, second) THEN [m |-> m, token |-> 0]
        ELSE PlaceIn(ready, {s \in may : ready.txns[s].kind = "NONE"}, kind, target, second)

(* What the table says just before the command is written.                 *)
Guard(m, t) ==
    LET known == t.leg # NoRef
        gone  == known /\ ~Has(m, t.leg)
    IN  CASE t.kind = "DIAL"   -> "SEND"
          [] t.kind = "ANSWER" -> IF gone THEN "STALE"
                                  ELSE IF known /\ StateOf(m, t.leg) = "ACTIVE" THEN "SATISFIED"
                                  ELSE IF ~known /\ EpisodeStale(m, t) THEN "STALE" ELSE "SEND"
          [] t.kind = "HOLD"   -> IF ~Has(m, t.leg) \/ CleanupPending(m) \/ ~HoldAvailable(m)
                                  THEN "STALE" ELSE "SEND"
          [] t.kind = "SWAP"   -> IF CleanupPending(m) \/ ~Has(m, t.leg) \/ ~Has(m, t.held)
                                  THEN "STALE" ELSE "SEND"
          [] t.kind = "WAIT_ANSWER" ->
                IF CleanupPending(m) \/ gone \/ (~known /\ EpisodeStale(m, t))
                THEN "STALE" ELSE "SEND"
          [] t.kind = "WAIT_REJECT" ->
                IF gone \/ (~known /\ EpisodeStale(m, t)) THEN "SATISFIED" ELSE "SEND"
          [] t.kind \in {"RELEASE_ACTIVE", "RELEASE_LEG"} ->
                IF ~Has(m, t.leg) THEN "SATISFIED" ELSE "SEND"
          [] t.kind = "HANGUP" -> IF HangupHasWork(m, t) THEN "SEND" ELSE "SATISFIED"

(* Writing the command of a transaction, unless it has become pointless.   *)
Dispatch(m, s, guard) ==
    LET t == m.txns[s] IN
    IF guard = "SEND"
    THEN [m EXCEPT !.txns[s].state = "SENT",
                   !.txns[s].baseline =
                       IF t.kind \in {"DIAL", "ANSWER", "WAIT_ANSWER"} THEN Everyone(m) ELSE @,
                   !.txns[s].wasHeld =
                       t.kind \in {"HOLD", "SWAP"} /\ StateOf(m, t.leg) = "HELD"]
    ELSE [Touch(m) EXCEPT !.txns[s].cleaned = TRUE,
                          !.txns[s].state = IF guard = "STALE" THEN "FAILED" ELSE "SUCCEEDED"]

(* The command ended: OK only says that the modem took it.                 *)
CommandResult(m, tok, status) ==
    LET live == {s \in SlotOf(m, tok) : ~IsTerminal(m.txns[s])}
        heard == [Touch(m) EXCEPT !.txns = [s \in Slot |->
                    IF s \in live /\ status = "ERROR" THEN [@[s] EXCEPT !.state = "FAILED"] ELSE @[s]]]
    IN  IF tok = 0 \/ live = {} \/ status = "OK" THEN m ELSE Reconcile(heard, {})

----------------------------------------------------------------------------
(* The listing of calls.                                                   *)

HasActivity(m) ==
    \/ m.mt.active
    \/ InUse(m) # {}
    \/ \E s \in Slot : LET t == m.txns[s] IN
         \/ IsOpen(t)
         \/ t.tomb /\ ~t.cleaned /\ t.leg = NoRef

WantsClcc(m) == HasActivity(m) /\ m.shadow = "closed"
ClccBegin(m) == [m EXCEPT !.shadow = "open"]
ClccError(m) == [m EXCEPT !.shadow = "closed"]

(* A leg seen while its ringing episode is open claims the operations that *)
(* were asked for before the leg had an id.                                *)
BindEpisode(m, id) ==
    LET leg == m.legs[id]
        r   == Ref(m, id)
        up(t) == leg.state = "ACTIVE" /\ leg.dir # "MO" /\ r \notin t.baseline
        matches(s) == LET t == m.txns[s] IN
            /\ t.kind # "NONE" /\ t.leg = NoRef
            /\ t.episode # 0 /\ t.episode = m.mt.gen
            /\ \/ t.tomb /\ t.kind \in {"ANSWER", "WAIT_ANSWER"} /\ up(t)
               \/ /\ ~t.tomb /\ IsOpen(t)
                  /\ CASE t.kind = "ANSWER"      -> leg.state = "INCOMING" \/ up(t)
                       [] t.kind = "WAIT_ANSWER" -> leg.state = "WAITING" \/ up(t)
                       [] t.kind = "WAIT_REJECT" -> leg.state = "WAITING"
                       [] t.kind = "HANGUP"      -> \/ Ringing(m, id)
                                                    \/ leg.state = "ACTIVE" /\ leg.dir # "MO"
                       [] OTHER -> FALSE
        mine == {s \in Slot : matches(s)}
    IN  IF ~m.mt.active THEN m
        ELSE [m EXCEPT !.txns = [s \in Slot |-> IF s \in mine THEN [@[s] EXCEPT !.leg = r]
                                                ELSE @[s]],
                       !.mt.leg = IF mine # {} /\ leg.state = "ACTIVE" THEN r ELSE @]

TrackMt(m, id) ==
    CASE m.mt.active /\ Ringing(m, id) ->
            [m EXCEPT !.mt.leg = Ref(m, id), !.legs[id].dir = "MT"]
      [] m.mt.active /\ m.legs[id].state = "ACTIVE" /\ m.mt.leg = Ref(m, id) ->
            [m EXCEPT !.mt = NoMt, !.legs[id].dir = "MT"]
      [] OTHER -> m

FreeLegSlot(m) == Min({n \in 1..Cardinality(Id) : \A id \in InUse(m) : m.legs[id].slot # n})

(* Fault for Updated: a listing that shows a leg makes it live again.      *)
UpdatedAnyway(m, old, row) ==
    IF old.state = "FREE"
    THEN [NoLeg EXCEPT !.slot = FreeLegSlot(m), !.state = row.state,
                       !.dir = row.dir, !.call = row.call]
    ELSE [old EXCEPT !.state = row.state, !.dir = row.dir, !.leaving = FALSE]

(* A row adds or updates its leg; a leg given up stays given up.           *)
Updated(m, old, row) ==
    CASE old.state = "FREE" -> [NoLeg EXCEPT !.slot = FreeLegSlot(m), !.state = row.state,
                                             !.dir = row.dir, !.call = row.call]
      [] old.state = "RELEASING" -> [old EXCEPT !.dir = row.dir]
      [] OTHER -> [old EXCEPT !.state = row.state, !.dir = row.dir, !.leaving = FALSE]

TakeLeg(m, id, leg) ==
    [m EXCEPT !.legs[id] = leg, !.revised = IF leg.state = m.legs[id].state THEN @ ELSE Revise(m)]

MergeRow(m, id, row) == TrackMt(BindEpisode(TakeLeg(m, id, Updated(m, m.legs[id], row)), id), id)

MissMt(m) ==
    LET missed == IF \E id \in InUse(m) : Ringing(m, id) THEN 0 ELSE m.mt.missed + 1 IN
    IF ~m.mt.active \/ m.mt.leg # NoRef THEN m
    ELSE [m EXCEPT !.mt = IF missed >= 2 THEN NoMt ELSE [@ EXCEPT !.missed = missed]]

(* Fault for RemoveAbsent: the first listing that lacks a leg removes it.  *)
RemoveAtOnce(m, before, gone) == EvictAll([m EXCEPT !.absent = {}, !.revised = FALSE], gone)

(* A leg is removed only when two listings in a row lack the same legs and *)
(* nothing changed in between.  (A leg whose limbo is over goes at once;   *)
(* the tick before the listing has seen to that, see Limbo.)               *)
RemoveAbsent(m, before, gone) ==
    LET refs == {Ref(m, id) : id \in gone} IN
    CASE gone = {} -> [m EXCEPT !.absent = {}, !.revised = FALSE]
      [] gone # {} /\ refs = m.absent /\ ~before ->
            EvictAll([m EXCEPT !.absent = {}, !.revised = FALSE], gone)
      [] OTHER ->
            [m EXCEPT !.legs = [id \in Id |-> IF id \in gone THEN [@[id] EXCEPT !.leaving = TRUE]
                                              ELSE @[id]],
                      !.absent = refs, !.revised = FALSE]

Rows(rows) == {id \in Id : rows[id].state # "FREE"}

NotListed(m, before, rows) == RemoveAbsent(m, before, InUse(m) \ Rows(rows))

Commit(m, rows) ==
    NotListed(MissMt(FoldSet(LAMBDA id, mm : MergeRow(mm, id, rows[id]),
                          [m EXCEPT !.shadow = "closed"], Rows(rows))),
           m.revised, rows)

(* After a clean listing: a dial or an answer with a known cause and no    *)
(* leg has ended, and a tombstone with no leg to wait for is done.         *)
ResolveNoLeg(m, t) ==
    LET survivor == \E id \in InUse(m) : m.legs[id].state \in {"ACTIVE", "HELD"}
    IN  IF /\ t.kind \in {"DIAL", "ANSWER"} /\ t.state = "SENT" /\ t.cause
           /\ ~Has(m, t.leg) /\ (t.second \/ ~survivor)
        THEN [t EXCEPT !.state = "FAILED"] ELSE t

ResolveTombstone(m, t) ==
    LET mine(id) == IF t.kind = "DIAL" THEN Places(m, id)
                    ELSE /\ t.kind \in {"ANSWER", "WAIT_ANSWER"}
                         /\ m.legs[id].state = "ACTIVE" /\ m.legs[id].dir # "MO"
        ringing == /\ t.kind \in {"ANSWER", "WAIT_ANSWER"} /\ t.episode # 0
                   /\ m.mt.active /\ m.mt.gen = t.episode
    IN  IF /\ t.tomb /\ ~t.cleaned /\ t.leg = NoRef /\ ~ringing
           /\ ~\E id \in InUse(m) : Steady(m, id) /\ Ref(m, id) \notin t.baseline /\ mine(id)
        THEN [t EXCEPT !.cleaned = TRUE] ELSE t

ClccOk(m, rows) ==
    IF m.shadow = "open"
    THEN ForEach(ForEach(Reconcile(Commit(m, rows), {}), ResolveNoLeg), ResolveTombstone)
    ELSE [m EXCEPT !.shadow = "closed"]

----------------------------------------------------------------------------
(* The tick; e is the deadline that passes with it.                        *)

Calm == [kind |-> "none", at |-> 0]
Expiry(kind, at) == [kind |-> kind, at |-> at]

TombstoneDue(m, e) ==
    IF e.kind = "tombstone" THEN [m EXCEPT !.txns[e.at].cleaned = TRUE] ELSE m

Limbo(m, e)    == IF e.kind = "limbo" /\ m.legs[e.at].leaving THEN Evict(m, e.at) ELSE m

RingOver(m, e) == IF e.kind = "ring" /\ m.mt.leg = NoRef THEN [m EXCEPT !.mt = NoMt] ELSE m

Tick(m, e) ==
    LET late == IF e.kind = "abandon" THEN {e.at} ELSE {} IN
    RingOver(Limbo(Reconcile(Retire(TombstoneDue(m, e), Slot), late), e), e)

(* Which deadlines may be running.                                         *)
Expiries(m) ==
    {Expiry("abandon", s) : s \in {x \in Slot : m.txns[x].kind # "NONE" /\ m.txns[x].state = "SENT"}}
    \cup {Expiry("tombstone", s) : s \in {x \in Slot : LET t == m.txns[x] IN
                                             t.tomb /\ ~t.cleaned /\ t.leg = NoRef}}
    \cup {Expiry("limbo", id) : id \in {x \in InUse(m) : m.legs[x].leaving}}
    \cup (IF m.mt.active /\ m.mt.leg = NoRef THEN {Expiry("ring", 0)} ELSE {})

----------------------------------------------------------------------------
(* What the user is shown.  A leg on its way out keeps the part it last    *)
(* played until a steady leg takes that part, so no frame shows a false    *)
(* IDLE; a table with two holders of one part leaves the frame as it was.  *)

Stays(m, st)   == {id \in InUse(m) : Steady(m, id) /\ m.legs[id].state = st}
Leaves(m, st)  == {id \in InUse(m) : ~Steady(m, id) /\ m.legs[id].role = st}
Holders(m, st) == IF Stays(m, st) # {} THEN Stays(m, st) ELSE Leaves(m, st)

Frame(m, active, held) ==
    LET up       == active \cup held # {}
        id       == CHOOSE x \in IF active # {} THEN active ELSE held : TRUE
        callers  == \E st \in {"WAITING", "INCOMING"} : Stays(m, st) \cup Leaves(m, st) # {}
        waiting  == callers \/ m.mt.active
        setup(k) == \E s \in Slot : m.txns[s].kind = k /\ IsOpen(m.txns[s])
        newcall  == \E s \in OpenDials(m) : m.txns[s].second /\ m.txns[s].leg # NoRef
    IN  CASE up /\ newcall  -> [Idle EXCEPT !.state = "DIALING", !.id = id]
          [] up /\ ~newcall ->
                [state |-> "ACTIVE", id |-> id, hold |-> active = {},
                 second |-> active # {} /\ held # {}, waiting |-> waiting, ring |-> waiting]
          [] ~up /\ setup("ANSWER") -> [Idle EXCEPT !.state = "ANSWERING"]
          [] ~up /\ ~setup("ANSWER") /\ waiting -> [Idle EXCEPT !.state = "RINGING", !.ring = TRUE]
          [] ~up /\ ~setup("ANSWER") /\ ~waiting /\ (setup("DIAL") \/ Stays(m, "DIALING") # {}) ->
                [Idle EXCEPT !.state = "DIALING"]
          [] OTHER -> Idle

Publish(m, frame) ==
    IF frame = Idle /\ \E id \in InUse(m) : ~Steady(m, id) THEN m
    ELSE [m EXCEPT !.shown = frame,
                   !.legs = [id \in Id |-> IF id \in InUse(m) /\ Steady(m, id)
                                           THEN [@[id] EXCEPT !.role = m.legs[id].state]
                                           ELSE @[id]]]

ProjectAs(m, active, held) ==
    IF Cardinality(active) > 1 \/ Cardinality(held) > 1 THEN m
    ELSE Publish(m, Frame(m, active, held))

Project(m) == ProjectAs(m, Holders(m, "ACTIVE"), Holders(m, "HELD"))
=============================================================================
