---------------------------- MODULE CallInvariant ----------------------------
(***************************************************************************)
(* The inductive invariant of CallService: IInv, which keeps a call that   *)
(* was given up from coming back, and DInv, which keeps a dial from taking *)
(* the leg of another call.  CallService_proofs proves that both hold.     *)
(***************************************************************************)
EXTENDS CallService

(* As long as every command ended with its own answer, the modem owes the  *)
(* answer of the one command that is out and of no other.                  *)
Commands ==
    /\ \A n \in DOMAIN queue : queue[n].kind # "NONE"
    /\ \A n \in DOMAIN owed : owed[n].kind # "NONE"
    /\ ~cut => owed = IF wire = Silence THEN <<>> ELSE <<wire>>

(* Every leg is of one call, and shows the call under its id if there is   *)
(* one; calls are numbered in the order they came.                         *)
Calls ==
    /\ \A id \in Busy(net) : net[id].call \in 1..Len(calls)
    /\ \A id, o \in Busy(net) : net[id].call = net[o].call => id = o
    /\ \A id \in Id : IF m.legs[id].state = "FREE" THEN m.legs[id].call = 0
                      ELSE m.legs[id].call \in 1..Len(calls)
    /\ \A id, o \in InUse(m) : m.legs[id].call = m.legs[o].call => id = o
    /\ \A id \in InUse(m), o \in Busy(net) : m.legs[id].call = net[o].call <=> id = o

(* A leg that the last listing lacked has no call: the id is not used      *)
(* again while the table has a leg for it.                                 *)
Armed ==
    ~cut /\ "miss" \notin faults =>
        \A id \in InUse(m) : Ref(m, id) \in m.absent => id \notin Busy(net)

(* A call that was given up and goes on has its leg, or was let go of.     *)
GivenUp ==
    /\ \A id \in InUse(m) : m.legs[id].state = "RELEASING" => m.legs[id].call \in given
    /\ given \cap Going(net) \subseteq Shows(m.legs) \cup lost

Resurrects == \E id \in Id : m.legs[id].state # "RELEASING" /\ m.legs[id].call \in given \ lost

(* The calls that were given up.                                           *)
IInv == NeverResurrected /\ Commands /\ Calls /\ Armed /\ GivenUp

----------------------------------------------------------------------------
(* A table, v: its legs and its dials.                                     *)

(* The dials that were sent and have no leg yet.                           *)
Dials(v) == {s \in Slot : v.txns[s].kind = "DIAL" /\ v.txns[s].state = "SENT" /\ v.txns[s].leg = NoRef}

(* The legs that other operations than dials, and releases, go by.         *)
Claims(v) ==
    {v.txns[s].leg : s \in {x \in Slot : v.txns[x].kind \notin {"NONE", "DIAL"}}}
    \cup {v.releases[n].leg : n \in DOMAIN v.releases}

(* A reference is to a leg that there is or was; one that no dial can take.*)
Known(v, r)    == Has(v, r) \/ (r.id \in Id => r.gen < v.gen[r.id])
Taken(v, r)    == v.legs[r.id].dir = "MT" \/ v.legs[r.id].state = "RELEASING"
Harmless(v, r) == Known(v, r) /\ (Has(v, r) => Taken(v, r))

(* A dial is tombed when it is over, a leg in use has a side, and what     *)
(* rings, MT, is what the episode of RING is of.                           *)
FitDial(t) ==
    /\ t.state = "PENDING" => t.leg = NoRef
    /\ t.tomb => IsTerminal(t)
    /\ t.cleaned => t.tomb /\ t.leg = NoRef

MtFits(v) == v.mt.leg # NoRef => Has(v, v.mt.leg) /\ v.legs[v.mt.leg.id].dir = "MT"

LegFits(leg) == /\ leg.dir \in {"MO", "MT"}
                /\ leg.state \in {"INCOMING", "WAITING"} => leg.dir = "MT"

Fit(v) ==
    /\ v \in Model
    /\ \A id \in Id : v.gen[id] # 0 /\ (v.legs[id].state # "FREE" => LegFits(v.legs[id]))
    /\ MtFits(v)
    /\ \A s \in Slot : v.txns[s].kind = "DIAL" => FitDial(v.txns[s])

(* A tombstone whose time is over has gone.                                *)
Swept(v) == \A s \in Slot : v.txns[s].kind = "DIAL" => ~v.txns[s].cleaned

(* Between two passes of the service, no dial has ended without a leg but  *)
(* the tombstones that still wait for one.                                 *)
Neat(v) == \A s \in Slot : LET t == v.txns[s] IN
              t.kind = "DIAL" /\ IsTerminal(t) /\ t.leg = NoRef => t.tomb
Tidy(v) == Swept(v) /\ Neat(v)

----------------------------------------------------------------------------
(* The table and what is around it: k is the token of every call placed,   *)
(* sent the tokens of the dials written, q the queue, ls the calls lost.   *)

Owned(v, r) == \E o \in Slot : v.txns[o].kind = "DIAL" /\ v.txns[o].leg = r

(* Every leg that places a call was there when the dials S were sent, or   *)
(* has its dial.                                                           *)
NoneFree(v, S) ==
    \A s \in S, id \in InUse(v) :
        Places(v, id) => Ref(v, id) \in v.txns[s].baseline \/ Owned(v, Ref(v, id))

(* A leg that another operation may go by without taking it from a dial.   *)
Claimable(v, r) ==
    /\ Known(v, r)
    /\ \A s \in Dials(v) : Has(v, r) => r \in v.txns[s].baseline \/ Taken(v, r)

Claimed(v) == \A r \in Claims(v) : Claimable(v, r)

(* A token is that of one transaction, and one dial at most is open.       *)
Tokens(v) ==
    /\ \A s \in Slot : v.txns[s].kind # "NONE" => v.txns[s].token < v.token /\ v.txns[s].token # 0
    /\ \A s, o \in Slot :
          v.txns[s].kind # "NONE" /\ v.txns[o].kind # "NONE" /\ v.txns[s].token = v.txns[o].token
              => s = o
    /\ \A s, o \in OpenDials(v) : s = o

(* What was sent is no longer pending; what is queued was not sent.        *)
SentOnes(v, sent) ==
    \A tok \in sent : /\ tok \in Nat  /\ tok < v.token
                      /\ \A s \in SlotOf(v, tok) : /\ v.txns[s].kind = "DIAL"
                                                   /\ v.txns[s].state # "PENDING"

(* No leg that was there when a dial was sent is of its call.              *)
Bases(v, k) ==
    \A s \in Dials(v) :
        /\ \A r \in v.txns[s].baseline : Known(v, r)
        /\ \A id \in InUse(v) :
              Ref(v, id) \in v.txns[s].baseline => k[v.legs[id].call] # v.txns[s].token

(* A cancelled dial whose leg may still come.                              *)
Orphan(t) == t.kind = "DIAL" /\ t.tomb /\ t.leg = NoRef

(* No second call is dialled over another that may still come.             *)
Second(v) == \A s \in Dials(v), o \in Slot : Orphan(v.txns[o]) => ~v.txns[o].second

(* The legs made since a dial was sent that are of the call of a cancelled *)
(* one were let go of before.                                              *)
Strays(v, k, ls) ==
    \A s \in Dials(v), o \in Slot, id \in InUse(v) :
        Orphan(v.txns[o]) /\ k[v.legs[id].call] = v.txns[o].token =>
            Ref(v, id) \in v.txns[s].baseline \/ v.legs[id].call \in ls

EntryFits(v, c, sent) ==
    /\ c.token < v.token  /\ c.token # 0  /\ c.token \notin sent
    /\ \A s \in SlotOf(v, c.token) : /\ v.txns[s].kind = c.kind
                                     /\ v.txns[s].kind = "DIAL" => v.txns[s].state # "SENT"

Unqueued(q, tok) == \A n \in DOMAIN q : q[n].token # tok

QueueFits(v, q, sent) ==
    /\ \A n, i \in DOMAIN q : q[n].token = q[i].token => n = i
    /\ \A n \in DOMAIN q : EntryFits(v, q[n], sent)

Knows(v, k, sent, q, ls) ==
    /\ Tokens(v)  /\ SentOnes(v, sent)  /\ Claimed(v)  /\ Bases(v, k)
    /\ Second(v)  /\ Strays(v, k, ls)  /\ QueueFits(v, q, sent)

Sane(v, k, sent, q, ls) == Knows(v, k, sent, q, ls) /\ NoneFree(v, Dials(v))

----------------------------------------------------------------------------
(* The dials and the network.                                              *)

(* The tokens of the dials that were written, answered or not.             *)
Sent == ({calls[c] : c \in DOMAIN calls}
         \cup {owed[n].token : n \in {x \in DOMAIN owed : owed[x].kind = "DIAL"}}) \ {0}

(* The call of a cancelled dial that goes on without a leg was let go of,  *)
(* and no such call is still to come.                                      *)
Waited(tok) == /\ \A n \in DOMAIN owed : owed[n].kind = "DIAL" => owed[n].token # tok
               /\ \A c \in Going(net) : calls[c] = tok => c \in Shows(m.legs) \cup lost

Orphans == \A o \in Slot : Orphan(m.txns[o]) /\ ~m.txns[o].second => Waited(m.txns[o].token)

(* A call that the user placed has a token.                                *)
Side(c) == IF calls[c] = 0 THEN "MT" ELSE "MO"
Sided   == \A id \in InUse(m) : m.legs[id].dir = Side(m.legs[id].call)

(* What the network can be like: one call set up or talked in at a time.   *)
NetFit ==
    /\ \A id \in Busy(net) : /\ net[id].dir = Side(net[id].call)
                             /\ net[id].state \in {"INCOMING", "WAITING"} => net[id].dir = "MT"
    /\ \A id, o \in On(net, "ACTIVE") \cup On(net, "DIALING") : id = o
    /\ \A id, o \in On(net, "HELD") : id = o
    /\ \A id, o \in On(net, "WAITING") : id = o
    /\ \A id \in On(net, "INCOMING") : Busy(net) = {id}
    /\ On(net, "WAITING") = {} \/ On(net, "DIALING") = {}

Table == Fit(m) /\ Tidy(m) /\ Sane(m, calls, Sent, queue, lost) /\ Orphans /\ Sided

(* A dial that was written has a token.                                    *)
Written == \A n \in DOMAIN owed : owed[n].kind = "DIAL" => owed[n].token # 0

(* All of it.                                                             *)
DInv == IInv /\ Table /\ NetFit /\ Written

=============================================================================
