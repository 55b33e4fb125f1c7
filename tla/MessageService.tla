--------------------------- MODULE MessageService ---------------------------
(***************************************************************************)
(* The local message store of src/services/message_service.c: arrivals and *)
(* sent copies wait in a bounded RAM queue, arrivals become durable in the *)
(* staging collection, and a complete message is published to the inbox    *)
(* under the same object identifier before its staging file is removed.    *)
(*                                                                         *)
(* The whole service runs in message_service_tick, on the one core that    *)
(* owns storage.  Every storage call in a tick can succeed, be refused, or *)
(* fail, and a failed call may or may not have reached the media; only a   *)
(* power cut interleaves with a tick, and a cut between two of its storage *)
(* calls leaves the media as a failed second call does, so it is modelled  *)
(* by that failure followed by PowerCut.                                   *)
(*                                                                         *)
(* The one-second and one-minute backoffs delay ticks and deferred entries *)
(* but decide nothing else: when they expire is left open here.  The order *)
(* of the RAM indexes (by time, for display) is left open too.             *)
(***************************************************************************)
EXTENDS MessageFile, Sequences

CONSTANTS
    Copy,           \* texts the modem has confirmed as sent
    Draft,          \* the body of a saved draft
    NoBody,         \* no outbox file
    MaxId,          \* last object identifier (UINT32_MAX)
    QueueLimit,     \* RECEIVE_LIMIT
    PendingLimit,   \* PENDING_LIMIT
    MailboxLimit,   \* MESSAGE_MAILBOX_LIMIT
    MaxWall, TTL,   \* days of the wall clock; MESSAGE_INCOMPLETE_TTL_SECONDS
    Ops,            \* the kinds of request the user makes
    Outcomes,       \* what a storage call can do
    MaxArrivals,    \* bound: arrivals and sent copies accepted
    MaxReceipts,    \* bound: tracked arrivals since the last restart
    MaxRequests,    \* bound: user requests
    MaxFaults,      \* bound: storage calls that do not succeed
    MaxCuts,        \* bound: power cuts
    MaxRot          \* bound: files damaged on the media

ASSUME MessageServiceAssumption ==
    /\ MaxId \in Nat \ {0}
    /\ QueueLimit \in Nat \ {0}
    /\ PendingLimit \in Nat \ {0}
    /\ MailboxLimit \in Nat \ {0}
    /\ MaxWall \in Nat
    /\ TTL \in Nat \ {0}
    /\ Ops \subseteq {"LIST", "READ", "SAVE", "DELETE"}
    /\ "ok" \in Outcomes
    /\ Outcomes \subseteq {"ok", "lost", "late", "busy", "busyLate", "full"}
    /\ MaxArrivals \in Nat
    /\ MaxReceipts \in Nat
    /\ MaxRequests \in Nat
    /\ MaxFaults \in Nat
    /\ MaxCuts \in Nat
    /\ MaxRot \in Nat
    /\ Copy \cap Frag = {}
    /\ {Draft, NoBody} \cap (Copy \union Frag) = {}
    /\ Draft # NoBody

Id == 1 .. MaxId
Box == {"inbox", "outbox"}
Wall == 0 .. MaxWall            \* 0: the clock is not trusted
IoRetryLimit == 3               \* IO_RETRY_LIMIT

VARIABLES
    \* Media
    staged,         \* pending collection: identifier -> fragments
    stamp,          \* its attribute: first trusted local receipt time
    published,      \* inbox collection: identifier -> fragments
    outbox,         \* outbox collection: identifier -> body
    seen,           \* mailbox files with the READ attribute
    rotten,         \* files whose contents no longer pass their checksum
    nextId,         \* the durable identifier counter
    \* RAM
    ready,          \* s_status.ready
    pendIdx,        \* s_pending, as the set of its identifiers
    blocked,        \* those marked INDEX_PUBLICATION_BLOCKED
    inIdx, outIdx,  \* s_index, as sets of identifiers
    queue,          \* s_receive from s_head, s_queued entries
    req,            \* s_requests
    ioFailures,     \* s_io_failures
    ioDeferred,     \* s_io_deferred
    receiptNext, receiptActive, receiptCommitted,
    \* History, read by properties only
    owed,           \* bodies accepted and not deliberately discarded since
    receiptFrag,    \* the fragment of the last tracked receipt
    erased,         \* <<box, identifier>> whose deletion was reported OK
    stray,          \* fragments staged under a published message's identifier
    arrivals, requests, faults, cuts

media == <<staged, stamp, published, outbox, seen, rotten, nextId>>
index == <<ready, pendIdx, blocked, inIdx, outIdx>>
retry == <<ioFailures, ioDeferred>>
receipts == <<receiptNext, receiptActive, receiptCommitted, receiptFrag>>
bounds == <<arrivals, requests, faults, cuts>>
vars == <<media, index, queue, req, retry, receipts, owed, erased, stray,
          bounds>>

Item ==
    [out : BOOLEAN, body : Frag \union Copy, id : 0 .. MaxId,
     receipt : Nat, deferred : BOOLEAN, tried : BOOLEAN]

Request ==
    [st : {"free", "wait", "done"}, box : Box, id : 0 .. MaxId,
     attempted : BOOLEAN, outcome : {"OK", "ERROR", "FULL"}]

Free ==
    [st |-> "free", box |-> "inbox", id |-> 0, attempted |-> FALSE,
     outcome |-> "OK"]

TypeOK ==
    /\ staged \in [Id -> File]
    /\ stamp \in [Id -> Wall]
    /\ published \in [Id -> File]
    /\ outbox \in [Id -> Copy \union {Draft, NoBody}]
    /\ seen \subseteq Box \X Id
    /\ rotten \subseteq {"pending", "inbox", "outbox"} \X Id
    /\ nextId \in 1 .. MaxId + 1
    /\ ready \in BOOLEAN
    /\ pendIdx \subseteq Id
    /\ blocked \subseteq Id
    /\ inIdx \subseteq Id
    /\ outIdx \subseteq Id
    /\ queue \in Seq(Item)
    /\ Len(queue) <= QueueLimit
    /\ req \in [Ops -> Request]
    /\ ioFailures \in 0 .. IoRetryLimit
    /\ ioDeferred \in BOOLEAN
    /\ receiptNext \in Nat
    /\ receiptActive \in Nat
    /\ receiptCommitted \in BOOLEAN
    /\ owed \subseteq Frag \union Copy
    /\ receiptFrag \subseteq Frag
    /\ erased \subseteq Box \X Id
    /\ stray \subseteq Frag
    /\ arrivals \in Nat
    /\ requests \in Nat
    /\ faults \in Nat
    /\ cuts \in Nat

-----------------------------------------------------------------------------
(* Storage calls.  "lost" and "busy" fail before the commit, "late" and    *)
(* "busyLate" after it.  Only writes report FULL: removals and attribute   *)
(* updates draw on the recovery reserve.                                   *)

Hit(o) == o \in {"ok", "late", "busyLate"}
Small == Outcomes \ {"full"}

Code(o) ==
    CASE o = "ok"   -> "OK"
      [] o \in {"busy", "busyLate"} -> "BUSY"
      [] o = "full" -> "FULL"
      [] OTHER      -> "ERROR"

(* The outcomes of two calls in a row; the second happens only after the   *)
(* first succeeded.                                                        *)
Pairs == {p \in Outcomes \X Outcomes : p[1] = "ok" \/ p[2] = "ok"}
SmallPairs == Pairs \cap (Small \X Small)

Worst(p) == IF p[1] = "ok" THEN p[2] ELSE p[1]

Second(p) == p[1] = "ok" /\ Hit(p[2])

Spend(o) ==
    /\ o # "ok" => faults < MaxFaults
    /\ faults' = IF o = "ok" THEN faults ELSE faults + 1

-----------------------------------------------------------------------------
(* The RAM indexes.  A tick rebuilds them from the media when not ready.   *)

ScanPending == {i \in Id : staged[i] # NoFile /\ <<"pending", i>> \notin rotten}
ScanInbox ==
    {i \in Id : Complete(published[i]) /\ <<"inbox", i>> \notin rotten}
ScanOutbox == {i \in Id : outbox[i] # NoBody /\ <<"outbox", i>> \notin rotten}

Fits ==
    /\ Cardinality(ScanInbox) <= MailboxLimit
    /\ Cardinality(ScanOutbox) <= MailboxLimit
    /\ Cardinality(ScanPending) <= PendingLimit

(* Fault for Pend: a reload forgets the staging collection.                *)
PendForgotten == IF ready THEN pendIdx ELSE {}

Pend == IF ready THEN pendIdx ELSE ScanPending
Blk == IF ready THEN blocked ELSE {}
In == IF ready THEN inIdx ELSE ScanInbox
Out == IF ready THEN outIdx ELSE ScanOutbox

Full(rows, limit) == Cardinality(rows) = limit

BoxIdx(box) == IF box = "inbox" THEN In ELSE Out

(* A failed call may have committed before the error was reported.         *)
Certain(rc) == rc = "OK"

(* The end of a tick.  After a failure the index is not ready and is read  *)
(* by nothing before reload replaces it: it is represented as empty.       *)
Settle(rc, pend, blk, in, out) ==
    /\ ready' = Certain(rc)
    /\ pendIdx' = IF Certain(rc) THEN pend ELSE {}
    /\ blocked' = IF Certain(rc) THEN blk ELSE {}
    /\ inIdx' = IF Certain(rc) THEN in ELSE {}
    /\ outIdx' = IF Certain(rc) THEN out ELSE {}
    /\ ioFailures' =
         CASE rc \in {"OK", "FULL"} -> 0
           [] rc = "BUSY"           -> ioFailures
           [] OTHER -> IF ioFailures < IoRetryLimit THEN ioFailures + 1
                       ELSE ioFailures
    /\ ioDeferred' = (rc = "ERROR" /\ ioFailures + 1 >= IoRetryLimit)

(* failure(), when the tick ends in one.                                   *)
Fail(rc) == Settle(rc, {}, {}, {}, {})

-----------------------------------------------------------------------------
(* Calls of the message and modem services, between ticks.                 *)

(* What survives a power cut.                                              *)
OnMedia ==
    (UNION {staged[i] : i \in Id}) \union (UNION {published[i] : i \in Id})
        \union ({outbox[i] : i \in Id} \ {NoBody})

Arrival(f, receipt) ==
    [out |-> FALSE, body |-> f, id |-> 0, receipt |-> receipt,
     deferred |-> FALSE, tried |-> FALSE]

Room == Len(queue) < QueueLimit

(* A single control message is filtered and an arrival at a full queue is  *)
(* refused; both are only counted.                                         *)
Receive(f) ==
    /\ arrivals < MaxArrivals
    /\ ~ Control({f})
    /\ Room
    /\ arrivals' = arrivals + 1
    /\ queue' = Append(queue, Arrival(f, 0))
    /\ owed' = owed \union {f}
    /\ ioDeferred' = FALSE
    /\ UNCHANGED <<media, index, req, ioFailures, receipts, erased, stray,
                   requests, faults, cuts>>

(* A filtered control message needs no write: its receipt is complete.     *)
ReceiveTracked(f) ==
    /\ arrivals < MaxArrivals
    /\ receiptNext < MaxReceipts
    /\ receiptActive = 0
    /\ Control({f}) \/ Room
    /\ arrivals' = arrivals + 1
    /\ receiptNext' = receiptNext + 1
    /\ receiptActive' = receiptNext + 1
    /\ receiptCommitted' = Control({f})
    /\ receiptFrag' = IF Control({f}) THEN {} ELSE {f}
    /\ IF Control({f})
       THEN UNCHANGED <<queue, owed, ioDeferred>>
       ELSE /\ queue' = Append(queue, Arrival(f, receiptNext + 1))
            /\ owed' = owed \union {f}
            /\ ioDeferred' = FALSE
    /\ UNCHANGED <<media, index, req, ioFailures, erased, stray, requests,
                   faults, cuts>>

ReceiptForget ==
    /\ receiptActive # 0
    /\ receiptActive' = 0
    /\ receiptCommitted' = FALSE
    /\ receiptFrag' = {}
    /\ UNCHANGED <<media, index, queue, req, retry, receiptNext, owed, erased,
                   stray, bounds>>

Sent(c) ==
    /\ arrivals < MaxArrivals
    /\ c \notin owed \union OnMedia
    /\ Room
    /\ arrivals' = arrivals + 1
    /\ queue' = Append(queue, [out |-> TRUE, body |-> c, id |-> 0,
                               receipt |-> 0, deferred |-> FALSE,
                               tried |-> FALSE])
    /\ owed' = owed \union {c}
    /\ ioDeferred' = FALSE
    /\ UNCHANGED <<media, index, req, ioFailures, receipts, erased, stray,
                   requests, faults, cuts>>

(* One outstanding request of each kind, its unread result included.       *)
Ask(k, box, i) ==
    /\ requests < MaxRequests
    /\ req[k].st = "free"
    /\ k \in {"READ", "DELETE"} => i # 0
    /\ k \in {"LIST", "SAVE"} => i = 0
    /\ k = "SAVE" => box = "outbox"
    /\ req' = [req EXCEPT ![k] = [Free EXCEPT !.st = "wait", !.box = box,
                                              !.id = i]]
    /\ requests' = requests + 1
    /\ UNCHANGED <<media, index, queue, retry, receipts, owed, erased, stray,
                   arrivals, faults, cuts>>

PopResult(k) ==
    /\ req[k].st = "done"
    /\ req' = [req EXCEPT ![k] = Free]
    /\ UNCHANGED <<media, index, queue, retry, receipts, owed, erased, stray,
                   bounds>>


(* Bodies discarded on purpose.  One that also waits in the queue stays owed.*)
Discard(bodies) ==
    /\ owed' = owed \ (bodies \ {queue[n].body : n \in 1 .. Len(queue)})
    /\ receiptFrag' = IF receiptCommitted THEN receiptFrag \ bodies
                      ELSE receiptFrag

-----------------------------------------------------------------------------
(* message_service_tick.  Each action below is one path through it: reload *)
(* when needed, then at most one request, one cleanup, one publication or  *)
(* one queue entry.                                                        *)

Usable == ready \/ Fits

Waiting == {k \in Ops : req[k].st = "wait"}

Rank == [LIST |-> 1, READ |-> 2, SAVE |-> 3, DELETE |-> 4]

Turn(k) ==
    /\ k \in Waiting
    /\ \A j \in Waiting : Rank[k] <= Rank[j]

(* Fault for Answered: any failure is tried again.                         *)
AnsweredWhenDone(k, rc, id, attempted) ==
    [req EXCEPT ![k] =
        IF rc # "OK" THEN [@ EXCEPT !.id = id, !.attempted = attempted]
        ELSE [@ EXCEPT !.st = "done", !.id = id]]

(* BUSY keeps the request, with what it has already done.                  *)
Answered(k, rc, id, attempted) ==
    [req EXCEPT ![k] =
        IF rc = "BUSY" THEN [@ EXCEPT !.id = id, !.attempted = attempted]
        ELSE [@ EXCEPT !.st = "done", !.id = id, !.attempted = attempted,
                       !.outcome = rc]]

TickReloadFailed(o) ==
    /\ ~ ready
    /\ o \in {"lost", "busy", "full"}
    /\ o = "full" <=> ~ Fits
    /\ Spend(IF Fits THEN o ELSE "ok")
    /\ Fail(Code(o))
    /\ req' = IF \E k \in Ops : Turn(k)
              THEN LET k == CHOOSE k \in Ops : Turn(k)
                   IN Answered(k, Code(o), req[k].id, req[k].attempted)
              ELSE req
    /\ UNCHANGED <<media, queue, receipts, owed, erased, stray, arrivals,
                   requests, cuts>>

TickList(o) ==
    /\ Usable
    /\ Turn("LIST")
    /\ Spend(o)
    /\ LET r  == req["LIST"]
           rc == IF \E i \in BoxIdx(r.box) : <<r.box, i>> \in rotten
                 THEN "ERROR" ELSE Code(o)
       IN /\ req' = Answered("LIST", rc, 0, FALSE)
          /\ Settle(rc, Pend, Blk, In, Out)
    /\ UNCHANGED <<media, queue, receipts, owed, erased, stray, arrivals,
                   requests, cuts>>

TickRead(o) ==
    /\ Usable
    /\ Turn("READ")
    /\ Spend(o)
    /\ LET r == req["READ"]
           found == /\ r.id \in BoxIdx(r.box)
                    /\ <<r.box, r.id>> \notin rotten
           rc == IF found THEN Code(o) ELSE "ERROR"
       IN /\ req' = Answered("READ", rc, r.id, FALSE)
          /\ seen' = IF found /\ Hit(o) THEN seen \union {<<r.box, r.id>>}
                     ELSE seen
          /\ Settle(rc, Pend, Blk, In, Out)
    /\ UNCHANGED <<staged, stamp, published, outbox, rotten, nextId, queue,
                   receipts, owed, erased, stray, arrivals, requests, cuts>>

(* storage_object_allocate: the counter is durable before it is used, and  *)
(* a failed reservation yields no identifier even if it was committed.     *)
Reserve(id, o) == nextId' = IF id = 0 /\ Hit(o) THEN nextId + 1 ELSE nextId

Reserved(id, o) ==
    IF id # 0 THEN id ELSE IF o = "ok" THEN nextId ELSE 0

Exhausted(id) == id = 0 /\ nextId > MaxId

(* A file written anew is whole again.                                     *)
Mended(c, id, p) == IF Second(p) THEN rotten \ {<<c, id>>} ELSE rotten

TickSave(p) ==
    /\ Usable
    /\ Turn("SAVE")
    /\ LET r    == req["SAVE"]
           full == \/ r.id \notin Out /\ Full(Out, MailboxLimit)
                   \/ Exhausted(r.id)
           id   == Reserved(r.id, p[1])
           rc   == IF full THEN "FULL" ELSE Code(Worst(p))
       IN /\ full => p = <<"ok", "ok">>
          /\ r.id # 0 => p[1] = "ok"
          /\ Spend(Worst(p))
          /\ req' = IF full THEN Answered("SAVE", rc, r.id, r.attempted)
                    ELSE Answered("SAVE", rc, id, p[1] = "ok")
          /\ IF full THEN UNCHANGED <<nextId, outbox>>
             ELSE /\ Reserve(r.id, p[1])
                  /\ outbox' = IF Second(p)
                               THEN [outbox EXCEPT ![id] = Draft] ELSE outbox
          /\ rotten' = IF full THEN rotten ELSE Mended("outbox", id, p)
          /\ Settle(rc, Pend, Blk, In, Out \union {id})
    /\ UNCHANGED <<staged, stamp, published, seen, queue, receipts, owed,
                   erased, stray, arrivals, requests, cuts>>

(* An entry that has been given the identifier waits to be tried again.    *)
Claimed(i) == \E n \in 1 .. Len(queue) : queue[n].id = i

(* What is left of the media when a staging or a mailbox file is removed.  *)
Unstaged(i) == [staged EXCEPT ![i] = NoFile]
Unstamped(i) == [stamp EXCEPT ![i] = 0]

(* Fault for Twin: deletion overlooks the staging copy.                    *)
TwinOverlooked(id) == FALSE

(* A staging copy of a published message: it goes before the message does. *)
Twin(id) == id \in Pend

TickDelete(p) ==
    /\ Usable
    /\ Turn("DELETE")
    /\ LET r       == req["DELETE"]
           known   == r.id \in BoxIdx(r.box) \/ r.attempted
           twin    == Twin(r.id)
           unstage == known /\ twin /\ Hit(p[1])
           remove  == known /\ Second(p)
           rc      == IF known THEN Code(Worst(p)) ELSE "ERROR"
       IN /\ ~ known => p = <<"ok", "ok">>
          /\ ~ twin => p[1] = "ok"
          /\ Spend(Worst(p))
          /\ req' = Answered("DELETE", rc, r.id,
                             r.attempted \/ (known /\ p[1] = "ok"))
          /\ staged' = IF unstage THEN Unstaged(r.id) ELSE staged
          /\ stamp' = IF unstage THEN Unstamped(r.id) ELSE stamp
          /\ published' = IF remove /\ r.box = "inbox"
                          THEN [published EXCEPT ![r.id] = NoFile]
                          ELSE published
          /\ outbox' = IF remove /\ r.box = "outbox"
                       THEN [outbox EXCEPT ![r.id] = NoBody] ELSE outbox
          /\ seen' = IF remove THEN seen \ {<<r.box, r.id>>} ELSE seen
          /\ rotten' = rotten \ ((IF unstage THEN {<<"pending", r.id>>} ELSE {})
                                 \union (IF remove THEN {<<r.box, r.id>>} ELSE {}))
          /\ Discard(IF ~ remove THEN {}
                     ELSE IF r.box = "inbox" THEN published[r.id]
                     ELSE {outbox[r.id]})
          /\ erased' = IF rc = "OK" /\ ~ Claimed(r.id)
                       THEN erased \union {<<r.box, r.id>>} ELSE erased
          /\ queue' = IF rc = "OK"
                      THEN [n \in 1 .. Len(queue) |->
                               [queue[n] EXCEPT !.deferred = FALSE]]
                      ELSE queue
          /\ Settle(rc, Pend \ {r.id}, Blk \ {r.id},
                    IF r.box = "inbox" THEN In \ {r.id} ELSE In,
                    IF r.box = "outbox" THEN Out \ {r.id} ELSE Out)
    /\ UNCHANGED <<nextId, receiptNext, receiptActive, receiptCommitted, stray,
                   arrivals, requests, cuts>>

(* The clock started after the file, or was moved back.                    *)
Unaged(i, w) == stamp[i] = 0 \/ w < stamp[i]

(* cleanup_incomplete: one incomplete file gets its receipt time, has it   *)
(* moved back after the clock was, or has expired.  A clock that is not    *)
(* trusted (w = 0) skips the step.                                         *)
TickCleanup(w, i, o) ==
    /\ Usable
    /\ Waiting = {}
    /\ w # 0
    /\ i \in Pend \ Blk
    /\ ~ Complete(staged[i])
    /\ Spend(o)
    /\ \/ /\ Unaged(i, w)
          /\ stamp' = IF Hit(o) THEN [stamp EXCEPT ![i] = w] ELSE stamp
          /\ Settle(Code(o), Pend, Blk, In, Out)
          /\ UNCHANGED <<staged, rotten, owed, receiptFrag>>
       \/ /\ ~ Unaged(i, w)
          /\ w - stamp[i] >= TTL
          /\ staged' = IF Hit(o) THEN Unstaged(i) ELSE staged
          /\ stamp' = IF Hit(o) THEN Unstamped(i) ELSE stamp
          /\ rotten' = IF Hit(o) THEN rotten \ {<<"pending", i>>} ELSE rotten
          /\ Discard(IF Hit(o) THEN staged[i] ELSE {})
          /\ Settle(Code(o), Pend \ {i}, Blk, In, Out)
    /\ UNCHANGED <<published, outbox, seen, nextId, queue, req, receiptNext,
                   receiptActive, receiptCommitted, erased, stray, arrivals,
                   requests, cuts>>

-----------------------------------------------------------------------------
(* Publication.                                                            *)

Eligible == {i \in Pend \ Blk : Complete(staged[i])}

(* Fault for Conflict: the checksum of the destination is not looked at.   *)
ConflictWhenReadable(i) ==
    /\ published[i] # NoFile
    /\ <<"pending", i>> \notin rotten
    /\ published[i] # staged[i]

(* block_publication: a damaged destination, or one with another body.     *)
Conflict(i) ==
    /\ published[i] # NoFile
    /\ <<"pending", i>> \notin rotten
    /\ <<"inbox", i>> \in rotten \/ published[i] # staged[i]

Skipped == {i \in Eligible : Conflict(i)}

NeedsRoom(i) ==
    /\ i \notin In
    /\ published[i] # NoFile \/ ~ Control(staged[i])

(* The entry the publication loop ends with, after passing over a set of   *)
(* entries it finds in conflict.                                           *)
TickPublish(i, passed, p) ==
    /\ Usable
    /\ Waiting = {}
    /\ i \in Eligible \ Skipped
    /\ passed \subseteq Skipped
    /\ NeedsRoom(i) => ~ Full(In, MailboxLimit) \/ <<"pending", i>> \in rotten
    /\ LET file  == staged[i]
           forced == \/ <<"pending", i>> \in rotten
                     \/ i \in In /\ published[i] = NoFile
           filter == published[i] = NoFile /\ Control(file)
           fresh  == published[i] = NoFile /\ ~ Control(file)
           write  == ~ forced /\ fresh /\ Hit(p[1])
           remove == ~ forced /\ Second(p)
           rc     == IF forced THEN "ERROR" ELSE Code(Worst(p))
       IN /\ forced => p = <<"ok", "ok">>
          /\ ~ fresh => p[1] = "ok"
          /\ Spend(Worst(p))
          /\ published' = IF write THEN [published EXCEPT ![i] = file]
                          ELSE published
          /\ staged' = IF remove THEN Unstaged(i) ELSE staged
          /\ stamp' = IF remove THEN Unstamped(i) ELSE stamp
          /\ Discard(IF remove /\ filter THEN file ELSE {})
          /\ Settle(rc, Pend \ {i}, Blk \union passed,
                    IF filter THEN In ELSE In \union {i}, Out)
    /\ UNCHANGED <<outbox, seen, rotten, nextId, queue, req, receiptNext,
                   receiptActive, receiptCommitted, erased, stray, arrivals,
                   requests, cuts>>

-----------------------------------------------------------------------------
(* The receive queue, once nothing is left to publish in this tick: every  *)
(* eligible entry is in conflict or waits for room, because the mailbox is *)
(* at its limit or because its write is refused for want of space.         *)

Refused == Eligible # Skipped /\ ~ Full(In, MailboxLimit)

QueueTurn(o) ==
    /\ Usable
    /\ Waiting = {}
    /\ \A i \in Eligible \ Skipped : NeedsRoom(i)
    /\ Eligible # Skipped =>
           \E i \in Eligible \ Skipped : <<"pending", i>> \notin rotten
    /\ Refused => "full" \in Outcomes
    /\ LET cost == (IF Refused THEN 1 ELSE 0) + (IF o = "ok" THEN 0 ELSE 1)
       IN /\ faults + cost <= MaxFaults
          /\ faults' = faults + cost

(* The entries that can be served: deferred ones before it are passed over *)
(* and go to the back (rotate_receive).                                    *)
Servable == {k \in 1 .. Len(queue) : \A j \in 1 .. k - 1 : queue[j].deferred}

From(k) == SubSeq(queue, k, Len(queue)) \o SubSeq(queue, 1, k - 1)

(* Fault for Requeued: every attempt allocates an identifier of its own.   *)
RequeuedAnew(r, id, rc) ==
    [r EXCEPT !.tried = TRUE, !.deferred = (rc = "FULL")]

(* A failed entry keeps the identifier it was given.                       *)
Requeued(r, id, rc) ==
    [r EXCEPT !.id = id, !.tried = TRUE, !.deferred = (rc = "FULL")]

(* Fault for Acknowledged: a receipt given up still counts.                *)
AcknowledgedAny(r) == r.receipt # 0

Acknowledged(r) == r.receipt # 0 /\ r.receipt = receiptActive

(* A failed merge leaves its entry the identifier of the file it was to    *)
(* join, and the entry may be staged under it when that file is gone.      *)
Strays(written, i, body) ==
    stray' = IF written /\ published[i] # NoFile THEN stray \union {body}
             ELSE stray

(* The head of the rotated queue q leaves on success, else goes to the     *)
(* back, deferred when the storage was full.                               *)
Served(q, id, rc) ==
    /\ queue' = IF rc = "OK" THEN Tail(q)
                ELSE Append(Tail(q), Requeued(Head(q), id, rc))
    /\ receiptCommitted' =
         (receiptCommitted \/ (rc = "OK" /\ Acknowledged(Head(q))))
    /\ UNCHANGED <<req, receiptNext, receiptActive, receiptFrag, owed, erased,
                   seen, published, arrivals, requests, cuts>>

TickIdle ==
    /\ QueueTurn("ok")
    /\ \A n \in 1 .. Len(queue) : queue[n].deferred
    /\ Settle("OK", Pend, Blk \union Skipped, In, Out)
    /\ UNCHANGED <<media, queue, req, receipts, owed, erased, stray, arrivals,
                   requests, cuts>>

Scanned == Pend \ (Blk \union Skipped)

(* A damaged file is no longer readable, and can not be compared with.     *)
Related(f) == {i \in Scanned : /\ <<"pending", i>> \notin rotten
                               /\ Merge(staged[i], f) # "UNRELATED"}

Unreadable(c, S) == \E i \in S : <<c, i>> \in rotten

(* Fault for Duplicated: a part is known by its number, not its bytes.     *)
DuplicatedByNumber(f) ==
    \E i \in Scanned : \E g \in staged[i] :
        GroupOf[g] = GroupOf[f] /\ SeqOf[g] = SeqOf[f]

Duplicated(f) ==
    \/ \E i \in Scanned : <<"pending", i>> \notin rotten /\ f \in staged[i]
    \/ /\ ~ Unreadable("pending", Scanned)
       /\ \E i \in In : <<"inbox", i>> \notin rotten /\ f \in published[i]

(* Nothing on the media is related to f, and all of it could be read.      *)
Unrelated(f) ==
    /\ Related(f) = {}
    /\ \A i \in In : f \notin published[i]
    /\ ~ Unreadable("pending", Scanned)
    /\ ~ Unreadable("inbox", In)

(* receive_one finds its work done by an earlier attempt or delivery.      *)
TickServeKnown(k) ==
    /\ QueueTurn("ok")
    /\ LET q == From(k)
           r == Head(q)
       IN /\ IF r.out THEN r.id \in Out ELSE Duplicated(r.body)
          /\ Served(q, r.id, "OK")
    /\ Settle("OK", Pend, Blk \union Skipped, In, Out)
    /\ UNCHANGED <<staged, stamp, outbox, rotten, nextId, stray>>

(* It cannot read one of the messages it compares an arrival with.         *)
TickServeUnread(k, o) ==
    /\ o \in {"ok", "lost", "busy"}
    /\ QueueTurn(o)
    /\ LET q == From(k)
           r == Head(q)
           rc == IF o = "ok" THEN "ERROR" ELSE Code(o)
       IN /\ ~ r.out
          /\ Scanned \union In # {}
          /\ o = "ok" => \/ Unreadable("pending", Scanned)
                         \/ Unreadable("inbox", In)
          /\ Served(q, r.id, rc)
          /\ Fail(rc)
    /\ UNCHANGED <<staged, stamp, outbox, rotten, nextId, stray>>

(* One of the limits is reached.                                           *)
TickServeFull(k) ==
    /\ QueueTurn("ok")
    /\ LET q == From(k)
           r == Head(q)
       IN /\ IF r.out
             THEN /\ r.id \notin Out
                  /\ Full(Out, MailboxLimit) \/ Exhausted(r.id)
             ELSE \/ \E i \in Related(r.body) : Merge(staged[i], r.body) = "FULL"
                  \/ /\ Unrelated(r.body)
                     /\ Full(Pend, PendingLimit) \/ Exhausted(r.id)
          /\ Served(q, r.id, "FULL")
    /\ Fail("FULL")
    /\ UNCHANGED <<staged, stamp, outbox, rotten, nextId, stray>>

(* A fragment joins a staging file; the entry takes its identifier first.  *)
TickServeMerge(k, i, o) ==
    /\ QueueTurn(o)
    /\ LET q == From(k)
           r == Head(q)
       IN /\ ~ r.out
          /\ i \in Related(r.body)
          /\ Merge(staged[i], r.body) = "ADDED"
          /\ staged' = IF Hit(o)
                       THEN [staged EXCEPT ![i] = @ \union {r.body}]
                       ELSE staged
          /\ Strays(Hit(o), i, r.body)
          /\ Served(q, i, Code(o))
          /\ Settle(Code(o), Pend, Blk \union Skipped, In, Out)
    /\ UNCHANGED <<stamp, outbox, rotten, nextId>>

(* The first fragment of a message gets a staging file of its own.         *)
TickServeStage(k, p) ==
    /\ QueueTurn(Worst(p))
    /\ LET q  == From(k)
           r  == Head(q)
           id == Reserved(r.id, p[1])
           rc == Code(Worst(p))
       IN /\ ~ r.out
          /\ Unrelated(r.body)
          /\ ~ Full(Pend, PendingLimit)
          /\ ~ Exhausted(r.id)
          /\ r.id # 0 => p[1] = "ok"
          /\ Reserve(r.id, p[1])
          /\ staged' = IF Second(p) THEN [staged EXCEPT ![id] = {r.body}]
                       ELSE staged
          /\ rotten' = Mended("pending", id, p)
          /\ Strays(Second(p), id, r.body)
          /\ Served(q, id, rc)
          /\ Settle(rc, Pend \union {id}, Blk \union Skipped, In, Out)
    /\ UNCHANGED <<stamp, outbox>>

(* A sent copy becomes an outbox file.                                     *)
TickServeSent(k, p) ==
    /\ QueueTurn(Worst(p))
    /\ LET q  == From(k)
           r  == Head(q)
           id == Reserved(r.id, p[1])
           rc == Code(Worst(p))
       IN /\ r.out
          /\ r.id \notin Out
          /\ ~ Full(Out, MailboxLimit)
          /\ ~ Exhausted(r.id)
          /\ r.id # 0 => p[1] = "ok"
          /\ Reserve(r.id, p[1])
          /\ outbox' = IF Second(p) THEN [outbox EXCEPT ![id] = r.body]
                       ELSE outbox
          /\ rotten' = Mended("outbox", id, p)
          /\ Served(q, id, rc)
          /\ Settle(rc, Pend, Blk \union Skipped, In, Out \union {id})
    /\ UNCHANGED <<staged, stamp, stray>>

-----------------------------------------------------------------------------
(* Power loss and restart (message_service_init), and damage to the media. *)

PowerCut(o) ==
    /\ cuts < MaxCuts
    /\ o \in {"ok", "lost"}
    /\ Spend(o)
    /\ cuts' = cuts + 1
    /\ ready' = (o = "ok" /\ Fits)
    /\ pendIdx' = IF ready' THEN ScanPending ELSE {}
    /\ inIdx' = IF ready' THEN ScanInbox ELSE {}
    /\ outIdx' = IF ready' THEN ScanOutbox ELSE {}
    /\ blocked' = {}
    /\ queue' = <<>>
    /\ req' = [k \in Ops |-> Free]
    /\ ioFailures' = 0
    /\ ioDeferred' = FALSE
    /\ receiptNext' = 0
    /\ receiptActive' = 0
    /\ receiptCommitted' = FALSE
    /\ receiptFrag' = {}
    /\ owed' = owed \intersect OnMedia
    /\ UNCHANGED <<media, erased, stray, arrivals, requests>>

Rot(c, i) ==
    /\ Cardinality(rotten) < MaxRot
    /\ <<c, i>> \notin rotten
    /\ \/ c = "pending" /\ staged[i] # NoFile /\ Discard(staged[i])
       \/ c = "inbox"   /\ published[i] # NoFile /\ Discard(published[i])
       \/ c = "outbox"  /\ outbox[i] # NoBody /\ Discard({outbox[i]})
    /\ rotten' = rotten \union {<<c, i>>}
    /\ UNCHANGED <<staged, stamp, published, outbox, seen, nextId, index,
                   queue, req, retry, receiptNext, receiptActive,
                   receiptCommitted, erased, stray, bounds>>

-----------------------------------------------------------------------------

Init ==
    /\ staged = [i \in Id |-> NoFile]
    /\ stamp = [i \in Id |-> 0]
    /\ published = [i \in Id |-> NoFile]
    /\ outbox = [i \in Id |-> NoBody]
    /\ seen = {}
    /\ rotten = {}
    /\ nextId = 1
    /\ ready = TRUE
    /\ pendIdx = {}
    /\ blocked = {}
    /\ inIdx = {}
    /\ outIdx = {}
    /\ queue = <<>>
    /\ req = [k \in Ops |-> Free]
    /\ ioFailures = 0
    /\ ioDeferred = FALSE
    /\ receiptNext = 0
    /\ receiptActive = 0
    /\ receiptCommitted = FALSE
    /\ owed = {}
    /\ receiptFrag = {}
    /\ erased = {}
    /\ stray = {}
    /\ arrivals = 0
    /\ requests = 0
    /\ faults = 0
    /\ cuts = 0

TickRequest ==
    \/ "LIST" \in Ops /\ \E o \in Small : TickList(o)
    \/ "READ" \in Ops /\ \E o \in Small : TickRead(o)
    \/ "SAVE" \in Ops /\ \E p \in Pairs : TickSave(p)
    \/ "DELETE" \in Ops /\ \E p \in SmallPairs : TickDelete(p)

TickQueue ==
    \/ TickIdle
    \/ \E k \in Servable :
         \/ TickServeKnown(k)
         \/ \E o \in Outcomes : TickServeUnread(k, o)
         \/ TickServeFull(k)
         \/ \E i \in Scanned, o \in Outcomes : TickServeMerge(k, i, o)
         \/ \E p \in Pairs : TickServeStage(k, p)
         \/ \E p \in Pairs : TickServeSent(k, p)

Tick ==
    \/ \E o \in Outcomes : TickReloadFailed(o)
    \/ TickRequest
    \/ \E i \in Pend, w \in Wall, o \in Small : TickCleanup(w, i, o)
    \/ \E i \in Eligible \ Skipped, passed \in SUBSET Skipped, p \in SmallPairs :
           TickPublish(i, passed, p)
    \/ TickQueue

Caller ==
    \/ \E f \in Frag : Receive(f)
    \/ \E f \in Frag : ReceiveTracked(f)
    \/ ReceiptForget
    \/ \E c \in Copy : Sent(c)
    \/ \E k \in Ops, box \in Box, i \in 0 .. nextId - 1 : Ask(k, box, i)
    \/ \E k \in Ops : PopResult(k)

Next ==
    \/ Tick
    \/ Caller
    \/ \E o \in Outcomes : PowerCut(o)
    \/ \E c \in {"pending", "inbox", "outbox"}, i \in Id : Rot(c, i)

Spec == Init /\ [][Next]_vars

(* Core 0 keeps calling message_service_tick.                              *)
FairSpec == Spec /\ WF_vars(Tick)

-----------------------------------------------------------------------------
(* Properties.                                                             *)

(* A body accepted by receive, receive_tracked or sent is never lost to a  *)
(* failing storage call or an unlucky order of ticks: until it is deleted, *)
(* expires or is filtered it is on the media or still in the queue.  One   *)
(* that was staged under a published message's identifier goes with that   *)
(* message when it is deleted.  The variables have their types.            *)
NoLoss ==
    /\ TypeOK
    /\ owed \subseteq OnMedia \union {queue[n].body : n \in 1 .. Len(queue)}
           \union stray

(* A message shown to the user is complete, and no file mixes the parts of *)
(* two messages.                                                           *)
InboxWhole ==
    \A i \in Id :
        /\ published[i] # NoFile => Complete(published[i])
        /\ \A f, g \in staged[i] : GroupOf[f] = GroupOf[g]
        /\ \A f, g \in published[i] : GroupOf[f] = GroupOf[g]

(* While ready, the RAM indexes name every readable file and no other:     *)
(* every path that may have changed the media without knowing gives up     *)
(* ready, so that reload rebuilds them.                                    *)
IndexIsMedia ==
    ready =>
        /\ ScanPending \subseteq pendIdx
        /\ \A i \in pendIdx : staged[i] # NoFile
        /\ ScanInbox \subseteq inIdx
        /\ \A i \in inIdx : published[i] # NoFile
        /\ ScanOutbox \subseteq outIdx
        /\ \A i \in outIdx : outbox[i] # NoBody

(* However often its write is retried, a sent copy becomes one file.       *)
SentOnce ==
    \A i, j \in Id : outbox[i] \in Copy /\ outbox[i] = outbox[j] => i = j

(* A file whose deletion was reported as done does not come back, unless a *)
(* queue entry that had been given its identifier was still to be retried. *)
StaysDeleted ==
    \A i \in Id :
        /\ <<"inbox", i>> \in erased => published[i] = NoFile
        /\ <<"outbox", i>> \in erased => outbox[i] = NoBody

(* What the user has not deleted is left as it is: a damaged inbox file    *)
(* and the staging file of its message both stay, and neither extra parts  *)
(* nor duplicates renew the receipt time of a file.                        *)
FilesKept ==
    [][\A i \in Id :
           /\ <<"inbox", i>> \in rotten /\ "DELETE" \notin Waiting =>
                  /\ published'[i] = published[i]
                  /\ Complete(staged[i]) => staged'[i] # NoFile
           /\ staged[i] # NoFile /\ staged'[i] # NoFile /\ stamp'[i] > stamp[i] =>
                  stamp[i] = 0 /\ staged'[i] = staged[i]]_vars

(* Every request gets its answer once the storage stops failing.           *)
RequestsAnswered ==
    \A k \in Ops : req[k].st = "wait" ~> req[k].st # "wait"

(* A staged complete message reaches the inbox, unless the mailbox stays   *)
(* full.                                                                   *)
CompleteIsPublished ==
    \A i \in Id :
        Complete(staged[i]) ~> \/ staged[i] = NoFile
                               \/ Conflict(i)
                               \/ Cardinality(ScanInbox) = MailboxLimit
                               \/ <<"pending", i>> \in rotten

(* The store keeps the promise of DurableReceipt to the modem service,     *)
(* whatever the media do; a part in stray had been stored.                 *)
Receipt == INSTANCE DurableReceipt WITH
    receipt <- IF receiptActive = 0 THEN "none"
               ELSE IF receiptCommitted THEN "committed" ELSE "waiting",
    subject <- receiptFrag,
    stored  <- (OnMedia \union stray) \ (Copy \union {Draft})

KeepsReceiptPromise == Receipt!Spec

=============================================================================
