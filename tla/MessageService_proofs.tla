------------------------ MODULE MessageService_proofs ------------------------
(***************************************************************************)
(* Theorems about the message store, for every value of the constants:     *)
(* its safety invariants, FilesKept, and that it implements DurableReceipt.*)
(*                                                                         *)
(* They follow from one inductive invariant, IInv.  Its parts depend on    *)
(* each other: that no body is lost needs to know what a staging file that *)
(* is written anew may hold, which needs the groups of the arrivals that   *)
(* share an identifier, which needs that identifiers are drawn once.       *)
(* After the lemmas on the queue and the types, each part has its lemmas   *)
(* and ends in a step lemma: TypeStep, NameStep, RowsStep, ShelvedStep,    *)
(* BegunStep, GoneStep, SafeStep.                                          *)
(***************************************************************************)
EXTENDS MessageService, TLAPS

(***************************************************************************)
(* The inductive invariant.                                                *)
(*                                                                         *)
(* Rows: an index in use names every readable file and no file that is     *)
(* gone.  Unlike IndexIsMedia this speaks of what a tick that reloads      *)
(* first will read.                                                        *)
Rows ==
    /\ ScanPending \subseteq Pend
    /\ \A i \in Pend : staged[i] # NoFile
    /\ ScanInbox \subseteq In
    /\ \A i \in In : published[i] # NoFile
    /\ ScanOutbox \subseteq Out
    /\ \A i \in Out : outbox[i] # NoBody
    /\ \A i \in Blk : published[i] # NoFile

Entries == 1 .. Len(queue)
Arrivals == {n \in Entries : ~ queue[n].out}
Copies == {n \in Entries : queue[n].out}

(* An identifier is drawn from the counter before it is used, ...          *)
Drawn ==
    /\ \A i \in Id : i >= nextId => /\ staged[i] = NoFile
                                    /\ published[i] = NoFile
                                    /\ outbox[i] = NoBody
    /\ \A n \in Entries : queue[n].id < nextId
    /\ \A k \in Ops : req[k].id < nextId

(* ... serves received messages or sent ones and drafts, not both, ...     *)
Saving(i) == "SAVE" \in Waiting /\ req["SAVE"].id = i

Apart ==
    \A i \in Id :
        /\ outbox[i] # NoBody \/ Saving(i) =>
               /\ staged[i] = NoFile /\ published[i] = NoFile
               /\ \A n \in Arrivals : queue[n].id # i
        /\ Saving(i) =>
               /\ outbox[i] \in {NoBody, Draft}
               /\ \A n \in Copies : queue[n].id # i
        /\ \A n \in Copies : queue[n].id = i =>
               /\ staged[i] = NoFile /\ published[i] = NoFile
               /\ \A m \in Arrivals : queue[m].id # i

(* ... and stays with one sent copy.                                       *)
CopyOnce ==
    /\ \A n \in Copies :
           /\ queue[n].body \in Copy
           /\ queue[n].receipt = 0
           /\ \A m \in Copies : m # n =>
                  /\ queue[m].body # queue[n].body
                  /\ queue[n].id # 0 => queue[m].id # queue[n].id
           /\ \A i \in Id :
                  /\ queue[n].id = i => outbox[i] \in {NoBody, queue[n].body}
                  /\ outbox[i] = queue[n].body => queue[n].id = i
    /\ SentOnce

(* The parts in a staging file, and the arrivals that have its identifier, *)
(* are of one group; a message of one part is alone.                       *)
OneGroup ==
    /\ \A i \in Id :
           /\ \A f, g \in staged[i] : GroupOf[f] = GroupOf[g]
           /\ \A f, g \in published[i] : GroupOf[f] = GroupOf[g]
    /\ \A n \in Arrivals :
           /\ queue[n].body \in Frag
           /\ \A i \in Id : queue[n].id = i =>
                  /\ \A g \in staged[i] : GroupOf[g] = GroupOf[queue[n].body]
                  /\ PartsOf[GroupOf[queue[n].body]] = 1 =>
                         staged[i] \subseteq {queue[n].body}
                  /\ \A m \in Arrivals : queue[m].id = i =>
                         /\ GroupOf[queue[m].body] = GroupOf[queue[n].body]
                         /\ PartsOf[GroupOf[queue[n].body]] = 1 =>
                                queue[m].body = queue[n].body

(* A published message is complete, and what is staged under its           *)
(* identifier is the rest of its publication or a stray part.              *)
Shelved ==
    \A i \in Id :
        /\ published[i] # NoFile =>
               /\ Complete(published[i])
               /\ staged[i] \subseteq published[i] \union stray
        /\ <<"inbox", i>> \in rotten => published[i] # NoFile

(* A staging file is relied on unless it is damaged and an arrival with    *)
(* its identifier may write it anew.                                       *)
Kept(i) ==
    \/ <<"pending", i>> \notin rotten
    \/ \A n \in Arrivals : queue[n].id # i

Durable(g) ==
    \/ g \in stray
    \/ \E i \in Id : \/ g \in published[i]
                     \/ outbox[i] = g
                     \/ g \in staged[i] /\ Kept(i)

Waits(g) == \E n \in Entries : queue[n].body = g

Safe ==
    /\ \A g \in owed : Durable(g) \/ Waits(g)
    /\ \A n \in Entries : queue[n].body \in owed

(* A deletion that was begun has removed the staging file.                 *)
Begun ==
    "DELETE" \in Waiting =>
        /\ req["DELETE"].id \in Id
        /\ req["DELETE"].attempted => req["DELETE"].id \notin Pend

Gone ==
    \A i \in Id :
        /\ <<"inbox", i>> \in erased =>
               /\ published[i] = NoFile
               /\ staged[i] # NoFile =>
                      <<"pending", i>> \in rotten /\ i \notin Pend
               /\ i < nextId /\ \A n \in Arrivals : queue[n].id # i
        /\ <<"outbox", i>> \in erased =>
               /\ outbox[i] = NoBody /\ ~ Saving(i)
               /\ i < nextId /\ \A n \in Copies : queue[n].id # i

Tracked ==
    /\ receiptActive = 0 => receiptFrag = {} /\ ~ receiptCommitted
    /\ receiptActive <= receiptNext
    /\ \A f, g \in receiptFrag : f = g
    /\ receiptCommitted => \A f \in receiptFrag : Durable(f)
    /\ \A n \in Entries :
           /\ queue[n].receipt <= receiptNext
           /\ /\ receiptActive # 0 /\ ~ receiptCommitted
              /\ queue[n].receipt = receiptActive
              => receiptFrag = {queue[n].body}

IInv ==
    /\ TypeOK /\ Rows /\ Drawn /\ Apart /\ CopyOnce /\ OneGroup
    /\ Shelved /\ Safe /\ Begun /\ Gone /\ Tracked

(***************************************************************************)
(* The queue.  from tells which entry each entry of the new queue was.     *)
From1to1(from) ==
    /\ from \in [Entries' -> Entries]
    /\ \A n, m \in Entries' : from[n] = from[m] => n = m

SameEntry(r, q) ==
    /\ r.out = q.out /\ r.body = q.body
    /\ r.receipt = q.receipt /\ r.id = q.id

(* Entry k was served under the identifier id with the result rc.          *)
Tried(k, id, rc, from) ==
    /\ From1to1(from)
    /\ \A n \in Entries' :
           queue'[n] = IF from[n] = k THEN Requeued(queue[k], id, rc)
                       ELSE queue[from[n]]
    /\ rc = "OK" => \A n \in Entries' : from[n] # k
    /\ \A m \in Entries : m # k \/ rc # "OK" => \E n \in Entries' : from[n] = m

LEMMA Rotated ==
    ASSUME queue \in Seq(Item), NEW k \in 1 .. Len(queue)
    PROVE  /\ From(k) \in Seq(Item)
           /\ Len(From(k)) = Len(queue)
           /\ \A j \in 1 .. Len(queue) :
                  From(k)[j] = queue[IF j + k - 1 <= Len(queue)
                                     THEN j + k - 1
                                     ELSE j + k - 1 - Len(queue)]
           /\ Head(From(k)) = queue[k]
<1> DEFINE L == Len(queue)
           A == SubSeq(queue, k, L)
           B == SubSeq(queue, 1, k - 1)
<1>1. L \in Nat /\ k \in Nat /\ 1 <= k /\ k <= L
    OBVIOUS
<1>2. /\ A \in Seq(Item) /\ Len(A) = L - k + 1
      /\ \A j \in 1 .. L - k + 1 : A[j] = queue[j + k - 1]
    BY <1>1
<1>3. /\ B \in Seq(Item) /\ Len(B) = k - 1
      /\ \A j \in 1 .. k - 1 : B[j] = queue[j]
    BY <1>1
<1>4. From(k) = A \o B
    BY DEF From
<1> HIDE DEF A, B
<1>5. /\ A \o B \in Seq(Item) /\ Len(A \o B) = L
      /\ \A j \in 1 .. L : (A \o B)[j] = IF j <= L - k + 1 THEN A[j]
                                         ELSE B[j - (L - k + 1)]
    BY <1>1, <1>2, <1>3
<1>6. ASSUME NEW j \in 1 .. L
      PROVE  (A \o B)[j] = queue[IF j + k - 1 <= L THEN j + k - 1
                                 ELSE j + k - 1 - L]
  <2>1. CASE j <= L - k + 1
    <3>1. j \in 1 .. L - k + 1 /\ j + k - 1 <= L
        BY <1>1, <2>1
    <3>2. (A \o B)[j] = A[j] /\ A[j] = queue[j + k - 1]
        BY <1>2, <1>5, <2>1, <3>1
    <3> QED
        BY <3>1, <3>2
  <2>2. CASE ~ (j <= L - k + 1)
    <3> DEFINE m == j - (L - k + 1)
    <3>1. m \in 1 .. k - 1 /\ m = j + k - 1 - L /\ ~ (j + k - 1 <= L)
        BY <1>1, <2>2
    <3>2. (A \o B)[j] = B[m]
        BY <1>5, <2>2
    <3> HIDE DEF m
    <3>3. B[m] = queue[m]
        BY <1>3, <3>1
    <3> QED
        BY <3>1, <3>2, <3>3
  <2> QED
      BY <2>1, <2>2
<1>7. Head(A \o B) = (A \o B)[1]
    BY <1>1, <1>5
<1>8. (A \o B)[1] = queue[k]
  <2>1. 1 \in 1 .. L /\ 1 + k - 1 = k
      BY <1>1
  <2> QED
      BY <1>1, <1>6, <2>1
<1> QED
    BY <1>4, <1>5, <1>6, <1>7, <1>8


LEMMA ServedEntries ==
    ASSUME queue \in Seq(Item), NEW k \in 1 .. Len(queue),
           NEW id \in 0 .. MaxId, NEW rc, Served(From(k), id, rc)
    PROVE  /\ queue' \in Seq(Item) /\ Len(queue') <= Len(queue)
           /\ \E from \in [Entries' -> Entries] : Tried(k, id, rc, from)
           /\ \A f : rc # "OK" \/ f # queue[k].body => (Waits(f) => Waits(f)')
           /\ \A f : Waits(f)' => Waits(f)
<1> DEFINE L == Len(queue)
           q == From(k)
           r == Requeued(queue[k], id, rc)
           at(n) == IF n + k <= L THEN n + k ELSE n + k - L
           from == [n \in Entries' |-> at(n)]
<1>1. L \in Nat /\ k \in Nat /\ 1 <= k /\ k <= L
    OBVIOUS
<1>2. /\ q \in Seq(Item) /\ Len(q) = L /\ Head(q) = queue[k]
      /\ \A j \in 1 .. L : q[j] = queue[IF j + k - 1 <= L THEN j + k - 1
                                        ELSE j + k - 1 - L]
    BY Rotated
<1> HIDE DEF q
<1>3. /\ Tail(q) \in Seq(Item) /\ Len(Tail(q)) = L - 1
      /\ \A n \in 1 .. L - 1 : Tail(q)[n] = q[n + 1]
    BY <1>1, <1>2
<1>4. ASSUME NEW n \in 1 .. L - 1
      PROVE  Tail(q)[n] = queue[at(n)]
  <2>1. n + 1 \in 1 .. L /\ n + 1 + k - 1 = n + k
      BY <1>1
  <2>2. Tail(q)[n] = q[n + 1]
      BY <1>3
  <2>3. q[n + 1] = queue[IF n + 1 + k - 1 <= L THEN n + 1 + k - 1
                         ELSE n + 1 + k - 1 - L]
      BY <1>2, <2>1
  <2>4. (IF n + 1 + k - 1 <= L THEN n + 1 + k - 1 ELSE n + 1 + k - 1 - L)
            = at(n)
      BY <1>1, <2>1
  <2> QED
      BY <2>2, <2>3, <2>4
<1>5. r \in Item
  <2>1. queue[k] \in Item
      OBVIOUS
  <2> QED
      BY <2>1 DEF Requeued, Item
<1>6. queue' = IF rc = "OK" THEN Tail(q) ELSE Append(Tail(q), r)
    BY <1>2 DEF Served, q
<1> HIDE DEF r
<1>7. /\ queue' \in Seq(Item)
      /\ Len(queue') = IF rc = "OK" THEN L - 1 ELSE L
      /\ \A n \in 1 .. L - 1 : queue'[n] = queue[at(n)]
      /\ rc # "OK" => queue'[L] = r
    BY <1>1, <1>3, <1>4, <1>5, <1>6
<1>8. Entries' = 1 .. (IF rc = "OK" THEN L - 1 ELSE L)
    BY <1>7 DEF Entries
<1>9. \A n \in 1 .. L : /\ at(n) \in 1 .. L
                        /\ at(n) = k <=> n = L
    BY <1>1
<1>10. \A n, m \in 1 .. L : at(n) = at(m) => n = m
    BY <1>1
<1>11. \A m \in 1 .. L : /\ m > k => m - k \in 1 .. L - 1 /\ at(m - k) = m
                         /\ m < k => m + L - k \in 1 .. L - 1 /\ at(m + L - k) = m
    BY <1>1
<1>12. ASSUME NEW m \in 1 .. L, m # k
       PROVE  \E n \in 1 .. L - 1 : at(n) = m
  <2>1. CASE m > k
      BY <1>11, <2>1
  <2>2. CASE m < k
      BY <1>11, <2>2
  <2> QED
      BY <1>1, <1>12, <2>1, <2>2
<1>13. \A n \in Entries' : n \in 1 .. L
    BY <1>1, <1>8
<1> HIDE DEF at
<1>14. From1to1(from)
    BY <1>9, <1>10, <1>13 DEF From1to1, Entries
<1>15. \A n \in Entries' : queue'[n] = IF from[n] = k THEN r ELSE queue[from[n]]
    BY <1>1, <1>7, <1>8, <1>9, <1>13
<1>16. rc = "OK" => \A n \in Entries' : from[n] # k
    BY <1>1, <1>8, <1>9
<1>17. ASSUME NEW m \in Entries, m # k \/ rc # "OK"
       PROVE  \E n \in Entries' : from[n] = m
  <2>1. CASE m # k
    <3>1. PICK n \in 1 .. L - 1 : at(n) = m
        BY <2>1, <1>12 DEF Entries
    <3>2. n \in Entries'
        BY <1>1, <1>8
    <3> QED
        BY <3>1, <3>2
  <2>2. CASE m = k
      BY <2>2, <1>1, <1>8, <1>9, <1>17
  <2> QED
      BY <2>1, <2>2
<1>18. Tried(k, id, rc, from)
    BY <1>14, <1>15, <1>16, <1>17 DEF Tried, r
<1>19. r.body = queue[k].body
    BY DEF r, Requeued, Item
<1> HIDE DEF from
<1>20. \A n \in Entries' : queue'[n].body = queue[from[n]].body
    BY <1>15, <1>19
<1>21. \A n \in Entries' : from[n] \in Entries
    BY <1>14 DEF From1to1
<1>22. \A f : Waits(f)' => Waits(f)
    BY <1>20, <1>21 DEF Waits
<1>23. \A f : rc # "OK" \/ f # queue[k].body => (Waits(f) => Waits(f)')
    BY <1>17, <1>20 DEF Waits
<1> QED
    BY <1>1, <1>7, <1>14, <1>18, <1>22, <1>23 DEF From1to1

(***************************************************************************)
(* Results, indexes, requests and identifiers.                             *)
Results == {"OK", "BUSY", "FULL", "ERROR"}

LEMMA Codes ==
    /\ \A o \in Outcomes : /\ Code(o) \in Results
                           /\ Code(o) = "OK" <=> o = "ok"
                           /\ o # "full" => Code(o) # "FULL"
    /\ Hit("ok")
<1>1. ASSUME NEW o \in {"ok", "lost", "late", "busy", "busyLate", "full"}
      PROVE  /\ Code(o) \in Results
             /\ Code(o) = "OK" <=> o = "ok"
             /\ o # "full" => Code(o) # "FULL"
    BY DEF Code, Results
<1>2. Outcomes \subseteq {"ok", "lost", "late", "busy", "busyLate", "full"}
    BY MessageServiceAssumption
<1>3. Hit("ok")
    BY DEF Hit
<1> QED
    BY <1>1, <1>2, <1>3

LEMMA PairCodes ==
    ASSUME NEW p \in Pairs
    PROVE  /\ p[1] \in Outcomes /\ p[2] \in Outcomes
           /\ Worst(p) \in Outcomes
           /\ Code(Worst(p)) \in Results
           /\ Code(Worst(p)) = "OK" => p[1] = "ok" /\ p[2] = "ok" /\ Second(p)
           /\ Second(p) => p[1] = "ok"
<1>1. p[1] \in Outcomes /\ p[2] \in Outcomes
    BY DEF Pairs
<1>2. Worst(p) \in Outcomes /\ (Worst(p) = "ok" => p[1] = "ok" /\ p[2] = "ok")
    BY <1>1 DEF Worst
<1> DEFINE w == Worst(p)
<1>3. w \in Outcomes
    BY <1>2
<1>4. Code(w) \in Results /\ (Code(w) = "OK" => w = "ok")
  <2> HIDE DEF w
  <2> QED
    BY <1>3, Codes
<1>5. Code(Worst(p)) = "OK" => p[1] = "ok" /\ p[2] = "ok"
    BY <1>2, <1>4
<1>6. Second(p) => p[1] = "ok"
    BY DEF Second
<1>7. p[1] = "ok" /\ p[2] = "ok" => Second(p)
    BY Codes DEF Second
<1> QED
    BY <1>1, <1>2, <1>4, <1>5, <1>6, <1>7

LEMMA SmallPairCodes ==
    ASSUME NEW p \in SmallPairs
    PROVE  p \in Pairs /\ Code(Worst(p)) # "FULL"
<1>1. p \in Pairs /\ p[1] \in Small /\ p[2] \in Small
    BY DEF SmallPairs
<1> DEFINE w == Worst(p)
<1>2. w \in Outcomes /\ w # "full"
    BY <1>1 DEF Worst, Small
<1>3. Code(w) # "FULL"
  <2> HIDE DEF w
  <2> QED
    BY <1>2, Codes
<1> QED
    BY <1>1, <1>3

LEMMA RowTypes ==
    ASSUME TypeOK
    PROVE  /\ Pend \subseteq Id /\ Blk \subseteq Id
           /\ In \subseteq Id /\ Out \subseteq Id
BY DEF TypeOK, Pend, Blk, In, Out, ScanPending, ScanInbox, ScanOutbox

LEMMA Settled ==
    ASSUME NEW rc, NEW p, NEW b, NEW in, NEW out, Settle(rc, p, b, in, out)
    PROVE  /\ Pend' = IF rc = "OK" THEN p ELSE ScanPending'
           /\ Blk' = IF rc = "OK" THEN b ELSE {}
           /\ In' = IF rc = "OK" THEN in ELSE ScanInbox'
           /\ Out' = IF rc = "OK" THEN out ELSE ScanOutbox'
BY DEF Settle, Certain, Pend, Blk, In, Out

LEMMA RowsSettled ==
    ASSUME NEW rc, NEW p, NEW b, NEW in, NEW out, Settle(rc, p, b, in, out),
           rc = "OK" =>
               /\ ScanPending' \subseteq p /\ \A i \in p : staged'[i] # NoFile
               /\ ScanInbox' \subseteq in /\ \A i \in in : published'[i] # NoFile
               /\ ScanOutbox' \subseteq out /\ \A i \in out : outbox'[i] # NoBody
               /\ \A i \in b : published'[i] # NoFile
    PROVE  Rows'
<1>1. /\ \A i \in ScanPending' : staged'[i] # NoFile
      /\ \A i \in ScanInbox' : published'[i] # NoFile
      /\ \A i \in ScanOutbox' : outbox'[i] # NoBody
    BY DEF ScanPending, ScanInbox, ScanOutbox, Complete
<1> QED
    BY <1>1, Settled DEF Rows

LEMMA AnsweredRequests ==
    ASSUME req \in [Ops -> Request], NEW k \in Waiting,
           NEW rc \in Results, NEW id \in 0 .. MaxId, NEW att \in BOOLEAN,
           req' = Answered(k, rc, id, att)
    PROVE  /\ req' \in [Ops -> Request]
           /\ Waiting' = IF rc = "BUSY" THEN Waiting ELSE Waiting \ {k}
           /\ \A j \in Ops \ {k} : req'[j] = req[j]
           /\ req'[k].id = id /\ req'[k].attempted = att
           /\ req'[k].box = req[k].box
<1>1. k \in Ops /\ req[k] \in Request /\ req[k].st = "wait"
    BY DEF Waiting
<1> DEFINE new == IF rc = "BUSY"
                  THEN [req[k] EXCEPT !.id = id, !.attempted = att]
                  ELSE [req[k] EXCEPT !.st = "done", !.id = id,
                                      !.attempted = att, !.outcome = rc]
<1>2. req' = [req EXCEPT ![k] = new]
    BY DEF Answered
<1>3. new \in Request
    BY <1>1 DEF Request, Results
<1>4. /\ new.id = id /\ new.attempted = att /\ new.box = req[k].box
      /\ new.st = IF rc = "BUSY" THEN "wait" ELSE "done"
    BY <1>1 DEF Request
<1> HIDE DEF new
<1>5. req' \in [Ops -> Request] /\ req'[k] = new
      /\ \A j \in Ops \ {k} : req'[j] = req[j]
    BY <1>1, <1>2, <1>3
<1> QED
    BY <1>1, <1>4, <1>5 DEF Waiting

LEMMA Reserving ==
    ASSUME TypeOK, NEW old \in 0 .. MaxId, old < nextId, NEW o \in Outcomes,
           ~ Exhausted(old), Reserve(old, o)
    PROVE  /\ Reserved(old, o) \in 0 .. MaxId
           /\ Reserved(old, o) < nextId'
           /\ nextId' \in 1 .. MaxId + 1 /\ nextId <= nextId'
           /\ old # 0 => Reserved(old, o) = old /\ nextId' = nextId
           /\ old = 0 /\ o = "ok" => /\ Reserved(old, o) = nextId
                                     /\ nextId \in Id
           /\ old = 0 /\ o # "ok" => Reserved(old, o) = 0
<1>1. nextId \in 1 .. MaxId + 1 /\ MaxId \in Nat
    BY MessageServiceAssumption DEF TypeOK
<1>2. old = 0 => nextId <= MaxId
    BY <1>1 DEF Exhausted
<1>3. nextId' = nextId \/ (old = 0 /\ nextId' = nextId + 1)
    BY DEF Reserve
<1>4. o = "ok" /\ old = 0 => nextId' = nextId + 1
    BY Codes DEF Reserve
<1> QED
    BY <1>1, <1>2, <1>3, <1>4 DEF Reserved, Id

(***************************************************************************)
(* Types.                                                                  *)
MediaType ==
    /\ staged \in [Id -> File]
    /\ stamp \in [Id -> Wall]
    /\ published \in [Id -> File]
    /\ outbox \in [Id -> Copy \union {Draft, NoBody}]
    /\ seen \subseteq Box \X Id
    /\ rotten \subseteq {"pending", "inbox", "outbox"} \X Id
    /\ nextId \in 1 .. MaxId + 1

IndexType ==
    /\ ready \in BOOLEAN
    /\ pendIdx \subseteq Id
    /\ blocked \subseteq Id
    /\ inIdx \subseteq Id
    /\ outIdx \subseteq Id
    /\ ioFailures \in 0 .. IoRetryLimit
    /\ ioDeferred \in BOOLEAN

QueueType ==
    /\ queue \in Seq(Item)
    /\ Len(queue) <= QueueLimit

ReceiptType ==
    /\ receiptNext \in Nat
    /\ receiptActive \in Nat
    /\ receiptCommitted \in BOOLEAN
    /\ owed \subseteq Frag \union Copy
    /\ receiptFrag \subseteq Frag

CountType ==
    /\ arrivals \in Nat
    /\ requests \in Nat
    /\ faults \in Nat
    /\ cuts \in Nat

HistoryType ==
    /\ erased \subseteq Box \X Id
    /\ stray \subseteq Frag

RequestType == req \in [Ops -> Request]

LEMMA Types ==
    TypeOK <=> /\ MediaType /\ IndexType /\ QueueType /\ ReceiptType
               /\ CountType /\ HistoryType /\ RequestType
BY DEF TypeOK, MediaType, IndexType, QueueType, ReceiptType, CountType,
       HistoryType, RequestType

LEMMA TypesNext ==
    TypeOK' <=> /\ MediaType' /\ IndexType' /\ QueueType' /\ ReceiptType'
                /\ CountType' /\ HistoryType' /\ RequestType'
BY DEF TypeOK, MediaType, IndexType, QueueType, ReceiptType, CountType,
       HistoryType, RequestType

LEMMA IndexTypeSettled ==
    ASSUME IndexType, NEW rc, NEW p \in SUBSET Id, NEW b \in SUBSET Id,
           NEW in \in SUBSET Id, NEW out \in SUBSET Id,
           Settle(rc, p, b, in, out)
    PROVE  IndexType'
<1>1. ioFailures \in 0 .. 3
    BY DEF IndexType, IoRetryLimit
<1>2. ioFailures' \in {0, ioFailures} \/ (ioFailures < 3 /\ ioFailures' = ioFailures + 1)
    BY DEF Settle, IoRetryLimit
<1>3. ioFailures' \in 0 .. IoRetryLimit
    BY <1>1, <1>2 DEF IoRetryLimit
<1> QED
    BY <1>3 DEF Settle, Certain, IndexType

LEMMA SpendTypes ==
    ASSUME faults \in Nat, NEW o, Spend(o)
    PROVE  faults' \in Nat
BY DEF Spend

LEMMA TurnTypes ==
    ASSUME faults \in Nat, NEW o, QueueTurn(o)
    PROVE  faults' \in Nat
BY DEF QueueTurn

LEMMA DiscardTypes ==
    ASSUME NEW b, Discard(b)
    PROVE  owed' \subseteq owed /\ receiptFrag' \subseteq receiptFrag
BY DEF Discard

LEMMA ServedTypes ==
    ASSUME IInv, NEW k \in Servable, NEW id \in 0 .. MaxId, NEW rc,
           Served(From(k), id, rc)
    PROVE  /\ QueueType' /\ ReceiptType'
           /\ RequestType'
           /\ seen' = seen /\ published' = published
           /\ arrivals' = arrivals /\ requests' = requests /\ cuts' = cuts
           /\ erased' = erased
<1>1. k \in 1 .. Len(queue) /\ queue \in Seq(Item) /\ Len(queue) <= QueueLimit
    BY DEF IInv, TypeOK, Servable
<1>2. queue' \in Seq(Item) /\ Len(queue') <= Len(queue)
    BY <1>1, ServedEntries
<1>3. QueueType'
    BY <1>1, <1>2, MessageServiceAssumption DEF QueueType
<1>4. receiptCommitted' \in BOOLEAN
    BY DEF Served, IInv, TypeOK
<1>5. ReceiptType'
    BY <1>4 DEF Served, IInv, TypeOK, ReceiptType
<1> QED
    BY <1>3, <1>5 DEF Served, IInv, TypeOK, RequestType

LEMMA Entry ==
    ASSUME IInv, NEW k \in Servable
    PROVE  /\ k \in Entries /\ queue[k] \in Item
           /\ queue[k].id \in 0 .. MaxId /\ queue[k].id < nextId
           /\ Head(From(k)) = queue[k]
<1>1. k \in 1 .. Len(queue) /\ queue \in Seq(Item)
    BY DEF IInv, TypeOK, Servable
<1>2. queue[k] \in Item
    BY <1>1
<1>3. queue[k].id < nextId
    BY <1>1 DEF IInv, Drawn, Entries
<1> QED
    BY <1>1, <1>2, <1>3, Rotated DEF Item, Entries

LEMMA ScannedRows ==
    ASSUME TypeOK
    PROVE  /\ Eligible \subseteq Pend /\ Skipped \subseteq Eligible
           /\ Scanned \subseteq Pend
           /\ \A f : Related(f) \subseteq Scanned
BY DEF Eligible, Skipped, Scanned, Related

LEMMA AppendTypes ==
    ASSUME QueueType, Room, NEW r \in Item, queue' = Append(queue, r)
    PROVE  QueueType'
<1>1. queue' \in Seq(Item) /\ Len(queue') = Len(queue) + 1
    BY DEF QueueType
<1>2. Len(queue) \in Nat /\ QueueLimit \in Nat
    BY MessageServiceAssumption DEF QueueType
<1> QED
    BY <1>1, <1>2 DEF QueueType, Room

LEMMA CallerTypes ==
    ASSUME IInv, Caller
    PROVE  TypeOK'
<1>1. /\ MediaType /\ IndexType /\ QueueType /\ ReceiptType
      /\ CountType /\ HistoryType /\ RequestType
    BY Types DEF IInv
<1>2. ASSUME NEW f \in Frag, Receive(f)
      PROVE  TypeOK'
  <2>1. Arrival(f, 0) \in Item
      BY MessageServiceAssumption DEF Arrival, Item
  <2>2. QueueType'
      BY <1>1, <1>2, <2>1, AppendTypes DEF Receive
  <2>3. MediaType' /\ HistoryType' /\ RequestType'
      BY <1>1, <1>2 DEF Receive, media, MediaType, HistoryType, RequestType
  <2>4. IndexType'
      BY <1>1, <1>2 DEF Receive, index, IndexType
  <2>5. ReceiptType' /\ CountType'
      BY <1>1, <1>2 DEF Receive, receipts, ReceiptType, CountType
  <2> QED
      BY <2>2, <2>3, <2>4, <2>5, TypesNext
<1>3. ASSUME NEW f \in Frag, ReceiveTracked(f)
      PROVE  TypeOK'
  <2>1. receiptNext + 1 \in Nat
      BY <1>1 DEF ReceiptType
  <2>2. Arrival(f, receiptNext + 1) \in Item
      BY <2>1, MessageServiceAssumption DEF Arrival, Item
  <2>3. QueueType'
    <3>1. CASE Control({f})
        BY <1>1, <1>3, <3>1 DEF ReceiveTracked, QueueType
    <3>2. CASE ~ Control({f})
        BY <1>1, <1>3, <2>2, <3>2, AppendTypes DEF ReceiveTracked
    <3> QED
        BY <3>1, <3>2
  <2>4. MediaType' /\ HistoryType' /\ RequestType'
      BY <1>1, <1>3 DEF ReceiveTracked, media, MediaType, HistoryType, RequestType
  <2>5. IndexType'
      BY <1>1, <1>3 DEF ReceiveTracked, index, IndexType
  <2>6. CountType'
      BY <1>1, <1>3 DEF ReceiveTracked, CountType
  <2>7. owed' \subseteq Frag \union Copy
      BY <1>1, <1>3 DEF ReceiveTracked, ReceiptType
  <2>8. receiptCommitted' \in BOOLEAN
      BY <1>3 DEF ReceiveTracked, Control, Complete
  <2>9. receiptFrag' \subseteq Frag
      BY <1>3 DEF ReceiveTracked
  <2>10. ReceiptType'
      BY <1>1, <1>3, <2>1, <2>7, <2>8, <2>9 DEF ReceiveTracked, ReceiptType
  <2> QED
      BY <2>3, <2>4, <2>5, <2>6, <2>10, TypesNext
<1>4. CASE ReceiptForget
  <2>1. MediaType' /\ HistoryType' /\ RequestType' /\ QueueType' /\ CountType'
      BY <1>1, <1>4 DEF ReceiptForget, media, bounds, MediaType, HistoryType,
                        RequestType, QueueType, CountType
  <2>2. IndexType'
      BY <1>1, <1>4 DEF ReceiptForget, index, retry, IndexType
  <2>3. ReceiptType'
      BY <1>1, <1>4 DEF ReceiptForget, ReceiptType
  <2> QED
      BY <2>1, <2>2, <2>3, TypesNext
<1>5. ASSUME NEW c \in Copy, Sent(c)
      PROVE  TypeOK'
  <2> DEFINE r == [out |-> TRUE, body |-> c, id |-> 0, receipt |-> 0,
                   deferred |-> FALSE, tried |-> FALSE]
  <2>1. r \in Item
      BY MessageServiceAssumption DEF Item
  <2>2. queue' = Append(queue, r) /\ Room
      BY <1>5 DEF Sent
  <2>3. QueueType'
    <3> HIDE DEF r
    <3> QED
      BY <1>1, <2>1, <2>2, AppendTypes
  <2>4. MediaType' /\ HistoryType' /\ RequestType'
      BY <1>1, <1>5 DEF Sent, media, MediaType, HistoryType, RequestType
  <2>5. IndexType'
      BY <1>1, <1>5 DEF Sent, index, IndexType
  <2>6. ReceiptType' /\ CountType'
      BY <1>1, <1>5 DEF Sent, receipts, ReceiptType, CountType
  <2> QED
      BY <2>3, <2>4, <2>5, <2>6, TypesNext
<1>6. ASSUME NEW j \in Ops, NEW box \in Box, NEW i \in 0 .. nextId - 1,
             Ask(j, box, i)
      PROVE  TypeOK'
  <2>1. i \in 0 .. MaxId
      BY <1>1, MessageServiceAssumption DEF MediaType
  <2>2. [Free EXCEPT !.st = "wait", !.box = box, !.id = i] \in Request
      BY <2>1 DEF Free, Request, Box
  <2>3. RequestType'
      BY <1>1, <1>6, <2>2 DEF Ask, RequestType
  <2>4. MediaType' /\ HistoryType' /\ QueueType' /\ CountType'
      BY <1>1, <1>6 DEF Ask, media, MediaType, HistoryType, QueueType, CountType
  <2>5. IndexType'
      BY <1>1, <1>6 DEF Ask, index, retry, IndexType
  <2>6. ReceiptType'
      BY <1>1, <1>6 DEF Ask, receipts, ReceiptType
  <2> QED
      BY <2>3, <2>4, <2>5, <2>6, TypesNext
<1>7. ASSUME NEW j \in Ops, PopResult(j)
      PROVE  TypeOK'
  <2>1. Free \in Request
      BY MessageServiceAssumption DEF Free, Request, Box
  <2>2. RequestType'
      BY <1>1, <1>7, <2>1 DEF PopResult, RequestType
  <2>3. MediaType' /\ HistoryType' /\ QueueType' /\ CountType'
      BY <1>1, <1>7 DEF PopResult, media, bounds, MediaType, HistoryType,
                        QueueType, CountType
  <2>4. IndexType'
      BY <1>1, <1>7 DEF PopResult, index, retry, IndexType
  <2>5. ReceiptType'
      BY <1>1, <1>7 DEF PopResult, receipts, ReceiptType
  <2> QED
      BY <2>2, <2>3, <2>4, <2>5, TypesNext
<1> QED
    BY <1>2, <1>3, <1>4, <1>5, <1>6, <1>7 DEF Caller

LEMMA RequestTickTypes ==
    ASSUME IInv, TickRequest \/ \E o \in Outcomes : TickReloadFailed(o)
    PROVE  TypeOK'
<1>1. /\ MediaType /\ IndexType /\ QueueType /\ ReceiptType
      /\ CountType /\ HistoryType /\ RequestType
    BY Types DEF IInv
<1>2. /\ Pend \subseteq Id /\ Blk \subseteq Id /\ In \subseteq Id /\ Out \subseteq Id
    BY RowTypes DEF IInv
<1>3. \A j \in Ops : req[j] \in Request /\ req[j].id \in 0 .. MaxId
                     /\ req[j].id < nextId /\ req[j].attempted \in BOOLEAN
  <2>1. ASSUME NEW j \in Ops PROVE req[j] \in Request
      BY <1>1 DEF RequestType
  <2> QED
      BY <2>1 DEF Request, IInv, Drawn
<1>4. {} \subseteq Id
    OBVIOUS
<1>5. ASSUME NEW o \in Outcomes, TickReloadFailed(o)
      PROVE  TypeOK'
  <2>1. Code(o) \in Results
      BY Codes
  <2>2. RequestType'
    <3>1. CASE \E j \in Ops : Turn(j)
      <4> DEFINE j == CHOOSE j \in Ops : Turn(j)
      <4>1. j \in Ops /\ Turn(j) /\ j \in Waiting
          BY <3>1 DEF Turn
      <4>2. req' = Answered(j, Code(o), req[j].id, req[j].attempted)
          BY <1>5, <3>1 DEF TickReloadFailed
      <4> HIDE DEF j
      <4> QED
          BY <1>1, <1>3, <2>1, <4>1, <4>2, AnsweredRequests DEF RequestType
    <3>2. CASE ~ \E j \in Ops : Turn(j)
        BY <1>1, <1>5, <3>2 DEF TickReloadFailed, RequestType
    <3> QED
        BY <3>1, <3>2
  <2>3. IndexType'
    <3>1. Settle(Code(o), {}, {}, {}, {})
        BY <1>5 DEF TickReloadFailed, Fail
    <3> QED
        BY <1>1, <1>4, <3>1, IndexTypeSettled
  <2>4. MediaType' /\ HistoryType' /\ QueueType'
      BY <1>1, <1>5 DEF TickReloadFailed, media, MediaType, HistoryType, QueueType
  <2>5. faults' \in Nat
      BY <1>1, <1>5, SpendTypes DEF TickReloadFailed, CountType
  <2>6. ReceiptType' /\ CountType'
      BY <1>1, <1>5, <2>5 DEF TickReloadFailed, receipts, ReceiptType, CountType
  <2> QED
      BY <2>2, <2>3, <2>4, <2>6, TypesNext
<1>6. ASSUME NEW o \in Small, TickList(o)
      PROVE  TypeOK'
  <2>1. PICK rc \in Results : /\ req' = Answered("LIST", rc, 0, FALSE)
                              /\ Settle(rc, Pend, Blk, In, Out)
    <3>1. Code(o) \in Results /\ "ERROR" \in Results
        BY Codes DEF Small, Results
    <3> QED
        BY <1>6, <3>1 DEF TickList
  <2>2. "LIST" \in Waiting
      BY <1>6 DEF TickList, Turn
  <2>3. RequestType'
    <3>1. 0 \in 0 .. MaxId
        BY MessageServiceAssumption
    <3> QED
      BY <1>1, <2>1, <2>2, <3>1, AnsweredRequests DEF RequestType
  <2>4. IndexType'
      BY <1>1, <1>2, <2>1, IndexTypeSettled
  <2>5. MediaType' /\ HistoryType' /\ QueueType'
      BY <1>1, <1>6 DEF TickList, media, MediaType, HistoryType, QueueType
  <2>6. faults' \in Nat
      BY <1>1, <1>6, SpendTypes DEF TickList, CountType
  <2>7. ReceiptType' /\ CountType'
      BY <1>1, <1>6, <2>6 DEF TickList, receipts, ReceiptType, CountType
  <2> QED
      BY <2>3, <2>4, <2>5, <2>7, TypesNext
<1>7. ASSUME NEW o \in Small, TickRead(o)
      PROVE  TypeOK'
  <2> DEFINE r == req["READ"]
  <2>1. PICK rc \in Results : /\ req' = Answered("READ", rc, r.id, FALSE)
                              /\ Settle(rc, Pend, Blk, In, Out)
    <3>1. Code(o) \in Results /\ "ERROR" \in Results
        BY Codes DEF Small, Results
    <3> QED
        BY <1>7, <3>1 DEF TickRead
  <2>2. "READ" \in Waiting /\ "READ" \in Ops
      BY <1>7 DEF TickRead, Turn, Waiting
  <2>3. RequestType'
    <3>1. r.id \in 0 .. MaxId
        BY <1>3, <2>2
    <3> QED
      BY <1>1, <2>1, <2>2, <3>1, AnsweredRequests DEF RequestType
  <2>4. IndexType'
      BY <1>1, <1>2, <2>1, IndexTypeSettled
  <2>5. seen' \subseteq Box \X Id
    <3>1. r.box \in Box
        BY <1>3, <2>2 DEF Request
    <3>2. r.id \in BoxIdx(r.box) => r.id \in Id
        BY <1>2 DEF BoxIdx
    <3> QED
        BY <1>1, <1>7, <3>1, <3>2 DEF TickRead, MediaType
  <2>6. MediaType' /\ HistoryType' /\ QueueType'
      BY <1>1, <1>7, <2>5 DEF TickRead, MediaType, HistoryType, QueueType
  <2>7. faults' \in Nat
      BY <1>1, <1>7, SpendTypes DEF TickRead, CountType
  <2>8. ReceiptType' /\ CountType'
      BY <1>1, <1>7, <2>7 DEF TickRead, receipts, ReceiptType, CountType
  <2> QED
      BY <2>3, <2>4, <2>6, <2>8, TypesNext
<1>8. ASSUME NEW p \in Pairs, TickSave(p)
      PROVE  TypeOK'
  <2> DEFINE r == req["SAVE"]
             full == \/ r.id \notin Out /\ Full(Out, MailboxLimit)
                     \/ Exhausted(r.id)
             id == Reserved(r.id, p[1])
             rc == IF full THEN "FULL" ELSE Code(Worst(p))
  <2>1. "SAVE" \in Waiting /\ "SAVE" \in Ops
      BY <1>8 DEF TickSave, Turn, Waiting
  <2>2. r.id \in 0 .. MaxId /\ r.id < nextId /\ r.attempted \in BOOLEAN
      BY <1>3, <2>1
  <2>3. rc \in Results
      BY PairCodes DEF Results
  <2>4. ~ full => /\ id \in 0 .. MaxId /\ nextId' \in 1 .. MaxId + 1
                  /\ (Second(p) => id \in Id)
    <3>1. ASSUME ~ full PROVE Reserve(r.id, p[1]) /\ ~ Exhausted(r.id)
        BY <1>8, <3>1 DEF TickSave
    <3>2. p[1] \in Outcomes
        BY PairCodes
    <3>3. ASSUME ~ full
          PROVE  id \in 0 .. MaxId /\ nextId' \in 1 .. MaxId + 1
                 /\ (Second(p) => id \in Id)
      <4>1. TypeOK
          BY DEF IInv
      <4>2. /\ Reserved(r.id, p[1]) \in 0 .. MaxId /\ nextId' \in 1 .. MaxId + 1
            /\ r.id # 0 => Reserved(r.id, p[1]) = r.id
            /\ r.id = 0 /\ p[1] = "ok" => Reserved(r.id, p[1]) \in Id
        <5> HIDE DEF r, full
        <5> QED
          BY <2>2, <3>1, <3>2, <3>3, <4>1, Reserving
      <4>3. Second(p) => p[1] = "ok"
          BY DEF Second
      <4> QED
          BY <2>2, <4>2, <4>3 DEF Id
    <3> QED
        BY <3>3
  <2>5. Settle(rc, Pend, Blk, In, Out \union {id}) /\ Spend(Worst(p))
      BY <1>8 DEF TickSave
  <2>6. IndexType'
    <3>1. CASE rc = "OK"
      <4>1. ~ full /\ Second(p)
          BY <3>1, PairCodes
      <4>2. Out \union {id} \in SUBSET Id
          BY <1>2, <2>4, <4>1
      <4> HIDE DEF rc, id
      <4> QED
          BY <1>1, <1>2, <2>5, <4>2, IndexTypeSettled
    <3>2. CASE rc # "OK"
      <4>1. Settle(rc, {}, {}, {}, {})
          BY <2>5, <3>2 DEF Settle, Certain
      <4> HIDE DEF rc, id
      <4> QED
          BY <1>1, <1>4, <4>1, IndexTypeSettled
    <3> QED
        BY <3>1, <3>2
  <2>7. RequestType'
    <3>1. PICK x \in 0 .. MaxId, att \in BOOLEAN : req' = Answered("SAVE", rc, x, att)
      <4>1. CASE full
        <5>1. req' = Answered("SAVE", rc, r.id, r.attempted)
            BY <1>8, <4>1 DEF TickSave
        <5> QED
            BY <2>2, <5>1
      <4>2. CASE ~ full
        <5>1. req' = Answered("SAVE", rc, id, p[1] = "ok")
            BY <1>8, <4>2 DEF TickSave
        <5> QED
            BY <2>4, <4>2, <5>1
      <4> QED
          BY <4>1, <4>2
    <3> HIDE DEF rc
    <3> QED
        BY <1>1, <2>1, <2>3, <3>1, AnsweredRequests DEF RequestType
  <2>8. MediaType'
    <3>1. nextId' \in 1 .. MaxId + 1
        BY <1>1, <1>8, <2>4 DEF TickSave, MediaType
    <3>2. outbox' \in [Id -> Copy \union {Draft, NoBody}]
        BY <1>1, <1>8 DEF TickSave, MediaType
    <3>3. rotten' \subseteq rotten
        BY <1>8 DEF TickSave, Mended
    <3> QED
        BY <1>1, <1>8, <3>1, <3>2, <3>3 DEF TickSave, MediaType
  <2>9. HistoryType' /\ QueueType' /\ ReceiptType'
      BY <1>1, <1>8 DEF TickSave, receipts, HistoryType, QueueType, ReceiptType
  <2>10. faults' \in Nat
      BY <1>1, <2>5, SpendTypes DEF CountType
  <2>11. CountType'
      BY <1>1, <1>8, <2>10 DEF TickSave, CountType
  <2> QED
      BY <2>6, <2>7, <2>8, <2>9, <2>11, TypesNext
<1>9. ASSUME NEW p \in SmallPairs, TickDelete(p)
      PROVE  TypeOK'
  <2> DEFINE r == req["DELETE"]
             known == r.id \in BoxIdx(r.box) \/ r.attempted
             rc == IF known THEN Code(Worst(p)) ELSE "ERROR"
             att == r.attempted \/ (known /\ p[1] = "ok")
             inn == IF r.box = "inbox" THEN In \ {r.id} ELSE In
             out == IF r.box = "outbox" THEN Out \ {r.id} ELSE Out
  <2>1. "DELETE" \in Waiting /\ "DELETE" \in Ops
      BY <1>9 DEF TickDelete, Turn, Waiting
  <2>2. r.id \in Id /\ r.attempted \in BOOLEAN /\ r.box \in Box /\ r.id \in 0 .. MaxId
      BY <1>3, <2>1 DEF Request, IInv, Begun
  <2>3. rc \in Results /\ att \in BOOLEAN
      BY <2>2, SmallPairCodes, PairCodes DEF Results
  <2>4. /\ Settle(rc, Pend \ {r.id}, Blk \ {r.id}, inn, out)
        /\ Spend(Worst(p)) /\ req' = Answered("DELETE", rc, r.id, att)
      BY <1>9 DEF TickDelete
  <2>5. RequestType'
    <3> HIDE DEF rc, att
    <3> QED
      BY <1>1, <2>1, <2>2, <2>3, <2>4, AnsweredRequests DEF RequestType
  <2>6. IndexType'
    <3>1. /\ Pend \ {r.id} \in SUBSET Id /\ Blk \ {r.id} \in SUBSET Id
          /\ inn \in SUBSET Id /\ out \in SUBSET Id
        BY <1>2
    <3> HIDE DEF rc, inn, out
    <3> QED
      BY <1>1, <2>4, <3>1, IndexTypeSettled
  <2>7. MediaType'
    <3>0. NoFile \in File /\ 0 \in Wall
        BY MessageServiceAssumption DEF File, NoFile, Wall
    <3>1. /\ staged' \in [Id -> File] /\ stamp' \in [Id -> Wall]
          /\ published' \in [Id -> File]
      <4>1. staged' \in {staged, [staged EXCEPT ![r.id] = NoFile]}
          BY <1>9 DEF TickDelete, Unstaged
      <4>2. stamp' \in {stamp, [stamp EXCEPT ![r.id] = 0]}
          BY <1>9 DEF TickDelete, Unstamped
      <4>3. published' \in {published, [published EXCEPT ![r.id] = NoFile]}
          BY <1>9 DEF TickDelete
      <4> QED
        BY <1>1, <3>0, <4>1, <4>2, <4>3 DEF MediaType
    <3>2. outbox' \in [Id -> Copy \union {Draft, NoBody}]
        BY <1>1, <1>9 DEF TickDelete, MediaType
    <3>3. seen' \subseteq seen /\ rotten' \subseteq rotten
        BY <1>9 DEF TickDelete
    <3> QED
        BY <1>1, <1>9, <3>1, <3>2, <3>3 DEF TickDelete, MediaType
  <2>8. QueueType'
    <3>1. CASE rc = "OK"
      <4>1. queue' = [n \in 1 .. Len(queue) |-> [queue[n] EXCEPT !.deferred = FALSE]]
          BY <1>9, <3>1 DEF TickDelete
      <4>2. \A n \in 1 .. Len(queue) : queue[n] \in Item
          BY <1>1 DEF QueueType
      <4>3. \A n \in 1 .. Len(queue) : [queue[n] EXCEPT !.deferred = FALSE] \in Item
          BY <4>2 DEF Item
      <4>4. queue' \in Seq(Item) /\ Len(queue') = Len(queue)
          BY <1>1, <4>1, <4>3 DEF QueueType
      <4> QED
          BY <1>1, <4>4 DEF QueueType
    <3>2. CASE rc # "OK"
        BY <1>1, <1>9, <3>2 DEF TickDelete, QueueType
    <3> QED
        BY <3>1, <3>2
  <2>9. ReceiptType'
    <3>1. owed' \subseteq owed /\ receiptFrag' \subseteq receiptFrag
        BY <1>9 DEF TickDelete, Discard
    <3> QED
        BY <1>1, <1>9, <3>1 DEF TickDelete, ReceiptType
  <2>10. HistoryType'
      BY <1>1, <1>9, <2>2 DEF TickDelete, HistoryType
  <2>11. faults' \in Nat
      BY <1>1, <2>4, SpendTypes DEF CountType
  <2>12. CountType'
      BY <1>1, <1>9, <2>11 DEF TickDelete, CountType
  <2> QED
      BY <2>5, <2>6, <2>7, <2>8, <2>9, <2>10, <2>12, TypesNext
<1> QED
    BY <1>5, <1>6, <1>7, <1>8, <1>9 DEF TickRequest

LEMMA MaintenanceTypes ==
    ASSUME IInv,
           \/ \E i \in Pend, w \in Wall, o \in Small : TickCleanup(w, i, o)
           \/ \E i \in Eligible \ Skipped, passed \in SUBSET Skipped,
                 p \in SmallPairs : TickPublish(i, passed, p)
           \/ \E o \in Outcomes : PowerCut(o)
           \/ \E c \in {"pending", "inbox", "outbox"}, i \in Id : Rot(c, i)
    PROVE  TypeOK'
<1>1. /\ MediaType /\ IndexType /\ QueueType /\ ReceiptType
      /\ CountType /\ HistoryType /\ RequestType
    BY Types DEF IInv
<1>2. /\ Pend \subseteq Id /\ Blk \subseteq Id /\ In \subseteq Id /\ Out \subseteq Id
    BY RowTypes DEF IInv
<1>3. NoFile \in File /\ 0 \in Wall
    BY MessageServiceAssumption DEF File, NoFile, Wall
<1>4. ASSUME NEW i \in Pend, NEW w \in Wall, NEW o \in Small, TickCleanup(w, i, o)
      PROVE  TypeOK'
  <2>1. PICK p \in SUBSET Id : Settle(Code(o), p, Blk, In, Out)
    <3>1. Pend \in SUBSET Id /\ Pend \ {i} \in SUBSET Id
        BY <1>2
    <3> QED
        BY <1>4, <3>1 DEF TickCleanup
  <2>2. IndexType'
      BY <1>1, <1>2, <2>1, IndexTypeSettled
  <2>3. MediaType'
    <3>1. staged' \in {staged, [staged EXCEPT ![i] = NoFile]}
        BY <1>4 DEF TickCleanup, Unstaged
    <3>2. stamp' \in {stamp, [stamp EXCEPT ![i] = 0], [stamp EXCEPT ![i] = w]}
        BY <1>4 DEF TickCleanup, Unstamped
    <3>3. rotten' \subseteq rotten
        BY <1>4 DEF TickCleanup
    <3> QED
        BY <1>1, <1>3, <1>4, <3>1, <3>2, <3>3 DEF TickCleanup, MediaType
  <2>4. ReceiptType'
    <3>1. owed' \subseteq owed /\ receiptFrag' \subseteq receiptFrag
        BY <1>4 DEF TickCleanup, Discard
    <3> QED
        BY <1>1, <1>4, <3>1 DEF TickCleanup, ReceiptType
  <2>5. QueueType' /\ HistoryType' /\ RequestType'
      BY <1>1, <1>4 DEF TickCleanup, QueueType, HistoryType, RequestType
  <2>6. faults' \in Nat
      BY <1>1, <1>4, SpendTypes DEF TickCleanup, CountType
  <2>7. CountType'
      BY <1>1, <1>4, <2>6 DEF TickCleanup, CountType
  <2> QED
      BY <2>2, <2>3, <2>4, <2>5, <2>7, TypesNext
<1>5. ASSUME NEW i \in Eligible \ Skipped, NEW passed \in SUBSET Skipped,
             NEW p \in SmallPairs, TickPublish(i, passed, p)
      PROVE  TypeOK'
  <2>1. i \in Id /\ passed \subseteq Id
      BY <1>2 DEF Eligible, Skipped
  <2>2. \E rc : \E in \in SUBSET Id :
            Settle(rc, Pend \ {i}, Blk \union passed, in, Out)
    <3>1. In \in SUBSET Id /\ In \union {i} \in SUBSET Id
        BY <1>2, <2>1
    <3> QED
        BY <1>5, <3>1 DEF TickPublish
  <2>3. IndexType'
    <3>1. Pend \ {i} \in SUBSET Id /\ Blk \union passed \in SUBSET Id
        BY <1>2, <2>1
    <3> QED
      BY <1>1, <1>2, <2>2, <3>1, IndexTypeSettled
  <2>4. MediaType'
    <3>1. staged' \in {staged, [staged EXCEPT ![i] = NoFile]}
        BY <1>5 DEF TickPublish, Unstaged
    <3>2. stamp' \in {stamp, [stamp EXCEPT ![i] = 0]}
        BY <1>5 DEF TickPublish, Unstamped
    <3>3. published' \in {published, [published EXCEPT ![i] = staged[i]]}
        BY <1>5 DEF TickPublish
    <3> QED
        BY <1>1, <1>3, <1>5, <2>1, <3>1, <3>2, <3>3 DEF TickPublish, MediaType
  <2>5. ReceiptType'
    <3>1. owed' \subseteq owed /\ receiptFrag' \subseteq receiptFrag
        BY <1>5 DEF TickPublish, Discard
    <3> QED
        BY <1>1, <1>5, <3>1 DEF TickPublish, ReceiptType
  <2>6. QueueType' /\ HistoryType' /\ RequestType'
      BY <1>1, <1>5 DEF TickPublish, QueueType, HistoryType, RequestType
  <2>7. faults' \in Nat
      BY <1>1, <1>5, SpendTypes DEF TickPublish, CountType
  <2>8. CountType'
      BY <1>1, <1>5, <2>7 DEF TickPublish, CountType
  <2> QED
      BY <2>3, <2>4, <2>5, <2>6, <2>8, TypesNext
<1>6. ASSUME NEW o \in Outcomes, PowerCut(o)
      PROVE  TypeOK'
  <2>1. MediaType' /\ HistoryType'
      BY <1>1, <1>6 DEF PowerCut, media, MediaType, HistoryType
  <2>2. IndexType'
    <3>1. ready' \in BOOLEAN
        BY <1>6 DEF PowerCut, Fits
    <3>2. ScanPending \subseteq Id /\ ScanInbox \subseteq Id /\ ScanOutbox \subseteq Id
        BY DEF ScanPending, ScanInbox, ScanOutbox
    <3>3. /\ pendIdx' \in {ScanPending, {}} /\ inIdx' \in {ScanInbox, {}}
          /\ outIdx' \in {ScanOutbox, {}} /\ blocked' = {}
          /\ ioFailures' = 0 /\ ioDeferred' = FALSE
        BY <1>6 DEF PowerCut
    <3>4. pendIdx' \subseteq Id /\ inIdx' \subseteq Id /\ outIdx' \subseteq Id
          /\ blocked' \subseteq Id
        BY <3>2, <3>3
    <3>5. ioFailures' \in 0 .. IoRetryLimit
        BY <1>6 DEF PowerCut, IoRetryLimit
    <3>6. ioDeferred' \in BOOLEAN
        BY <1>6 DEF PowerCut
    <3> QED
        BY <3>1, <3>4, <3>5, <3>6 DEF IndexType
  <2>3. QueueType'
    <3>1. <<>> \in Seq(Item) /\ Len(<<>>) = 0
        OBVIOUS
    <3> QED
      BY <1>6, <3>1, MessageServiceAssumption DEF PowerCut, QueueType
  <2>4. ReceiptType'
      BY <1>1, <1>6 DEF PowerCut, ReceiptType
  <2>5. RequestType'
    <3>1. Free \in Request
        BY MessageServiceAssumption DEF Free, Request, Box
    <3> QED
      BY <1>6, <3>1 DEF PowerCut, RequestType
  <2>6. faults' \in Nat
      BY <1>1, <1>6, SpendTypes DEF PowerCut, CountType
  <2>7. CountType'
      BY <1>1, <1>6, <2>6 DEF PowerCut, CountType
  <2> QED
      BY <2>1, <2>2, <2>3, <2>4, <2>5, <2>7, TypesNext
<1>7. ASSUME NEW c \in {"pending", "inbox", "outbox"}, NEW i \in Id, Rot(c, i)
      PROVE  TypeOK'
  <2>1. MediaType' /\ HistoryType'
      BY <1>1, <1>7 DEF Rot, MediaType, HistoryType
  <2>2. IndexType' /\ QueueType' /\ RequestType' /\ CountType'
      BY <1>1, <1>7 DEF Rot, index, retry, bounds, IndexType, QueueType,
                        RequestType, CountType
  <2>3. ReceiptType'
    <3>1. owed' \subseteq owed /\ receiptFrag' \subseteq receiptFrag
        BY <1>7 DEF Rot, Discard
    <3> QED
      BY <1>1, <1>7, <3>1 DEF Rot, ReceiptType
  <2> QED
      BY <2>1, <2>2, <2>3, TypesNext
<1> QED
    BY <1>4, <1>5, <1>6, <1>7

LEMMA QueueTickTypes ==
    ASSUME IInv, TickQueue
    PROVE  TypeOK'
<1>1. /\ MediaType /\ IndexType /\ QueueType /\ ReceiptType
      /\ CountType /\ HistoryType /\ RequestType
    BY Types DEF IInv
<1>2. /\ Pend \subseteq Id /\ Blk \subseteq Id /\ In \subseteq Id /\ Out \subseteq Id
      /\ Blk \union Skipped \subseteq Id /\ Scanned \subseteq Id
    BY RowTypes, ScannedRows DEF IInv
<1>3. ASSUME TickIdle
      PROVE  TypeOK'
  <2>1. MediaType' /\ HistoryType' /\ QueueType' /\ RequestType'
      BY <1>1, <1>3 DEF TickIdle, media, MediaType, HistoryType, QueueType, RequestType
  <2>2. IndexType'
    <3>1. Settle("OK", Pend, Blk \union Skipped, In, Out)
        BY <1>3 DEF TickIdle
    <3> QED
      BY <1>1, <1>2, <3>1, IndexTypeSettled
  <2>3. faults' \in Nat
      BY <1>1, <1>3, TurnTypes DEF TickIdle, CountType
  <2>4. ReceiptType' /\ CountType'
      BY <1>1, <1>3, <2>3 DEF TickIdle, receipts, ReceiptType, CountType
  <2> QED
      BY <2>1, <2>2, <2>4, TypesNext
<1>4. ASSUME NEW k \in Servable, NEW id \in 0 .. MaxId, NEW rc, NEW o, NEW p, NEW b,
             NEW in, NEW out,
             QueueTurn(o), Served(From(k), id, rc), MediaType', stray' \subseteq Frag,
             Settle(rc, p, b, in, out),
             rc = "OK" => /\ p \in SUBSET Id /\ b \in SUBSET Id
                          /\ in \in SUBSET Id /\ out \in SUBSET Id
      PROVE  TypeOK'
  <2>1. faults' \in Nat
      BY <1>1, <1>4, TurnTypes DEF CountType
  <2>2. /\ QueueType' /\ ReceiptType' /\ RequestType'
        /\ arrivals' = arrivals /\ requests' = requests /\ cuts' = cuts
        /\ erased' = erased
      BY <1>4, ServedTypes
  <2>3. CountType' /\ HistoryType'
      BY <1>1, <1>4, <2>1, <2>2 DEF CountType, HistoryType
  <2>4. IndexType'
    <3>1. CASE rc = "OK"
        BY <1>1, <1>4, <3>1, IndexTypeSettled
    <3>2. CASE rc # "OK"
      <4>1. Settle(rc, {}, {}, {}, {})
          BY <1>4, <3>2 DEF Settle, Certain
      <4> QED
          BY <1>1, <4>1, IndexTypeSettled
    <3> QED
        BY <3>1, <3>2
  <2> QED
      BY <1>4, <2>2, <2>3, <2>4, TypesNext
<1>5. ASSUME NEW k \in Servable
      PROVE  /\ queue[k] \in Item /\ queue[k].id \in 0 .. MaxId
             /\ queue[k].id < nextId /\ Head(From(k)) = queue[k]
             /\ queue[k].body \in Frag \union Copy
  <2>1. queue[k] \in Item
      BY Entry
  <2> QED
      BY <2>1, Entry DEF Item
<1>6. ASSUME NEW k \in Servable, TickServeKnown(k)
      PROVE  TypeOK'
  <2>1. /\ QueueTurn("ok") /\ Served(From(k), queue[k].id, "OK")
        /\ Settle("OK", Pend, Blk \union Skipped, In, Out)
      BY <1>5, <1>6 DEF TickServeKnown
  <2>2. MediaType' /\ stray' \subseteq Frag
      BY <1>1, <1>5, <1>6, <2>1, ServedTypes DEF TickServeKnown, MediaType, HistoryType
  <2> QED
      BY <1>2, <1>4, <1>5, <2>1, <2>2
<1>7. ASSUME NEW k \in Servable, NEW o \in Outcomes, TickServeUnread(k, o)
      PROVE  TypeOK'
  <2>1. PICK rc : /\ QueueTurn(o) /\ Served(From(k), queue[k].id, rc)
                  /\ rc # "OK" /\ Settle(rc, {}, {}, {}, {})
    <3>1. o # "ok" => Code(o) # "OK"
        BY Codes
    <3> QED
      BY <1>5, <1>7, <3>1 DEF TickServeUnread, Fail
  <2>2. MediaType' /\ stray' \subseteq Frag
      BY <1>1, <1>5, <1>7, <2>1, ServedTypes DEF TickServeUnread, MediaType, HistoryType
  <2> QED
      BY <1>4, <1>5, <2>1, <2>2
<1>8. ASSUME NEW k \in Servable, TickServeFull(k)
      PROVE  TypeOK'
  <2>1. /\ QueueTurn("ok") /\ Served(From(k), queue[k].id, "FULL")
        /\ Settle("FULL", {}, {}, {}, {})
      BY <1>5, <1>8 DEF TickServeFull, Fail
  <2>2. MediaType' /\ stray' \subseteq Frag
      BY <1>1, <1>5, <1>8, <2>1, ServedTypes DEF TickServeFull, MediaType, HistoryType
  <2> QED
      BY <1>4, <1>5, <2>1, <2>2
<1>9. ASSUME NEW k \in Servable, NEW i \in Scanned, NEW o \in Outcomes,
             TickServeMerge(k, i, o)
      PROVE  TypeOK'
  <2>1. /\ QueueTurn(o) /\ Served(From(k), i, Code(o))
        /\ Settle(Code(o), Pend, Blk \union Skipped, In, Out)
      BY <1>5, <1>9 DEF TickServeMerge
  <2>2. i \in Id /\ i \in 0 .. MaxId
      BY <1>2, MessageServiceAssumption DEF Id
  <2>3. queue[k].body \in Frag
      BY <1>5, <1>9, Entry DEF TickServeMerge, IInv, OneGroup, Arrivals
  <2>4. staged' \in [Id -> File]
    <3>1. staged[i] \union {queue[k].body} \in File
        BY <1>1, <2>2, <2>3 DEF MediaType, File
    <3> QED
      BY <1>1, <1>5, <1>9, <3>1 DEF TickServeMerge, MediaType
  <2>5. published' = published /\ seen' = seen
      BY <2>1, <2>2, ServedTypes
  <2>6. MediaType'
      BY <1>1, <1>9, <2>4, <2>5 DEF TickServeMerge, MediaType
  <2>7. stray' \subseteq Frag
      BY <1>1, <1>5, <1>9, <2>3 DEF TickServeMerge, Strays, HistoryType
  <2> QED
      BY <1>2, <1>4, <2>1, <2>2, <2>6, <2>7
<1>10. ASSUME NEW k \in Servable, NEW p \in Pairs, TickServeStage(k, p)
       PROVE  TypeOK'
  <2> DEFINE id == Reserved(queue[k].id, p[1])
             rc == Code(Worst(p))
  <2>1. /\ QueueTurn(Worst(p)) /\ Served(From(k), id, rc)
        /\ Settle(rc, Pend \union {id}, Blk \union Skipped, In, Out)
        /\ ~ Exhausted(queue[k].id) /\ Reserve(queue[k].id, p[1])
        /\ ~ queue[k].out
        /\ staged' = IF Second(p) THEN [staged EXCEPT ![id] = {queue[k].body}]
                     ELSE staged
        /\ rotten' = Mended("pending", id, p)
        /\ Strays(Second(p), id, queue[k].body)
        /\ stamp' = stamp /\ outbox' = outbox
      BY <1>5, <1>10 DEF TickServeStage
  <2>2. p[1] \in Outcomes /\ (Second(p) => p[1] = "ok") /\ (rc = "OK" => Second(p))
      BY PairCodes
  <2>3. /\ id \in 0 .. MaxId /\ nextId' \in 1 .. MaxId + 1
        /\ Second(p) => id \in Id
    <3>1. TypeOK
        BY DEF IInv
    <3>2. /\ id \in 0 .. MaxId /\ nextId' \in 1 .. MaxId + 1
          /\ queue[k].id # 0 => id = queue[k].id
          /\ queue[k].id = 0 /\ p[1] = "ok" => id \in Id
        BY <1>5, <2>1, <2>2, <3>1, Reserving
    <3> QED
        BY <1>5, <2>2, <3>2 DEF Id
  <2>4. queue[k].body \in Frag
      BY <2>1, Entry DEF IInv, OneGroup, Arrivals
  <2> HIDE DEF id, rc
  <2>5. published' = published /\ seen' = seen
      BY <2>1, <2>3, ServedTypes
  <2>6. staged' \in [Id -> File] /\ rotten' \subseteq rotten
      BY <1>1, <2>1, <2>3, <2>4 DEF MediaType, File, Mended
  <2>7. MediaType'
      BY <1>1, <2>1, <2>3, <2>5, <2>6 DEF MediaType
  <2>8. stray' \subseteq Frag
      BY <1>1, <2>1, <2>4 DEF Strays, HistoryType
  <2>9. rc = "OK" => Pend \union {id} \in SUBSET Id
      BY <1>2, <2>2, <2>3
  <2> QED
      BY <1>2, <1>4, <2>1, <2>3, <2>7, <2>8, <2>9
<1>11. ASSUME NEW k \in Servable, NEW p \in Pairs, TickServeSent(k, p)
       PROVE  TypeOK'
  <2> DEFINE id == Reserved(queue[k].id, p[1])
             rc == Code(Worst(p))
  <2>1. /\ QueueTurn(Worst(p)) /\ Served(From(k), id, rc)
        /\ Settle(rc, Pend, Blk \union Skipped, In, Out \union {id})
        /\ ~ Exhausted(queue[k].id) /\ Reserve(queue[k].id, p[1])
        /\ queue[k].out
        /\ outbox' = IF Second(p) THEN [outbox EXCEPT ![id] = queue[k].body]
                     ELSE outbox
        /\ rotten' = Mended("outbox", id, p)
        /\ stray' = stray /\ stamp' = stamp /\ staged' = staged
      BY <1>5, <1>11 DEF TickServeSent
  <2>2. p[1] \in Outcomes /\ (Second(p) => p[1] = "ok") /\ (rc = "OK" => Second(p))
      BY PairCodes
  <2>3. /\ id \in 0 .. MaxId /\ nextId' \in 1 .. MaxId + 1
        /\ Second(p) => id \in Id
    <3>1. TypeOK
        BY DEF IInv
    <3>2. /\ id \in 0 .. MaxId /\ nextId' \in 1 .. MaxId + 1
          /\ queue[k].id # 0 => id = queue[k].id
          /\ queue[k].id = 0 /\ p[1] = "ok" => id \in Id
        BY <1>5, <2>1, <2>2, <3>1, Reserving
    <3> QED
        BY <1>5, <2>2, <3>2 DEF Id
  <2>4. queue[k].body \in Copy
      BY <2>1, Entry DEF IInv, CopyOnce, Copies
  <2> HIDE DEF id, rc
  <2>5. published' = published /\ seen' = seen
      BY <2>1, <2>3, ServedTypes
  <2>6. outbox' \in [Id -> Copy \union {Draft, NoBody}] /\ rotten' \subseteq rotten
      BY <1>1, <2>1, <2>3, <2>4 DEF MediaType, Mended
  <2>7. MediaType'
      BY <1>1, <2>1, <2>3, <2>5, <2>6 DEF MediaType
  <2>8. stray' \subseteq Frag
      BY <1>1, <2>1 DEF HistoryType
  <2>9. rc = "OK" => Out \union {id} \in SUBSET Id
      BY <1>2, <2>2, <2>3
  <2> QED
      BY <1>2, <1>4, <2>1, <2>3, <2>7, <2>8, <2>9
<1> QED
    BY <1>3, <1>6, <1>7, <1>8, <1>9, <1>10, <1>11 DEF TickQueue

LEMMA TypeStep ==
    ASSUME IInv, [Next]_vars
    PROVE  TypeOK'
<1>1. CASE Next
  <2>1. CASE Tick
      BY <2>1, RequestTickTypes, MaintenanceTypes, QueueTickTypes DEF Tick
  <2>2. CASE Caller
      BY <2>2, CallerTypes
  <2>3. CASE \/ \E o \in Outcomes : PowerCut(o)
             \/ \E c \in {"pending", "inbox", "outbox"}, i \in Id : Rot(c, i)
      BY <2>3, MaintenanceTypes
  <2> QED
      BY <1>1, <2>1, <2>2, <2>3 DEF Next
<1>2. CASE UNCHANGED vars
    BY <1>2 DEF vars, media, index, retry, receipts, bounds, IInv, TypeOK
<1> QED
    BY <1>1, <1>2

(***************************************************************************)
(* Calm steps give no entry another identifier and put nothing under one   *)
(* that was not there: most steps are calm.                                *)
CalmQueue ==
    \E from \in [Entries' -> Entries] :
        /\ From1to1(from)
        /\ \A n \in Entries' : SameEntry(queue'[n], queue[from[n]])

CalmFiles ==
    /\ nextId' = nextId
    /\ \A i \in Id :
           /\ staged'[i] = staged[i] \/ staged'[i] = NoFile
           /\ outbox'[i] = outbox[i] \/ outbox'[i] = NoBody
           /\ \/ published'[i] = published[i]
              \/ published'[i] = staged[i]
              \/ published'[i] = NoFile

CalmRequests ==
    /\ \A i \in Id : Saving(i)' => Saving(i)
    /\ \A k \in Ops : req'[k].id < nextId

Calm == CalmQueue /\ CalmFiles /\ CalmRequests

LEMMA CalmKeeps ==
    ASSUME IInv, Calm
    PROVE  Drawn' /\ Apart' /\ CopyOnce' /\ OneGroup'
<1>1. PICK from \in [Entries' -> Entries] :
          /\ From1to1(from)
          /\ \A n \in Entries' : SameEntry(queue'[n], queue[from[n]])
    BY DEF Calm, CalmQueue
<1>2. ASSUME NEW n \in Entries'
      PROVE  /\ from[n] \in Entries
             /\ queue'[n].out = queue[from[n]].out
             /\ queue'[n].body = queue[from[n]].body
             /\ queue'[n].id = queue[from[n]].id
             /\ queue'[n].receipt = queue[from[n]].receipt
             /\ n \in Arrivals' => from[n] \in Arrivals
             /\ n \in Copies' => from[n] \in Copies
    BY <1>1, <1>2 DEF SameEntry, Arrivals, Copies
<1>3. \A n, m \in Entries' : n # m => from[n] # from[m]
    BY <1>1 DEF From1to1
<1>4. Arrivals' \subseteq Entries' /\ Copies' \subseteq Entries'
    BY DEF Arrivals, Copies
<1>5. /\ nextId' = nextId
      /\ \A i \in Id : /\ staged'[i] = staged[i] \/ staged'[i] = NoFile
                       /\ outbox'[i] = outbox[i] \/ outbox'[i] = NoBody
                       /\ \/ published'[i] = published[i]
                          \/ published'[i] = staged[i]
                          \/ published'[i] = NoFile
      /\ \A i \in Id : Saving(i)' => Saving(i)
      /\ \A k \in Ops : req'[k].id < nextId
    BY DEF Calm, CalmFiles, CalmRequests
<1>6. Drawn'
    BY <1>2, <1>5 DEF IInv, Drawn
<1>7. Apart'
  <2>1. ASSUME NEW i \in Id, outbox'[i] # NoBody \/ Saving(i)'
        PROVE  /\ staged'[i] = NoFile /\ published'[i] = NoFile
               /\ \A n \in Arrivals' : queue'[n].id # i
    <3>1. outbox[i] # NoBody \/ Saving(i)
        BY <1>5, <2>1
    <3>2. /\ staged[i] = NoFile /\ published[i] = NoFile
          /\ \A n \in Arrivals : queue[n].id # i
        BY <3>1 DEF IInv, Apart
    <3> QED
        BY <1>2, <1>4, <1>5, <3>2
  <2>2. ASSUME NEW i \in Id, Saving(i)'
        PROVE  /\ outbox'[i] \in {NoBody, Draft}
               /\ \A n \in Copies' : queue'[n].id # i
    <3>1. /\ outbox[i] \in {NoBody, Draft}
          /\ \A n \in Copies : queue[n].id # i
        BY <1>5, <2>2 DEF IInv, Apart
    <3> QED
        BY <1>2, <1>4, <1>5, <3>1
  <2>3. ASSUME NEW i \in Id, NEW n \in Copies', queue'[n].id = i
        PROVE  /\ staged'[i] = NoFile /\ published'[i] = NoFile
               /\ \A m \in Arrivals' : queue'[m].id # i
    <3>1. /\ staged[i] = NoFile /\ published[i] = NoFile
          /\ \A m \in Arrivals : queue[m].id # i
        BY <1>2, <1>4, <2>3 DEF IInv, Apart
    <3> QED
        BY <1>2, <1>4, <1>5, <3>1
  <2> QED
      BY <2>1, <2>2, <2>3 DEF Apart
<1>8. CopyOnce'
  <2>1. ASSUME NEW n \in Copies'
        PROVE  /\ queue'[n].body \in Copy
               /\ queue'[n].receipt = 0
               /\ \A i \in Id :
                      /\ queue'[n].id = i => outbox'[i] \in {NoBody, queue'[n].body}
                      /\ outbox'[i] = queue'[n].body => queue'[n].id = i
    <3>1. from[n] \in Copies /\ n \in Entries'
        BY <1>2, <1>4
    <3>2. queue[from[n]].body \in Copy /\ queue[from[n]].receipt = 0
        BY <3>1 DEF IInv, CopyOnce
    <3>3. queue[from[n]].body # NoBody
        BY <3>2, MessageServiceAssumption
    <3>4. \A i \in Id :
              /\ queue[from[n]].id = i => outbox[i] \in {NoBody, queue[from[n]].body}
              /\ outbox[i] = queue[from[n]].body => queue[from[n]].id = i
        BY <3>1 DEF IInv, CopyOnce
    <3> QED
        BY <1>2, <1>5, <3>1, <3>2, <3>3, <3>4
  <2>2. ASSUME NEW n \in Copies', NEW m \in Copies', m # n
        PROVE  /\ queue'[m].body # queue'[n].body
               /\ queue'[n].id # 0 => queue'[m].id # queue'[n].id
    <3>1. /\ from[n] \in Copies /\ from[m] \in Copies /\ from[n] # from[m]
          /\ n \in Entries' /\ m \in Entries'
        BY <1>2, <1>3, <1>4, <2>2
    <3>2. /\ queue[from[m]].body # queue[from[n]].body
          /\ queue[from[n]].id # 0 => queue[from[m]].id # queue[from[n]].id
        BY <3>1 DEF IInv, CopyOnce
    <3> QED
        BY <1>2, <3>1, <3>2
  <2>3. SentOnce'
    <3>1. NoBody \notin Copy
        BY MessageServiceAssumption
    <3> QED
        BY <1>5, <3>1 DEF IInv, CopyOnce, SentOnce
  <2> QED
      BY <2>1, <2>2, <2>3 DEF CopyOnce
<1>9. OneGroup'
  <2>1. ASSUME NEW i \in Id
        PROVE  /\ \A f, g \in staged'[i] : GroupOf[f] = GroupOf[g]
               /\ \A f, g \in published'[i] : GroupOf[f] = GroupOf[g]
      BY <1>5 DEF IInv, OneGroup, NoFile
  <2>2. ASSUME NEW n \in Arrivals'
        PROVE  /\ queue'[n].body \in Frag
               /\ \A i \in Id : queue'[n].id = i =>
                      /\ \A g \in staged'[i] : GroupOf[g] = GroupOf[queue'[n].body]
                      /\ PartsOf[GroupOf[queue'[n].body]] = 1 =>
                             staged'[i] \subseteq {queue'[n].body}
    <3>1. from[n] \in Arrivals /\ n \in Entries'
        BY <1>2, <1>4
    <3>2. /\ queue[from[n]].body \in Frag
          /\ \A i \in Id : queue[from[n]].id = i =>
                 /\ \A g \in staged[i] : GroupOf[g] = GroupOf[queue[from[n]].body]
                 /\ PartsOf[GroupOf[queue[from[n]].body]] = 1 =>
                        staged[i] \subseteq {queue[from[n]].body}
        BY <3>1 DEF IInv, OneGroup
    <3> QED
        BY <1>2, <1>5, <3>1, <3>2 DEF NoFile
  <2>3. ASSUME NEW n \in Arrivals', NEW m \in Arrivals', NEW i \in Id,
               queue'[n].id = i, queue'[m].id = i
        PROVE  /\ GroupOf[queue'[m].body] = GroupOf[queue'[n].body]
               /\ PartsOf[GroupOf[queue'[n].body]] = 1 =>
                      queue'[m].body = queue'[n].body
    <3>1. /\ from[n] \in Arrivals /\ from[m] \in Arrivals
          /\ n \in Entries' /\ m \in Entries'
        BY <1>2, <1>4
    <3>2. queue[from[n]].id = i /\ queue[from[m]].id = i
        BY <1>2, <2>3, <3>1
    <3>3. /\ GroupOf[queue[from[m]].body] = GroupOf[queue[from[n]].body]
          /\ PartsOf[GroupOf[queue[from[n]].body]] = 1 =>
                 queue[from[m]].body = queue[from[n]].body
        BY <3>1, <3>2 DEF IInv, OneGroup
    <3> QED
        BY <1>2, <3>1, <3>3
  <2> QED
      BY <2>1, <2>2, <2>3 DEF OneGroup
<1> QED
    BY <1>6, <1>7, <1>8, <1>9

LEMMA SameQueue ==
    ASSUME queue \in Seq(Item), queue' = queue
    PROVE  CalmQueue
<1> DEFINE from == [n \in Entries' |-> n]
<1>1. Entries' = Entries
    BY DEF Entries
<1>2. from \in [Entries' -> Entries] /\ \A n \in Entries' : from[n] = n
    BY <1>1
<1>3. From1to1(from)
    BY <1>2 DEF From1to1
<1>4. \A n \in Entries' : SameEntry(queue'[n], queue[from[n]])
    BY <1>2 DEF SameEntry
<1> HIDE DEF from
<1> QED
    BY <1>2, <1>3, <1>4 DEF CalmQueue

LEMMA SameIdServed ==
    ASSUME IInv, NEW k \in Servable, NEW rc, Served(From(k), queue[k].id, rc)
    PROVE  CalmQueue
<1>1. k \in 1 .. Len(queue) /\ queue \in Seq(Item) /\ k \in Entries
      /\ queue[k] \in Item /\ queue[k].id \in 0 .. MaxId
    BY Entry DEF IInv, TypeOK, Servable
<1>2. PICK from \in [Entries' -> Entries] : Tried(k, queue[k].id, rc, from)
    BY <1>1, ServedEntries
<1>3. ASSUME NEW n \in Entries'
      PROVE  SameEntry(queue'[n], queue[from[n]])
  <2>1. CASE from[n] = k
    <3>1. queue'[n] = Requeued(queue[k], queue[k].id, rc)
        BY <1>2, <2>1 DEF Tried
    <3> QED
        BY <1>1, <2>1, <3>1 DEF Requeued, SameEntry, Item
  <2>2. CASE from[n] # k
    <3>1. queue'[n] = queue[from[n]]
        BY <1>2, <2>2 DEF Tried
    <3> QED
        BY <3>1 DEF SameEntry
  <2> QED
      BY <2>1, <2>2
<1> QED
    BY <1>2, <1>3 DEF CalmQueue, Tried

LEMMA SameRequests ==
    ASSUME IInv, req' = req
    PROVE  CalmRequests /\ Waiting' = Waiting
BY DEF IInv, Drawn, CalmRequests, Saving, Waiting

LEMMA CalmAnswer ==
    ASSUME IInv, NEW k \in Waiting, NEW rc \in Results, NEW id \in {0, req[k].id},
           NEW att \in BOOLEAN, req' = Answered(k, rc, id, att),
           k = "SAVE" => id = req[k].id
    PROVE  CalmRequests
<1>1. k \in Ops /\ req \in [Ops -> Request] /\ nextId \in Nat /\ 1 <= nextId
    BY MessageServiceAssumption DEF Waiting, IInv, TypeOK
<1>2. \A j \in Ops : req[j].id \in 0 .. MaxId /\ req[j].id < nextId
  <2>1. \A j \in Ops : req[j] \in Request
      BY <1>1
  <2> QED
      BY <2>1 DEF Request, IInv, Drawn
<1>3. id \in 0 .. MaxId /\ id < nextId
    BY <1>1, <1>2, MessageServiceAssumption
<1>4. /\ Waiting' = IF rc = "BUSY" THEN Waiting ELSE Waiting \ {k}
      /\ \A j \in Ops \ {k} : req'[j] = req[j]
      /\ req'[k].id = id
    BY <1>1, <1>3, AnsweredRequests
<1>5. \A j \in Ops : req'[j].id < nextId
    BY <1>2, <1>3, <1>4
<1>6. \A i \in Id : Saving(i)' => Saving(i)
  <2>1. Waiting \subseteq Ops
      BY DEF Waiting
  <2> QED
    BY <1>4, <2>1 DEF Saving
<1> QED
    BY <1>5, <1>6 DEF CalmRequests

CalmStep ==
    \/ ReceiptForget
    \/ \E k \in Ops, box \in Box, i \in 0 .. nextId - 1 : Ask(k, box, i)
    \/ \E k \in Ops : PopResult(k)
    \/ \E o \in Outcomes : TickReloadFailed(o)
    \/ \E o \in Small : TickList(o) \/ TickRead(o)
    \/ \E p \in SmallPairs : TickDelete(p)
    \/ \E i \in Pend, w \in Wall, o \in Small : TickCleanup(w, i, o)
    \/ \E i \in Eligible \ Skipped, passed \in SUBSET Skipped, p \in SmallPairs :
           TickPublish(i, passed, p)
    \/ TickIdle
    \/ \E k \in Servable :
         TickServeKnown(k) \/ TickServeFull(k) \/ \E o \in Outcomes : TickServeUnread(k, o)
    \/ \E o \in Outcomes : PowerCut(o)
    \/ \E c \in {"pending", "inbox", "outbox"}, i \in Id : Rot(c, i)
    \/ UNCHANGED vars

LEMMA CalmSteps ==
    ASSUME IInv, CalmStep
    PROVE  Calm
<1>1. /\ queue \in Seq(Item) /\ MediaType /\ Pend \subseteq Id
      /\ nextId \in Nat /\ 1 <= nextId
    BY Types, RowTypes, MessageServiceAssumption DEF IInv, TypeOK
<1>2. ASSUME media' = media PROVE CalmFiles
    BY <1>2 DEF media, CalmFiles
<1>3. CASE ReceiptForget \/ TickIdle \/ UNCHANGED vars
  <2>1. media' = media /\ queue' = queue /\ req' = req
      BY <1>3 DEF ReceiptForget, TickIdle, vars
  <2> QED
      BY <1>1, <1>2, <2>1, SameQueue, SameRequests DEF Calm
<1>4. ASSUME NEW k \in Ops, NEW box \in Box, NEW i \in 0 .. nextId - 1, Ask(k, box, i)
      PROVE  Calm
  <2>1. media' = media /\ queue' = queue
      BY <1>4 DEF Ask
  <2> DEFINE r == [Free EXCEPT !.st = "wait", !.box = box, !.id = i]
  <2>2. r.id = i
      BY DEF Free
  <2>3. req' = [req EXCEPT ![k] = r] /\ (k = "SAVE" => i = 0)
      BY <1>4 DEF Ask
  <2> HIDE DEF r
  <2>4. req \in [Ops -> Request]
      BY DEF IInv, TypeOK
  <2>5. \A j \in Ops : req'[j] = IF j = k THEN r ELSE req[j]
      BY <2>3, <2>4
  <2>6. \A j \in Ops : req'[j].id < nextId
      BY <1>1, <2>2, <2>5 DEF IInv, Drawn
  <2>7. \A j \in Id : Saving(j)' => Saving(j)
    <3>1. 0 \notin Id
        BY DEF Id
    <3> QED
        BY <2>2, <2>3, <2>5, <3>1 DEF Saving, Waiting
  <2> QED
      BY <1>1, <1>2, <2>1, <2>6, <2>7, SameQueue DEF Calm, CalmRequests
<1>5. ASSUME NEW k \in Ops, PopResult(k)
      PROVE  Calm
  <2>1. media' = media /\ queue' = queue /\ req' = [req EXCEPT ![k] = Free]
      BY <1>5 DEF PopResult
  <2>2. Free.id = 0 /\ Free.st = "free"
      BY DEF Free
  <2>3. req \in [Ops -> Request]
      BY DEF IInv, TypeOK
  <2>4. \A j \in Ops : req'[j] = IF j = k THEN Free ELSE req[j]
      BY <2>1, <2>3
  <2>5. \A j \in Ops : req'[j].id < nextId
      BY <1>1, <2>2, <2>4 DEF IInv, Drawn
  <2>6. \A j \in Id : Saving(j)' => Saving(j)
      BY <2>2, <2>4 DEF Saving, Waiting
  <2> QED
      BY <1>1, <1>2, <2>1, <2>5, <2>6, SameQueue DEF Calm, CalmRequests
<1>6. \A j \in Ops : req[j].attempted \in BOOLEAN
  <2>1. \A j \in Ops : req[j] \in Request
      BY DEF IInv, TypeOK
  <2> QED
      BY <2>1 DEF Request
<1>7. ASSUME NEW o \in Outcomes, TickReloadFailed(o)
      PROVE  Calm
  <2>1. media' = media /\ queue' = queue
      BY <1>7 DEF TickReloadFailed
  <2>2. CalmRequests
    <3>1. CASE \E j \in Ops : Turn(j)
      <4> DEFINE j == CHOOSE j \in Ops : Turn(j)
      <4>1. j \in Ops /\ j \in Waiting
          BY <3>1 DEF Turn
      <4>2. req' = Answered(j, Code(o), req[j].id, req[j].attempted)
          BY <1>7, <3>1 DEF TickReloadFailed
      <4>3. Code(o) \in Results
          BY Codes
      <4> HIDE DEF j
      <4> QED
          BY <1>6, <4>1, <4>2, <4>3, CalmAnswer
    <3>2. CASE ~ \E j \in Ops : Turn(j)
        BY <1>7, <3>2, SameRequests DEF TickReloadFailed
    <3> QED
        BY <3>1, <3>2
  <2> QED
      BY <1>1, <1>2, <2>1, <2>2, SameQueue DEF Calm
<1>8. ASSUME NEW o \in Small, TickList(o)
      PROVE  Calm
  <2>1. media' = media /\ queue' = queue
      BY <1>8 DEF TickList
  <2>2. PICK rc \in Results : req' = Answered("LIST", rc, 0, FALSE)
    <3>1. Code(o) \in Results /\ "ERROR" \in Results
        BY Codes DEF Small, Results
    <3> QED
        BY <1>8, <3>1 DEF TickList
  <2>3. "LIST" \in Waiting
      BY <1>8 DEF TickList, Turn
  <2>4. CalmRequests
      BY <2>2, <2>3, CalmAnswer
  <2> QED
      BY <1>1, <1>2, <2>1, <2>4, SameQueue DEF Calm
<1>9. ASSUME NEW o \in Small, TickRead(o)
      PROVE  Calm
  <2>1. CalmFiles /\ queue' = queue
      BY <1>9 DEF TickRead, CalmFiles
  <2>2. PICK rc \in Results : req' = Answered("READ", rc, req["READ"].id, FALSE)
    <3>1. Code(o) \in Results /\ "ERROR" \in Results
        BY Codes DEF Small, Results
    <3> QED
        BY <1>9, <3>1 DEF TickRead
  <2>3. "READ" \in Waiting
      BY <1>9 DEF TickRead, Turn
  <2>4. CalmRequests
      BY <2>2, <2>3, CalmAnswer
  <2> QED
      BY <1>1, <2>1, <2>4, SameQueue DEF Calm
<1>10. ASSUME NEW p \in SmallPairs, TickDelete(p)
       PROVE  Calm
  <2> DEFINE r == req["DELETE"]
             known == r.id \in BoxIdx(r.box) \/ r.attempted
             rc == IF known THEN Code(Worst(p)) ELSE "ERROR"
             att == r.attempted \/ (known /\ p[1] = "ok")
  <2>1. "DELETE" \in Waiting /\ "DELETE" \in Ops
      BY <1>10 DEF TickDelete, Turn, Waiting
  <2>2. rc \in Results /\ att \in BOOLEAN /\ r.id \in Id
      BY <1>6, <2>1, SmallPairCodes, PairCodes DEF Results, IInv, Begun
  <2>3. req' = Answered("DELETE", rc, r.id, att)
      BY <1>10 DEF TickDelete
  <2>4. CalmRequests
    <3> HIDE DEF rc, att
    <3> QED
      BY <2>1, <2>2, <2>3, CalmAnswer
  <2>5. CalmFiles
    <3>1. staged' \in {staged, [staged EXCEPT ![r.id] = NoFile]}
        BY <1>10 DEF TickDelete, Unstaged
    <3>2. published' \in {published, [published EXCEPT ![r.id] = NoFile]}
        BY <1>10 DEF TickDelete
    <3>3. outbox' \in {outbox, [outbox EXCEPT ![r.id] = NoBody]} /\ nextId' = nextId
        BY <1>10 DEF TickDelete
    <3> QED
        BY <1>1, <2>2, <3>1, <3>2, <3>3 DEF MediaType, CalmFiles
  <2>6. CalmQueue
    <3>1. CASE rc = "OK"
      <4> DEFINE from == [n \in Entries' |-> n]
      <4>1. queue' = [n \in 1 .. Len(queue) |-> [queue[n] EXCEPT !.deferred = FALSE]]
          BY <1>10, <3>1 DEF TickDelete
      <4>2. \A n \in 1 .. Len(queue) : queue[n] \in Item
          BY <1>1
      <4>3. /\ Len(queue') = Len(queue)
            /\ \A n \in 1 .. Len(queue) :
                   queue'[n] = [queue[n] EXCEPT !.deferred = FALSE]
          BY <1>1, <4>1
      <4>4. Entries' = Entries /\ Entries = 1 .. Len(queue)
          BY <4>3 DEF Entries
      <4>5. \A n \in Entries : SameEntry(queue'[n], queue[n])
          BY <4>2, <4>3, <4>4 DEF SameEntry, Item
      <4>6. from \in [Entries' -> Entries] /\ \A n \in Entries' : from[n] = n
          BY <4>4
      <4>7. From1to1(from)
          BY <4>6 DEF From1to1
      <4>8. \A n \in Entries' : SameEntry(queue'[n], queue[from[n]])
          BY <4>4, <4>5, <4>6
      <4> HIDE DEF from
      <4> QED
          BY <4>6, <4>7, <4>8 DEF CalmQueue
    <3>2. CASE rc # "OK"
      <4>1. queue' = queue
        BY <1>10, <3>2 DEF TickDelete
      <4> QED
        BY <1>1, <4>1, SameQueue
    <3> QED
        BY <3>1, <3>2
  <2> QED
      BY <2>4, <2>5, <2>6 DEF Calm
<1>11. ASSUME NEW i \in Pend, NEW w \in Wall, NEW o \in Small, TickCleanup(w, i, o)
       PROVE  Calm
  <2>1. queue' = queue /\ req' = req
      BY <1>11 DEF TickCleanup
  <2>2. CalmFiles
    <3>1. staged' \in {staged, [staged EXCEPT ![i] = NoFile]} /\ nextId' = nextId
          /\ outbox' = outbox /\ published' = published
        BY <1>11 DEF TickCleanup, Unstaged
    <3> QED
        BY <1>1, <3>1 DEF MediaType, CalmFiles
  <2> QED
      BY <1>1, <2>1, <2>2, SameQueue, SameRequests DEF Calm
<1>12. ASSUME NEW i \in Eligible \ Skipped, NEW passed \in SUBSET Skipped,
              NEW p \in SmallPairs, TickPublish(i, passed, p)
       PROVE  Calm
  <2>1. queue' = queue /\ req' = req
      BY <1>12 DEF TickPublish
  <2>2. CalmFiles
    <3>1. /\ staged' \in {staged, [staged EXCEPT ![i] = NoFile]}
          /\ published' \in {published, [published EXCEPT ![i] = staged[i]]}
          /\ nextId' = nextId /\ outbox' = outbox
        BY <1>12 DEF TickPublish, Unstaged
    <3>2. i \in Id
        BY <1>1 DEF Eligible
    <3> QED
        BY <1>1, <3>1, <3>2 DEF MediaType, CalmFiles
  <2> QED
      BY <1>1, <2>1, <2>2, SameQueue, SameRequests DEF Calm
<1>13. ASSUME NEW k \in Servable,
              TickServeKnown(k) \/ TickServeFull(k)
                  \/ \E o \in Outcomes : TickServeUnread(k, o)
       PROVE  Calm
  <2>1. \E rc : Served(From(k), queue[k].id, rc)
      BY <1>13, Entry DEF TickServeKnown, TickServeFull, TickServeUnread
  <2>2. CalmQueue
      BY <2>1, SameIdServed
  <2>3. req' = req /\ published' = published
      BY <2>1 DEF Served
  <2>4. CalmFiles
      BY <1>13, <2>3 DEF TickServeKnown, TickServeFull, TickServeUnread, CalmFiles
  <2> QED
      BY <2>2, <2>3, <2>4, SameRequests DEF Calm
<1>14. ASSUME NEW o \in Outcomes, PowerCut(o)
       PROVE  Calm
  <2>1. media' = media /\ queue' = <<>> /\ req' = [k \in Ops |-> Free]
      BY <1>14 DEF PowerCut
  <2>2. CalmQueue
    <3> DEFINE from == [n \in Entries' |-> n]
    <3>1. Entries' = {}
        BY <2>1 DEF Entries
    <3>2. from \in [Entries' -> Entries]
        BY <3>1
    <3> HIDE DEF from
    <3> QED
        BY <3>1, <3>2 DEF CalmQueue, From1to1
  <2>3. CalmRequests
    <3>1. Free.id = 0 /\ Free.st = "free"
        BY DEF Free
    <3> QED
        BY <1>1, <2>1, <3>1 DEF CalmRequests, Saving, Waiting
  <2> QED
      BY <1>2, <2>1, <2>2, <2>3 DEF Calm
<1>15. ASSUME NEW c \in {"pending", "inbox", "outbox"}, NEW i \in Id, Rot(c, i)
       PROVE  Calm
  <2>1. CalmFiles /\ queue' = queue /\ req' = req
      BY <1>15 DEF Rot, CalmFiles
  <2> QED
      BY <1>1, <2>1, SameQueue, SameRequests DEF Calm
<1> QED
    BY <1>3, <1>4, <1>5, <1>7, <1>8, <1>9, <1>10, <1>11, <1>12, <1>13, <1>14,
       <1>15 DEF CalmStep

(***************************************************************************)
(* The other steps: an entry is appended, or one is given an identifier.   *)
LEMMA AppendKeeps ==
    ASSUME IInv, media' = media, req' = req, NEW r \in Item, r.id = 0,
           queue' = Append(queue, r),
           ~ r.out => r.body \in Frag,
           r.out => /\ r.body \in Copy /\ r.receipt = 0
                    /\ r.body \notin owed \union OnMedia
    PROVE  Drawn' /\ Apart' /\ CopyOnce' /\ OneGroup'
<1> DEFINE last == Len(queue) + 1
<1>1. /\ queue \in Seq(Item) /\ nextId \in Nat /\ 1 <= nextId
      /\ Len(queue) \in Nat /\ 0 \notin Id
    BY MessageServiceAssumption DEF IInv, TypeOK, Id
<1>2. /\ Entries' = Entries \union {last} /\ last \notin Entries
      /\ \A n \in Entries : queue'[n] = queue[n]
      /\ queue'[last] = r
    BY <1>1 DEF Entries
<1>3. /\ Arrivals' = Arrivals \union {n \in {last} : ~ r.out}
      /\ Copies' = Copies \union {n \in {last} : r.out}
    BY <1>2 DEF Arrivals, Copies
<1>4. /\ Arrivals \subseteq Entries /\ Copies \subseteq Entries
    BY DEF Arrivals, Copies
<1>5. /\ staged' = staged /\ published' = published /\ outbox' = outbox
      /\ nextId' = nextId
    BY DEF media
<1>6. \A i \in Id : Saving(i)' <=> Saving(i)
    BY DEF Saving, Waiting
<1> HIDE DEF last
<1>7. Drawn'
  <2>1. \A n \in Entries' : queue'[n].id < nextId
    <3>1. ASSUME NEW n \in Entries PROVE queue'[n].id < nextId
        BY <1>2 DEF IInv, Drawn
    <3>2. queue'[last].id < nextId
        BY <1>1, <1>2
    <3> QED
        BY <1>2, <3>1, <3>2
  <2> QED
      BY <1>5, <2>1 DEF IInv, Drawn
<1>8. Apart'
  <2>1. ASSUME NEW i \in Id
        PROVE  /\ (\A n \in Arrivals : queue[n].id # i) =>
                      \A n \in Arrivals' : queue'[n].id # i
               /\ (\A n \in Copies : queue[n].id # i) =>
                      \A n \in Copies' : queue'[n].id # i
      BY <1>1, <1>2, <1>3, <1>4
  <2>2. ASSUME NEW i \in Id, NEW n \in Copies', queue'[n].id = i
        PROVE  n \in Copies /\ queue[n].id = i
      BY <1>1, <1>2, <1>3, <1>4, <2>2
  <2>3. Apart
      BY DEF IInv
  <2> QED
      BY <1>5, <1>6, <2>1, <2>2, <2>3 DEF Apart
<1>9. CopyOnce'
  <2>1. r.out => /\ r.body \in Copy /\ r.receipt = 0
                 /\ \A n \in Entries : queue[n].body # r.body
                 /\ \A i \in Id : outbox[i] # r.body
    <3>1. \A n \in Entries : queue[n].body \in owed
        BY DEF IInv, Safe
    <3>2. ASSUME NEW i \in Id, outbox[i] # NoBody
          PROVE  outbox[i] \in OnMedia
      <4> DEFINE bodies == {outbox[j] : j \in Id} \ {NoBody}
                 parts == (UNION {staged[j] : j \in Id})
                              \union (UNION {published[j] : j \in Id})
      <4>1. outbox[i] \in bodies
          BY <3>2
      <4>2. OnMedia = parts \union bodies
          BY DEF OnMedia
      <4> HIDE DEF bodies, parts
      <4> QED
          BY <4>1, <4>2
    <3> QED
        BY <3>1, <3>2, MessageServiceAssumption
  <2>2. ASSUME NEW n \in Copies'
        PROVE  /\ queue'[n].body \in Copy
               /\ queue'[n].receipt = 0
               /\ \A i \in Id :
                      /\ queue'[n].id = i => outbox'[i] \in {NoBody, queue'[n].body}
                      /\ outbox'[i] = queue'[n].body => queue'[n].id = i
    <3>1. CASE n \in Copies
      <4>1. queue'[n] = queue[n]
          BY <1>2, <1>4, <3>1
      <4> QED
          BY <1>5, <3>1, <4>1 DEF IInv, CopyOnce
    <3>2. CASE n \notin Copies
      <4>1. queue'[n] = r /\ r.out
          BY <1>2, <1>3, <3>2
      <4> QED
          BY <1>1, <1>5, <2>1, <4>1
    <3> QED
        BY <3>1, <3>2
  <2>3. ASSUME NEW n \in Copies', NEW m \in Copies', m # n
        PROVE  /\ queue'[m].body # queue'[n].body
               /\ queue'[n].id # 0 => queue'[m].id # queue'[n].id
    <3>1. CASE n \in Copies /\ m \in Copies
      <4>1. queue'[n] = queue[n] /\ queue'[m] = queue[m]
          BY <1>2, <1>4, <3>1
      <4> QED
          BY <2>3, <3>1, <4>1 DEF IInv, CopyOnce
    <3>2. CASE n \in Copies /\ m \notin Copies
      <4>1. queue'[n] = queue[n] /\ n \in Entries /\ queue'[m] = r /\ r.out
          BY <1>2, <1>3, <1>4, <3>2
      <4> QED
          BY <2>1, <4>1
    <3>3. CASE n \notin Copies
      <4>1. queue'[n] = r /\ r.out /\ m \in Entries /\ queue'[m] = queue[m]
          BY <1>2, <1>3, <1>4, <2>3, <3>3
      <4> QED
          BY <2>1, <4>1
    <3> QED
        BY <3>1, <3>2, <3>3
  <2>4. SentOnce'
      BY <1>5 DEF IInv, CopyOnce, SentOnce
  <2> QED
      BY <2>2, <2>3, <2>4 DEF CopyOnce
<1>10. OneGroup'
  <2>1. \A n \in Arrivals' : queue'[n].body \in Frag
    <3>1. \A n \in Arrivals : queue[n].body \in Frag
        BY DEF IInv, OneGroup
    <3> QED
        BY <1>2, <1>3, <1>4, <3>1
  <2>2. ASSUME NEW i \in Id, NEW n \in Arrivals', queue'[n].id = i
        PROVE  n \in Arrivals /\ queue'[n] = queue[n]
      BY <1>1, <1>2, <1>3, <1>4, <2>2
  <2>3. OneGroup
      BY DEF IInv
  <2>4. ASSUME NEW i \in Id
        PROVE  /\ \A f, g \in staged'[i] : GroupOf[f] = GroupOf[g]
               /\ \A f, g \in published'[i] : GroupOf[f] = GroupOf[g]
      BY <1>5, <2>3 DEF OneGroup
  <2>5. ASSUME NEW n \in Arrivals', NEW i \in Id, queue'[n].id = i
        PROVE  /\ \A g \in staged'[i] : GroupOf[g] = GroupOf[queue'[n].body]
               /\ PartsOf[GroupOf[queue'[n].body]] = 1 =>
                      staged'[i] \subseteq {queue'[n].body}
    <3>1. n \in Arrivals /\ queue'[n] = queue[n] /\ queue[n].id = i
        BY <2>2, <2>5
    <3>2. /\ \A g \in staged[i] : GroupOf[g] = GroupOf[queue[n].body]
          /\ PartsOf[GroupOf[queue[n].body]] = 1 => staged[i] \subseteq {queue[n].body}
        BY <2>3, <3>1 DEF OneGroup
    <3> QED
        BY <1>5, <3>1, <3>2
  <2>6. ASSUME NEW n \in Arrivals', NEW m \in Arrivals', NEW i \in Id,
               queue'[n].id = i, queue'[m].id = i
        PROVE  /\ GroupOf[queue'[m].body] = GroupOf[queue'[n].body]
               /\ PartsOf[GroupOf[queue'[n].body]] = 1 =>
                      queue'[m].body = queue'[n].body
    <3>1. n \in Arrivals /\ queue'[n] = queue[n] /\ m \in Arrivals /\ queue'[m] = queue[m]
        BY <2>2, <2>6
    <3> QED
        BY <2>3, <2>6, <3>1 DEF OneGroup
  <2> QED
      BY <2>1, <2>4, <2>5, <2>6 DEF OneGroup
<1> QED
    BY <1>7, <1>8, <1>9, <1>10

LEMMA EntryReserved ==
    ASSUME IInv, NEW k \in Servable, NEW o \in Outcomes,
           ~ Exhausted(queue[k].id), Reserve(queue[k].id, o)
    PROVE  LET id == Reserved(queue[k].id, o)
           IN  /\ id \in 0 .. MaxId /\ id < nextId'
               /\ nextId \in Nat /\ nextId' \in Nat /\ nextId <= nextId'
               /\ id = 0 <=> queue[k].id = 0 /\ o # "ok"
               /\ queue[k].id # 0 => id = queue[k].id
               /\ queue[k].id = 0 /\ id # 0 => id = nextId
<1>1. queue[k].id \in 0 .. MaxId /\ queue[k].id < nextId /\ TypeOK
    BY Entry DEF IInv
<1>2. nextId \in Nat /\ 1 <= nextId
    BY <1>1, MessageServiceAssumption DEF TypeOK
<1> HIDE DEF IInv
<1> QED
    BY <1>1, <1>2, Reserving, MessageServiceAssumption DEF Id

LEMMA SaveKeeps ==
    ASSUME IInv, NEW p \in Pairs, TickSave(p)
    PROVE  Drawn' /\ Apart' /\ CopyOnce' /\ OneGroup'
<1> DEFINE r == req["SAVE"]
           full == \/ r.id \notin Out /\ Full(Out, MailboxLimit)
                   \/ Exhausted(r.id)
           id == Reserved(r.id, p[1])
           rc == Code(Worst(p))
<1>1. /\ "SAVE" \in Waiting /\ "SAVE" \in Ops /\ req \in [Ops -> Request]
      /\ queue \in Seq(Item) /\ nextId \in Nat /\ TypeOK
      /\ outbox \in [Id -> Copy \union {Draft, NoBody}]
    BY MessageServiceAssumption DEF TickSave, Turn, Waiting, IInv, TypeOK
<1>2. \A j \in Ops : /\ req[j] \in Request /\ req[j].id \in 0 .. MaxId
                     /\ req[j].attempted \in BOOLEAN /\ req[j].id < nextId
  <2>1. \A j \in Ops : req[j] \in Request
      BY <1>1
  <2> QED
      BY <2>1 DEF Request, IInv, Drawn
<1>3. /\ queue' = queue /\ staged' = staged /\ published' = published
      /\ Entries' = Entries /\ Arrivals' = Arrivals /\ Copies' = Copies
    BY DEF TickSave, Entries, Arrivals, Copies
<1>4. CASE full
  <2>1. /\ req' = Answered("SAVE", "FULL", r.id, r.attempted)
        /\ nextId' = nextId /\ outbox' = outbox
      BY <1>4 DEF TickSave
  <2>2. CalmFiles
      BY <1>3, <2>1 DEF CalmFiles
  <2>3. CalmRequests
      BY <1>1, <1>2, <2>1, CalmAnswer DEF Results
  <2> QED
      BY <1>1, <1>3, <2>2, <2>3, SameQueue, CalmKeeps DEF Calm
<1>5. CASE ~ full
  <2>1. /\ req' = Answered("SAVE", rc, id, p[1] = "ok")
        /\ Reserve(r.id, p[1]) /\ ~ Exhausted(r.id)
        /\ outbox' = IF Second(p) THEN [outbox EXCEPT ![id] = Draft] ELSE outbox
      BY <1>5 DEF TickSave
  <2>2. /\ p[1] \in Outcomes /\ rc \in Results /\ (Second(p) => p[1] = "ok")
      BY PairCodes
  <2>3. r.id \in 0 .. MaxId /\ r.id < nextId
      BY <1>1, <1>2
  <2>4. /\ id \in 0 .. MaxId /\ id < nextId' /\ nextId' \in Nat /\ nextId <= nextId'
        /\ r.id # 0 => id = r.id
        /\ r.id = 0 /\ id # 0 => id = nextId
        /\ Second(p) => id \in Id
    <3>1. /\ id \in 0 .. MaxId /\ id < nextId' /\ nextId' \in 1 .. MaxId + 1
          /\ nextId <= nextId'
          /\ r.id # 0 => id = r.id
          /\ r.id = 0 /\ p[1] = "ok" => id = nextId /\ nextId \in Id
          /\ r.id = 0 /\ p[1] # "ok" => id = 0
      <4> HIDE DEF r, full
      <4> QED
        BY <1>1, <2>1, <2>2, <2>3, Reserving
    <3>2. nextId' \in Nat
        BY <3>1, MessageServiceAssumption
    <3>3. r.id = 0 /\ id # 0 => id = nextId
        BY <3>1
    <3>4. Second(p) => id \in Id
      <4> HIDE DEF id
      <4> QED
        BY <2>2, <2>3, <3>1 DEF Id
    <3> QED
        BY <3>1, <3>2, <3>3, <3>4
  <2>5. /\ Waiting' = IF rc = "BUSY" THEN Waiting ELSE Waiting \ {"SAVE"}
        /\ \A j \in Ops \ {"SAVE"} : req'[j] = req[j]
        /\ req'["SAVE"].id = id
    <3>1. (p[1] = "ok") \in BOOLEAN
        OBVIOUS
    <3> HIDE DEF id, rc
    <3> QED
      BY <1>1, <2>1, <2>2, <2>4, <3>1, AnsweredRequests
  <2> HIDE DEF id, rc, full
  <2>6. \A i \in Id : outbox'[i] = IF Second(p) /\ i = id THEN Draft ELSE outbox[i]
      BY <1>1, <2>1
  <2>7. id # 0 => \/ Saving(id)
                  \/ /\ id = nextId /\ ~ Saving(id)
      BY <1>1, <2>3, <2>4 DEF Saving
  <2>8. \A i \in Id : Saving(i)' => i = id
      BY <2>5 DEF Saving
  <2>9. id \in Id =>
            /\ staged[id] = NoFile /\ published[id] = NoFile
            /\ outbox[id] \in {NoBody, Draft}
            /\ \A n \in Entries : queue[n].id # id
    <3>1. ASSUME id \in Id, Saving(id)
          PROVE  /\ staged[id] = NoFile /\ published[id] = NoFile
                 /\ outbox[id] \in {NoBody, Draft}
                 /\ \A n \in Entries : queue[n].id # id
        BY <3>1 DEF IInv, Apart, Arrivals, Copies
    <3>2. ASSUME id \in Id, id = nextId
          PROVE  /\ staged[id] = NoFile /\ published[id] = NoFile
                 /\ outbox[id] \in {NoBody, Draft}
                 /\ \A n \in Entries : queue[n].id # id
        BY <1>1, <3>2 DEF IInv, Drawn
    <3>3. 0 \notin Id
        BY DEF Id
    <3> QED
        BY <2>7, <3>1, <3>2, <3>3
  <2>10. Drawn'
    <3>1. \A i \in Id : i >= nextId' => i >= nextId /\ i # id
        BY <1>1, <2>4 DEF Id
    <3>2. \A i \in Id : i >= nextId' => staged'[i] = NoFile /\ published'[i] = NoFile
                                        /\ outbox'[i] = NoBody
        BY <1>3, <2>6, <3>1 DEF IInv, Drawn
    <3>3. \A n \in Entries' : queue'[n].id < nextId'
      <4>1. \A n \in Entries : queue[n].id \in Nat /\ queue[n].id < nextId
        <5>1. \A n \in Entries : queue[n] \in Item
            BY <1>1 DEF Entries
        <5> QED
            BY <5>1, MessageServiceAssumption DEF Item, IInv, Drawn
      <4> QED
          BY <1>1, <1>3, <2>4, <4>1
    <3>4. \A j \in Ops : req'[j].id < nextId'
        BY <1>1, <1>2, <2>4, <2>5, MessageServiceAssumption
    <3> QED
        BY <3>2, <3>3, <3>4 DEF Drawn
  <2>11. Apart'
    <3>1. ASSUME NEW i \in Id, outbox'[i] # NoBody \/ Saving(i)'
          PROVE  /\ staged'[i] = NoFile /\ published'[i] = NoFile
                 /\ \A n \in Arrivals' : queue'[n].id # i
      <4>1. CASE i = id
          BY <1>3, <2>9, <4>1 DEF Arrivals
      <4>2. CASE i # id
        <5>1. outbox[i] # NoBody
            BY <2>6, <2>8, <3>1, <4>2
        <5> QED
            BY <1>3, <5>1 DEF IInv, Apart
      <4> QED
          BY <4>1, <4>2
    <3>2. ASSUME NEW i \in Id, Saving(i)'
          PROVE  /\ outbox'[i] \in {NoBody, Draft}
                 /\ \A n \in Copies' : queue'[n].id # i
        BY <1>3, <2>6, <2>8, <2>9, <3>2 DEF Copies
    <3>3. ASSUME NEW i \in Id, NEW n \in Copies', queue'[n].id = i
          PROVE  /\ staged'[i] = NoFile /\ published'[i] = NoFile
                 /\ \A m \in Arrivals' : queue'[m].id # i
        BY <1>3, <3>3 DEF IInv, Apart
    <3> QED
        BY <3>1, <3>2, <3>3 DEF Apart
  <2>12. CopyOnce'
    <3>1. Draft \notin Copy
        BY MessageServiceAssumption
    <3>2. ASSUME NEW n \in Copies'
          PROVE  \A i \in Id :
                     /\ queue'[n].id = i => outbox'[i] \in {NoBody, queue'[n].body}
                     /\ outbox'[i] = queue'[n].body => queue'[n].id = i
      <4>1. /\ queue[n].body \in Copy
            /\ \A i \in Id :
                   /\ queue[n].id = i => outbox[i] \in {NoBody, queue[n].body}
                   /\ outbox[i] = queue[n].body => queue[n].id = i
          BY <1>3 DEF IInv, CopyOnce
      <4>2. id \in Id => queue[n].id # id
          BY <1>3, <2>9 DEF Copies
      <4> QED
        BY <1>3, <2>6, <3>1, <4>1, <4>2
    <3>3. SentOnce'
        BY <2>6, <3>1 DEF IInv, CopyOnce, SentOnce
    <3> QED
        BY <1>3, <3>2, <3>3 DEF IInv, CopyOnce
  <2>13. OneGroup'
      BY <1>3 DEF IInv, OneGroup
  <2> QED
      BY <2>10, <2>11, <2>12, <2>13
<1> QED
    BY <1>4, <1>5

LEMMA AppendSteps ==
    ASSUME IInv,
           \/ \E f \in Frag : Receive(f) \/ ReceiveTracked(f)
           \/ \E c \in Copy : Sent(c)
    PROVE  Drawn' /\ Apart' /\ CopyOnce' /\ OneGroup'
<1>1. queue \in Seq(Item) /\ receiptNext \in Nat /\ 0 \in 0 .. MaxId
    BY MessageServiceAssumption DEF IInv, TypeOK
<1>2. ASSUME NEW f \in Frag, NEW t \in Nat, media' = media, req' = req,
             queue' = Append(queue, Arrival(f, t))
      PROVE  Drawn' /\ Apart' /\ CopyOnce' /\ OneGroup'
  <2> DEFINE r == Arrival(f, t)
  <2>1. r \in Item /\ r.id = 0 /\ ~ r.out /\ r.body = f
      BY <1>1, <1>2 DEF Arrival, Item
  <2>2. queue' = Append(queue, r)
      BY <1>2
  <2> HIDE DEF r
  <2> QED
      BY <1>2, <2>1, <2>2, AppendKeeps
<1>3. ASSUME NEW f \in Frag, Receive(f)
      PROVE  Drawn' /\ Apart' /\ CopyOnce' /\ OneGroup'
  <2>1. media' = media /\ req' = req /\ queue' = Append(queue, Arrival(f, 0))
      BY <1>3 DEF Receive
  <2> QED
      BY <1>2, <2>1
<1>4. ASSUME NEW f \in Frag, ReceiveTracked(f)
      PROVE  Drawn' /\ Apart' /\ CopyOnce' /\ OneGroup'
  <2>1. media' = media /\ req' = req
      BY <1>4 DEF ReceiveTracked
  <2>2. CASE Control({f})
    <3>1. queue' = queue
        BY <1>4, <2>2 DEF ReceiveTracked
    <3>2. CalmFiles
        BY <2>1 DEF media, CalmFiles
    <3> QED
        BY <1>1, <2>1, <3>1, <3>2, SameQueue, SameRequests, CalmKeeps DEF Calm
  <2>3. CASE ~ Control({f})
    <3>1. queue' = Append(queue, Arrival(f, receiptNext + 1)) /\ receiptNext + 1 \in Nat
        BY <1>1, <1>4, <2>3 DEF ReceiveTracked
    <3> QED
        BY <1>2, <2>1, <3>1
  <2> QED
      BY <2>2, <2>3
<1>5. ASSUME NEW c \in Copy, Sent(c)
      PROVE  Drawn' /\ Apart' /\ CopyOnce' /\ OneGroup'
  <2> DEFINE r == [out |-> TRUE, body |-> c, id |-> 0, receipt |-> 0,
                   deferred |-> FALSE, tried |-> FALSE]
  <2>1. r \in Item /\ r.id = 0 /\ r.out /\ r.body = c /\ r.receipt = 0
      BY <1>1 DEF Item
  <2>2. media' = media /\ req' = req /\ queue' = Append(queue, r)
        /\ c \notin owed \union OnMedia
      BY <1>5 DEF Sent
  <2> HIDE DEF r
  <2> QED
      BY <2>1, <2>2, AppendKeeps
<1> QED
    BY <1>3, <1>4, <1>5

(* What a served entry is in the new queue.                                *)
Renamed(k, id, from) ==
    \A n \in Entries' :
        /\ queue'[n].out = queue[from[n]].out
        /\ queue'[n].body = queue[from[n]].body
        /\ queue'[n].receipt = queue[from[n]].receipt
        /\ queue'[n].id = IF from[n] = k THEN id ELSE queue[from[n]].id

LEMMA ServedRenamed ==
    ASSUME IInv, NEW k \in Servable, NEW id \in 0 .. MaxId, NEW rc,
           Served(From(k), id, rc)
    PROVE  \E from \in [Entries' -> Entries] :
               /\ From1to1(from) /\ Renamed(k, id, from)
               /\ rc = "OK" => \A n \in Entries' : from[n] # k
<1>1. /\ k \in 1 .. Len(queue) /\ queue \in Seq(Item) /\ k \in Entries
      /\ queue[k] \in Item
    BY Entry DEF IInv, TypeOK, Servable
<1>2. PICK from \in [Entries' -> Entries] : Tried(k, id, rc, from)
    BY <1>1, ServedEntries
<1>3. ASSUME NEW n \in Entries'
      PROVE  /\ queue'[n].out = queue[from[n]].out
             /\ queue'[n].body = queue[from[n]].body
             /\ queue'[n].receipt = queue[from[n]].receipt
             /\ queue'[n].id = IF from[n] = k THEN id ELSE queue[from[n]].id
  <2>1. CASE from[n] = k
    <3>1. queue'[n] = Requeued(queue[k], id, rc)
        BY <1>2, <2>1 DEF Tried
    <3> QED
        BY <1>1, <2>1, <3>1 DEF Requeued, Item
  <2>2. CASE from[n] # k
      BY <1>2, <2>2 DEF Tried
  <2> QED
      BY <2>1, <2>2
<1>4. Renamed(k, id, from)
    BY <1>3 DEF Renamed
<1> QED
    BY <1>2, <1>4 DEF Tried

LEMMA ArrivalKeeps ==
    ASSUME IInv, NEW k \in Servable, ~ queue[k].out, NEW id \in 0 .. MaxId,
           NEW rc, Served(From(k), id, rc), Waiting = {},
           nextId' \in Nat, id < nextId', nextId <= nextId', outbox' = outbox,
           \A i \in Id :
               \/ staged'[i] = staged[i]
               \/ i = id /\ staged'[i] \subseteq staged[i] \union {queue[k].body},
           id \in Id =>
               /\ outbox[id] = NoBody
               /\ \A n \in Copies : queue[n].id # id
               /\ \A g \in staged'[id] : GroupOf[g] = GroupOf[queue[k].body]
               /\ \A n \in Arrivals : queue[n].id = id =>
                      GroupOf[queue[n].body] = GroupOf[queue[k].body]
               /\ PartsOf[GroupOf[queue[k].body]] = 1 =>
                      /\ staged'[id] \subseteq {queue[k].body}
                      /\ \A n \in Arrivals : queue[n].id = id =>
                             queue[n].body = queue[k].body
    PROVE  Drawn' /\ Apart' /\ CopyOnce' /\ OneGroup'
<1> DEFINE body == queue[k].body
<1>1. PICK from \in [Entries' -> Entries] :
          /\ From1to1(from) /\ Renamed(k, id, from)
    BY ServedRenamed
<1>2. ASSUME NEW n \in Entries'
      PROVE  /\ from[n] \in Entries
             /\ queue'[n].out = queue[from[n]].out
             /\ queue'[n].body = queue[from[n]].body
             /\ queue'[n].receipt = queue[from[n]].receipt
             /\ queue'[n].id = IF from[n] = k THEN id ELSE queue[from[n]].id
             /\ n \in Arrivals' => from[n] \in Arrivals
             /\ n \in Copies' => from[n] \in Copies /\ from[n] # k
    BY <1>1, <1>2 DEF Renamed, Arrivals, Copies
<1>3. \A n, m \in Entries' : n # m => from[n] # from[m]
    BY <1>1 DEF From1to1
<1>4. Arrivals' \subseteq Entries' /\ Copies' \subseteq Entries' /\ k \in Arrivals
    BY Entry DEF Arrivals, Copies
<1>5. /\ published' = published /\ req' = req /\ nextId \in Nat
      /\ queue \in Seq(Item) /\ req \in [Ops -> Request]
    BY MessageServiceAssumption DEF Served, IInv, TypeOK
<1>6. \A i \in Id : ~ Saving(i) /\ ~ Saving(i)'
    BY <1>5 DEF Saving, Waiting
<1>7. \A n \in Copies' : queue'[n].id = queue[from[n]].id
    BY <1>2, <1>4
<1>8. Drawn'
  <2>1. ASSUME NEW i \in Id, i >= nextId'
        PROVE  /\ staged'[i] = NoFile
               /\ published'[i] = NoFile
               /\ outbox'[i] = NoBody
    <3>1. i >= nextId /\ i # id
        BY <1>5, <2>1 DEF Id
    <3> QED
        BY <1>5, <3>1 DEF IInv, Drawn
  <2>2. \A n \in Entries' : queue'[n].id < nextId'
    <3>1. \A n \in Entries : queue[n].id \in Nat /\ queue[n].id < nextId
      <4>1. \A n \in Entries : queue[n] \in Item
          BY <1>5 DEF Entries
      <4> QED
          BY <4>1, MessageServiceAssumption DEF Item, IInv, Drawn
    <3>2. \A n \in Entries : queue[n].id < nextId'
        BY <1>5, <3>1
    <3> QED
        BY <1>2, <3>2
  <2>3. \A j \in Ops : req'[j].id < nextId'
    <3>1. \A j \in Ops : req[j].id \in Nat /\ req[j].id < nextId
      <4>1. \A j \in Ops : req[j] \in Request
          BY <1>5
      <4> QED
          BY <4>1, MessageServiceAssumption DEF Request, IInv, Drawn
    <3> QED
        BY <1>5, <3>1
  <2> QED
      BY <2>1, <2>2, <2>3 DEF Drawn
<1>9. Apart'
  <2>1. ASSUME NEW i \in Id, outbox'[i] # NoBody
        PROVE  /\ staged'[i] = NoFile /\ published'[i] = NoFile
               /\ \A n \in Arrivals' : queue'[n].id # i
    <3>1. i # id
        BY <2>1
    <3>2. /\ staged[i] = NoFile /\ published[i] = NoFile
          /\ \A n \in Arrivals : queue[n].id # i
        BY <2>1 DEF IInv, Apart
    <3> QED
        BY <1>2, <1>4, <1>5, <3>1, <3>2
  <2>2. ASSUME NEW i \in Id, NEW n \in Copies', queue'[n].id = i
        PROVE  /\ staged'[i] = NoFile /\ published'[i] = NoFile
               /\ \A m \in Arrivals' : queue'[m].id # i
    <3>1. from[n] \in Copies /\ queue[from[n]].id = i
        BY <1>2, <1>4, <1>7, <2>2
    <3>2. i # id
        BY <3>1
    <3>3. /\ staged[i] = NoFile /\ published[i] = NoFile
          /\ \A m \in Arrivals : queue[m].id # i
        BY <3>1 DEF IInv, Apart
    <3> QED
        BY <1>2, <1>4, <1>5, <3>2, <3>3
  <2> QED
      BY <1>6, <2>1, <2>2 DEF Apart
<1>10. CopyOnce'
  <2>1. ASSUME NEW n \in Copies'
        PROVE  /\ queue'[n].body \in Copy
               /\ queue'[n].receipt = 0
               /\ \A i \in Id :
                      /\ queue'[n].id = i => outbox'[i] \in {NoBody, queue'[n].body}
                      /\ outbox'[i] = queue'[n].body => queue'[n].id = i
    <3>1. from[n] \in Copies /\ n \in Entries'
        BY <1>2, <1>4
    <3>2. /\ queue[from[n]].body \in Copy /\ queue[from[n]].receipt = 0
          /\ \A i \in Id :
                 /\ queue[from[n]].id = i => outbox[i] \in {NoBody, queue[from[n]].body}
                 /\ outbox[i] = queue[from[n]].body => queue[from[n]].id = i
        BY <3>1 DEF IInv, CopyOnce
    <3> QED
        BY <1>2, <1>7, <3>1, <3>2
  <2>2. ASSUME NEW n \in Copies', NEW m \in Copies', m # n
        PROVE  /\ queue'[m].body # queue'[n].body
               /\ queue'[n].id # 0 => queue'[m].id # queue'[n].id
    <3>1. /\ from[n] \in Copies /\ from[m] \in Copies /\ from[n] # from[m]
          /\ n \in Entries' /\ m \in Entries'
        BY <1>2, <1>3, <1>4, <2>2
    <3>2. /\ queue[from[m]].body # queue[from[n]].body
          /\ queue[from[n]].id # 0 => queue[from[m]].id # queue[from[n]].id
        BY <3>1 DEF IInv, CopyOnce
    <3> QED
        BY <1>2, <1>7, <3>1, <3>2
  <2>3. SentOnce'
      BY DEF IInv, CopyOnce, SentOnce
  <2> QED
      BY <2>1, <2>2, <2>3 DEF CopyOnce
<1>11. OneGroup'
  <2>1. ASSUME NEW i \in Id
        PROVE  /\ \A f, g \in staged'[i] : GroupOf[f] = GroupOf[g]
               /\ \A f, g \in published'[i] : GroupOf[f] = GroupOf[g]
    <3>1. \A f, g \in staged[i] : GroupOf[f] = GroupOf[g]
        BY DEF IInv, OneGroup
    <3>2. \A f, g \in published[i] : GroupOf[f] = GroupOf[g]
        BY DEF IInv, OneGroup
    <3>3. CASE i = id
        BY <1>5, <3>2, <3>3
    <3>4. CASE i # id
      <4>1. staged'[i] = staged[i]
          BY <3>4
      <4> QED
          BY <1>5, <3>1, <3>2, <4>1
    <3> QED
        BY <3>3, <3>4
  <2>2. ASSUME NEW n \in Arrivals', NEW i \in Id, queue'[n].id = i
        PROVE  /\ i = id => /\ GroupOf[queue'[n].body] = GroupOf[body]
                            /\ PartsOf[GroupOf[body]] = 1 => queue'[n].body = body
               /\ i # id => from[n] \in Arrivals /\ queue[from[n]].id = i
                            /\ queue'[n].body = queue[from[n]].body
    <3>1. from[n] \in Arrivals /\ n \in Entries'
        BY <1>2, <1>4
    <3>2. CASE from[n] = k
        BY <1>2, <2>2, <3>1, <3>2
    <3>3. CASE from[n] # k
      <4>1. queue[from[n]].id = i /\ queue'[n].body = queue[from[n]].body
          BY <1>2, <2>2, <3>1, <3>3
      <4> HIDE DEF body
      <4>2. i = id => GroupOf[queue[from[n]].body] = GroupOf[body]
          BY <3>1, <4>1 DEF body
      <4>3. i = id /\ PartsOf[GroupOf[body]] = 1 => queue[from[n]].body = body
          BY <3>1, <4>1 DEF body
      <4> QED
          BY <3>1, <4>1, <4>2, <4>3
    <3> QED
        BY <3>2, <3>3
  <2>3. ASSUME NEW n \in Arrivals', NEW i \in Id, queue'[n].id = i
        PROVE  /\ \A g \in staged'[i] : GroupOf[g] = GroupOf[queue'[n].body]
               /\ PartsOf[GroupOf[queue'[n].body]] = 1 =>
                      staged'[i] \subseteq {queue'[n].body}
    <3>1. CASE i = id
      <4>1. /\ GroupOf[queue'[n].body] = GroupOf[body]
            /\ PartsOf[GroupOf[body]] = 1 => queue'[n].body = body
          BY <2>2, <2>3, <3>1
      <4> QED
          BY <3>1, <4>1
    <3>2. CASE i # id
      <4>1. /\ from[n] \in Arrivals /\ queue[from[n]].id = i
            /\ queue'[n].body = queue[from[n]].body /\ staged'[i] = staged[i]
          BY <2>2, <2>3, <3>2
      <4>2. /\ \A g \in staged[i] : GroupOf[g] = GroupOf[queue[from[n]].body]
            /\ PartsOf[GroupOf[queue[from[n]].body]] = 1 =>
                   staged[i] \subseteq {queue[from[n]].body}
          BY <4>1 DEF IInv, OneGroup
      <4> QED
          BY <4>1, <4>2
    <3> QED
        BY <3>1, <3>2
  <2>4. ASSUME NEW n \in Arrivals', NEW m \in Arrivals', NEW i \in Id,
               queue'[n].id = i, queue'[m].id = i
        PROVE  /\ GroupOf[queue'[m].body] = GroupOf[queue'[n].body]
               /\ PartsOf[GroupOf[queue'[n].body]] = 1 =>
                      queue'[m].body = queue'[n].body
    <3>1. CASE i = id
        BY <2>2, <2>4, <3>1
    <3>2. CASE i # id
      <4>1. /\ from[n] \in Arrivals /\ queue[from[n]].id = i
            /\ queue'[n].body = queue[from[n]].body
            /\ from[m] \in Arrivals /\ queue[from[m]].id = i
            /\ queue'[m].body = queue[from[m]].body
          BY <2>2, <2>4, <3>2
      <4>2. /\ GroupOf[queue[from[m]].body] = GroupOf[queue[from[n]].body]
            /\ PartsOf[GroupOf[queue[from[n]].body]] = 1 =>
                   queue[from[m]].body = queue[from[n]].body
          BY <4>1 DEF IInv, OneGroup
      <4> QED
          BY <4>1, <4>2
    <3> QED
        BY <3>1, <3>2
  <2>5. \A n \in Arrivals' : queue'[n].body \in Frag
      BY <1>2, <1>4 DEF IInv, OneGroup
  <2> QED
      BY <2>1, <2>3, <2>4, <2>5 DEF OneGroup
<1> QED
    BY <1>8, <1>9, <1>10, <1>11

LEMMA MergeKeeps ==
    ASSUME IInv, NEW k \in Servable, NEW i \in Scanned, NEW o \in Outcomes,
           TickServeMerge(k, i, o)
    PROVE  Drawn' /\ Apart' /\ CopyOnce' /\ OneGroup'
<1> DEFINE body == queue[k].body
<1>1. /\ k \in Entries /\ queue[k] \in Item /\ Head(From(k)) = queue[k]
    BY Entry
<1>2. /\ ~ queue[k].out /\ i \in Related(body)
      /\ Merge(staged[i], body) = "ADDED"
      /\ staged' \in {staged, [staged EXCEPT ![i] = @ \union {body}]}
      /\ Served(From(k), i, Code(o)) /\ QueueTurn(o)
      /\ outbox' = outbox /\ nextId' = nextId
    BY <1>1 DEF TickServeMerge
<1>3. /\ TypeOK /\ Apart /\ OneGroup /\ Drawn /\ Rows
    BY DEF IInv
<1>4. i \in Id /\ i \in Pend /\ i \in 0 .. MaxId
    BY <1>3, RowTypes, ScannedRows, MessageServiceAssumption DEF Id
<1>5. staged[i] # NoFile
    BY <1>3, <1>4 DEF Rows
<1>6. /\ PartsOf[GroupOf[body]] # 1
      /\ \A f \in staged[i] : GroupOf[f] = GroupOf[body]
    BY <1>2 DEF Merge
<1>7. nextId \in Nat /\ i < nextId
  <2>1. nextId \in Nat
      BY <1>3, MessageServiceAssumption DEF TypeOK
  <2> QED
      BY <1>3, <1>4, <1>5, <2>1 DEF Drawn, Id
<1>8. outbox[i] = NoBody /\ \A n \in Copies : queue[n].id # i
    BY <1>3, <1>4, <1>5 DEF Apart
<1>9. \A j \in Id : \/ staged'[j] = staged[j]
                    \/ j = i /\ staged'[j] \subseteq staged[j] \union {body}
  <2>1. staged \in [Id -> File]
      BY <1>3 DEF TypeOK
  <2> QED
      BY <1>2, <1>4, <2>1
<1>10. \A g \in staged'[i] : GroupOf[g] = GroupOf[body]
    BY <1>4, <1>6, <1>9
<1>11. ASSUME NEW n \in Arrivals, queue[n].id = i
       PROVE  GroupOf[queue[n].body] = GroupOf[body]
  <2>1. PICK g : g \in staged[i]
      BY <1>5 DEF NoFile
  <2>2. GroupOf[g] = GroupOf[queue[n].body]
      BY <1>3, <1>4, <1>11, <2>1 DEF OneGroup
  <2> QED
      BY <1>6, <2>1, <2>2
<1>12. Waiting = {}
    BY <1>2 DEF QueueTurn
<1> QED
    BY <1>2, <1>4, <1>6, <1>7, <1>8, <1>9, <1>10, <1>11, <1>12, ArrivalKeeps

LEMMA StageKeeps ==
    ASSUME IInv, NEW k \in Servable, NEW p \in Pairs, TickServeStage(k, p)
    PROVE  Drawn' /\ Apart' /\ CopyOnce' /\ OneGroup'
<1> DEFINE body == queue[k].body
           id == Reserved(queue[k].id, p[1])
           rc == Code(Worst(p))
<1>1. /\ k \in Entries /\ queue[k] \in Item /\ Head(From(k)) = queue[k]
      /\ queue[k].id \in 0 .. MaxId
    BY Entry
<1>2. /\ ~ queue[k].out
      /\ ~ Exhausted(queue[k].id) /\ Reserve(queue[k].id, p[1])
      /\ staged' = IF Second(p) THEN [staged EXCEPT ![id] = {body}] ELSE staged
      /\ Served(From(k), id, rc) /\ QueueTurn(Worst(p))
      /\ outbox' = outbox
    BY <1>1 DEF TickServeStage
<1>3. p[1] \in Outcomes
    BY PairCodes
<1>4. /\ TypeOK /\ Apart /\ OneGroup /\ Drawn
    BY DEF IInv
<1>5. /\ id \in 0 .. MaxId /\ id < nextId'
      /\ nextId \in Nat /\ nextId' \in Nat /\ nextId <= nextId'
      /\ queue[k].id # 0 => id = queue[k].id
      /\ queue[k].id = 0 /\ id # 0 => id = nextId
    BY <1>2, <1>3, EntryReserved
<1>6. k \in Arrivals
    BY <1>1, <1>2 DEF Arrivals
<1>7. staged \in [Id -> File] /\ 0 \notin Id
    BY <1>4 DEF TypeOK, Id
<1> HIDE DEF id, rc
<1>8. \A j \in Id : \/ staged'[j] = staged[j]
                    \/ j = id /\ staged'[j] = {body}
    BY <1>2, <1>7
<1>9. ASSUME id \in Id, id = queue[k].id
      PROVE  /\ outbox[id] = NoBody
             /\ \A n \in Copies : queue[n].id # id
             /\ \A g \in staged'[id] : GroupOf[g] = GroupOf[body]
             /\ \A n \in Arrivals : queue[n].id = id =>
                    GroupOf[queue[n].body] = GroupOf[body]
             /\ PartsOf[GroupOf[body]] = 1 =>
                    /\ staged'[id] \subseteq {body}
                    /\ \A n \in Arrivals : queue[n].id = id => queue[n].body = body
  <2>1. /\ \A g \in staged[id] : GroupOf[g] = GroupOf[body]
        /\ PartsOf[GroupOf[body]] = 1 => staged[id] \subseteq {body}
        /\ \A n \in Arrivals : queue[n].id = id =>
               /\ GroupOf[queue[n].body] = GroupOf[body]
               /\ PartsOf[GroupOf[body]] = 1 => queue[n].body = body
      BY <1>4, <1>6, <1>9 DEF OneGroup
  <2>2. outbox[id] = NoBody /\ \A n \in Copies : queue[n].id # id
      BY <1>4, <1>6, <1>9 DEF Apart
  <2> QED
      BY <1>8, <1>9, <2>1, <2>2
<1>10. ASSUME id \in Id, id = nextId
       PROVE  /\ outbox[id] = NoBody
              /\ \A n \in Entries : queue[n].id # id
              /\ \A g \in staged'[id] : GroupOf[g] = GroupOf[body]
              /\ staged'[id] \subseteq {body}
  <2>1. staged[id] = {} /\ outbox[id] = NoBody /\ \A n \in Entries : queue[n].id < id
      BY <1>4, <1>5, <1>10 DEF Drawn, NoFile
  <2>2. staged'[id] \subseteq {body}
      BY <1>8, <1>10, <2>1
  <2>3. \A n \in Entries : queue[n].id # id
      BY <1>5, <1>10, <2>1
  <2> QED
      BY <2>1, <2>2, <2>3
<1>11. Waiting = {}
    BY <1>2 DEF QueueTurn
<1>12. id \in Id => id = queue[k].id \/ id = nextId
    BY <1>1, <1>5, <1>7
<1>13. id \in Id =>
           /\ outbox[id] = NoBody
           /\ \A n \in Copies : queue[n].id # id
           /\ \A g \in staged'[id] : GroupOf[g] = GroupOf[body]
           /\ \A n \in Arrivals : queue[n].id = id =>
                  GroupOf[queue[n].body] = GroupOf[body]
           /\ PartsOf[GroupOf[body]] = 1 =>
                  /\ staged'[id] \subseteq {body}
                  /\ \A n \in Arrivals : queue[n].id = id => queue[n].body = body
    BY <1>9, <1>10, <1>12 DEF Arrivals, Copies
<1>14. \A j \in Id : \/ staged'[j] = staged[j]
                     \/ j = id /\ staged'[j] \subseteq staged[j] \union {body}
    BY <1>8
<1> QED
    BY <1>2, <1>5, <1>11, <1>13, <1>14, ArrivalKeeps

LEMMA SentKeeps ==
    ASSUME IInv, NEW k \in Servable, NEW p \in Pairs, TickServeSent(k, p)
    PROVE  Drawn' /\ Apart' /\ CopyOnce' /\ OneGroup'
<1> DEFINE body == queue[k].body
           id == Reserved(queue[k].id, p[1])
           rc == Code(Worst(p))
<1>1. /\ k \in Entries /\ queue[k] \in Item /\ Head(From(k)) = queue[k]
      /\ queue[k].id \in 0 .. MaxId
    BY Entry
<1>2. /\ queue[k].out
      /\ ~ Exhausted(queue[k].id) /\ Reserve(queue[k].id, p[1])
      /\ outbox' = IF Second(p) THEN [outbox EXCEPT ![id] = body] ELSE outbox
      /\ Served(From(k), id, rc) /\ QueueTurn(Worst(p))
      /\ staged' = staged
    BY <1>1 DEF TickServeSent
<1>3. p[1] \in Outcomes
    BY PairCodes
<1>4. /\ TypeOK /\ Apart /\ CopyOnce /\ OneGroup /\ Drawn
    BY DEF IInv
<1>5. /\ id \in 0 .. MaxId /\ id < nextId'
      /\ nextId \in Nat /\ nextId' \in Nat /\ nextId <= nextId'
      /\ queue[k].id # 0 => id = queue[k].id
      /\ queue[k].id = 0 /\ id # 0 => id = nextId
    BY <1>2, <1>3, EntryReserved
<1>6. k \in Copies
    BY <1>1, <1>2 DEF Copies
<1>7. outbox \in [Id -> Copy \union {Draft, NoBody}] /\ 0 \notin Id
    BY <1>4 DEF TypeOK, Id
<1> HIDE DEF id, rc
<1>8. \A j \in Id : \/ outbox'[j] = outbox[j]
                    \/ j = id /\ outbox'[j] = body
    BY <1>2, <1>7
<1>9. /\ published' = published /\ req' = req /\ nextId \in Nat
      /\ queue \in Seq(Item) /\ req \in [Ops -> Request]
    BY <1>2, MessageServiceAssumption DEF Served, IInv, TypeOK
<1>10. PICK from \in [Entries' -> Entries] :
           /\ From1to1(from) /\ Renamed(k, id, from)
    BY <1>2, <1>5, ServedRenamed
<1>11. ASSUME NEW n \in Entries'
       PROVE  /\ from[n] \in Entries
              /\ queue'[n].out = queue[from[n]].out
              /\ queue'[n].body = queue[from[n]].body
              /\ queue'[n].receipt = queue[from[n]].receipt
              /\ queue'[n].id = IF from[n] = k THEN id ELSE queue[from[n]].id
              /\ n \in Arrivals' => from[n] \in Arrivals /\ from[n] # k
              /\ n \in Copies' => from[n] \in Copies
    BY <1>2, <1>10, <1>11 DEF Renamed, Arrivals, Copies
<1>12. \A n, m \in Entries' : n # m => from[n] # from[m]
    BY <1>10 DEF From1to1
<1>13. Arrivals' \subseteq Entries' /\ Copies' \subseteq Entries'
    BY DEF Arrivals, Copies
<1>14. Waiting = {}
    BY <1>2 DEF QueueTurn
<1>15. \A i \in Id : ~ Saving(i) /\ ~ Saving(i)'
    BY <1>9, <1>14 DEF Saving, Waiting
<1>16. body \in Copy /\ body # NoBody
    BY <1>4, <1>6, MessageServiceAssumption DEF CopyOnce
<1>17. id \in Id =>
           /\ staged[id] = NoFile /\ published[id] = NoFile
           /\ outbox[id] \in {NoBody, body}
           /\ \A n \in Arrivals : queue[n].id # id
           /\ \A n \in Copies : n # k => queue[n].id # id
  <2>1. ASSUME id \in Id, id = queue[k].id
        PROVE  /\ staged[id] = NoFile /\ published[id] = NoFile
               /\ outbox[id] \in {NoBody, body}
               /\ \A n \in Arrivals : queue[n].id # id
               /\ \A n \in Copies : n # k => queue[n].id # id
    <3>1. /\ staged[id] = NoFile /\ published[id] = NoFile
          /\ \A n \in Arrivals : queue[n].id # id
        BY <1>4, <1>6, <2>1 DEF Apart
    <3>2. /\ outbox[id] \in {NoBody, body}
          /\ \A n \in Copies : n # k => queue[n].id # id
        BY <1>4, <1>6, <1>7, <2>1 DEF CopyOnce
    <3> QED
        BY <3>1, <3>2
  <2>2. ASSUME id \in Id, id = nextId
        PROVE  /\ staged[id] = NoFile /\ published[id] = NoFile
               /\ outbox[id] \in {NoBody, body}
               /\ \A n \in Entries : queue[n].id # id
    <3>1. /\ staged[id] = NoFile /\ published[id] = NoFile
          /\ outbox[id] = NoBody /\ \A n \in Entries : queue[n].id < id
        BY <1>4, <1>5, <2>2 DEF Drawn
    <3> QED
        BY <1>5, <2>2, <3>1
  <2>3. id \in Id => id = queue[k].id \/ id = nextId
      BY <1>1, <1>5, <1>7
  <2> QED
      BY <2>1, <2>2, <2>3 DEF Arrivals, Copies
<1>18. \A i \in Id : outbox[i] = body => i = id
    BY <1>4, <1>5, <1>6, <1>7 DEF CopyOnce
<1>19. Drawn'
  <2>1. ASSUME NEW i \in Id, i >= nextId'
        PROVE  /\ staged'[i] = NoFile
               /\ published'[i] = NoFile
               /\ outbox'[i] = NoBody
    <3>1. i >= nextId /\ i # id
        BY <1>5, <2>1 DEF Id
    <3> QED
        BY <1>2, <1>4, <1>8, <1>9, <3>1 DEF Drawn
  <2>2. \A n \in Entries' : queue'[n].id < nextId'
    <3>1. \A n \in Entries : queue[n].id \in Nat /\ queue[n].id < nextId
      <4>1. \A n \in Entries : queue[n] \in Item
          BY <1>9 DEF Entries
      <4> QED
          BY <1>4, <4>1, MessageServiceAssumption DEF Item, Drawn
    <3>2. \A n \in Entries : queue[n].id < nextId'
        BY <1>5, <3>1
    <3> QED
        BY <1>5, <1>11, <3>2
  <2>3. \A j \in Ops : req'[j].id < nextId'
    <3>1. \A j \in Ops : req[j].id \in Nat /\ req[j].id < nextId
      <4>1. \A j \in Ops : req[j] \in Request
          BY <1>9
      <4> QED
          BY <1>4, <4>1, MessageServiceAssumption DEF Request, Drawn
    <3> QED
        BY <1>5, <1>9, <3>1
  <2> QED
      BY <2>1, <2>2, <2>3 DEF Drawn
<1>20. Apart'
  <2>1. ASSUME NEW i \in Id, outbox'[i] # NoBody
        PROVE  /\ staged'[i] = NoFile /\ published'[i] = NoFile
               /\ \A n \in Arrivals' : queue'[n].id # i
    <3>1. /\ staged[i] = NoFile /\ published[i] = NoFile
          /\ \A n \in Arrivals : queue[n].id # i
      <4>1. CASE i = id
          BY <1>17, <4>1
      <4>2. CASE i # id
          BY <1>4, <1>8, <2>1, <4>2 DEF Apart
      <4> QED
          BY <4>1, <4>2
    <3> QED
        BY <1>2, <1>9, <1>11, <1>13, <3>1
  <2>2. ASSUME NEW i \in Id, NEW n \in Copies', queue'[n].id = i
        PROVE  /\ staged'[i] = NoFile /\ published'[i] = NoFile
               /\ \A m \in Arrivals' : queue'[m].id # i
    <3>1. /\ staged[i] = NoFile /\ published[i] = NoFile
          /\ \A m \in Arrivals : queue[m].id # i
      <4>1. CASE i = id
          BY <1>17, <4>1
      <4>2. CASE i # id
        <5>1. from[n] \in Copies /\ queue[from[n]].id = i
            BY <1>11, <1>13, <2>2, <4>2
        <5> QED
            BY <1>4, <5>1 DEF Apart
      <4> QED
          BY <4>1, <4>2
    <3> QED
        BY <1>2, <1>9, <1>11, <1>13, <3>1
  <2> QED
      BY <1>15, <2>1, <2>2 DEF Apart
<1>21. CopyOnce'
  <2>1. ASSUME NEW n \in Copies'
        PROVE  /\ queue'[n].body \in Copy
               /\ queue'[n].receipt = 0
               /\ \A i \in Id :
                      /\ queue'[n].id = i => outbox'[i] \in {NoBody, queue'[n].body}
                      /\ outbox'[i] = queue'[n].body => queue'[n].id = i
    <3>1. from[n] \in Copies /\ n \in Entries'
        BY <1>11, <1>13
    <3>2. /\ queue[from[n]].body \in Copy /\ queue[from[n]].receipt = 0
          /\ \A i \in Id :
                 /\ queue[from[n]].id = i => outbox[i] \in {NoBody, queue[from[n]].body}
                 /\ outbox[i] = queue[from[n]].body => queue[from[n]].id = i
          /\ from[n] # k => queue[from[n]].body # body
        BY <1>4, <1>6, <3>1 DEF CopyOnce
    <3>3. CASE from[n] = k
      <4>1. queue'[n].body = body /\ queue'[n].id = id /\ queue'[n].receipt = 0
          BY <1>11, <3>1, <3>2, <3>3
      <4> QED
          BY <1>8, <1>16, <1>17, <1>18, <4>1
    <3>4. CASE from[n] # k
      <4>1. /\ queue'[n].body = queue[from[n]].body
            /\ queue'[n].id = queue[from[n]].id /\ queue'[n].receipt = 0
          BY <1>11, <3>1, <3>2, <3>4
      <4>2. ASSUME NEW i \in Id
            PROVE  /\ queue'[n].id = i => outbox'[i] \in {NoBody, queue'[n].body}
                   /\ outbox'[i] = queue'[n].body => queue'[n].id = i
        <5>1. CASE i = id
          <6>1. queue'[n].id # i
              BY <1>17, <3>1, <3>4, <4>1, <5>1
          <6>2. queue'[n].body # body /\ outbox[i] # queue'[n].body
              BY <3>2, <3>4, <4>1, <6>1
          <6> QED
              BY <1>8, <6>1, <6>2
        <5>2. CASE i # id
            BY <1>8, <3>2, <4>1, <5>2
        <5> QED
            BY <5>1, <5>2
      <4> QED
          BY <3>2, <4>1, <4>2
    <3> QED
        BY <3>3, <3>4
  <2>2. ASSUME NEW n \in Copies', NEW m \in Copies', m # n
        PROVE  /\ queue'[m].body # queue'[n].body
               /\ queue'[n].id # 0 => queue'[m].id # queue'[n].id
    <3>1. /\ from[n] \in Copies /\ from[m] \in Copies /\ from[n] # from[m]
          /\ n \in Entries' /\ m \in Entries'
        BY <1>11, <1>12, <1>13, <2>2
    <3>2. /\ queue[from[m]].body # queue[from[n]].body
          /\ queue[from[n]].id # 0 => queue[from[m]].id # queue[from[n]].id
        BY <1>4, <3>1 DEF CopyOnce
    <3>3. queue'[m].body # queue'[n].body
        BY <1>11, <3>1, <3>2
    <3>4. ASSUME queue'[n].id # 0 PROVE queue'[m].id # queue'[n].id
      <4>0. queue'[n].id \in Id \/ from[n] # k
          BY <1>5, <1>11, <3>1, <3>4 DEF Id
      <4>1. CASE from[n] = k
          BY <1>11, <1>17, <3>1, <4>0, <4>1
      <4>2. CASE from[m] = k
        <5>1. queue'[m].id = id /\ queue'[n].id = queue[from[n]].id
            BY <1>11, <3>1, <4>2
        <5>2. id \in Id \/ id = 0
            BY <1>5 DEF Id
        <5> QED
            BY <1>17, <3>1, <3>4, <4>2, <5>1, <5>2
      <4>3. CASE from[n] # k /\ from[m] # k
          BY <1>11, <3>1, <3>2, <3>4, <4>3
      <4> QED
          BY <4>1, <4>2, <4>3
    <3> QED
        BY <3>3, <3>4
  <2>3. SentOnce'
      BY <1>4, <1>8, <1>18 DEF CopyOnce, SentOnce
  <2> QED
      BY <2>1, <2>2, <2>3 DEF CopyOnce
<1>22. OneGroup'
  <2>1. ASSUME NEW n \in Arrivals'
        PROVE  /\ from[n] \in Arrivals /\ queue'[n].body = queue[from[n]].body
               /\ queue'[n].id = queue[from[n]].id
      BY <1>11, <1>13
  <2>2. ASSUME NEW i \in Id
        PROVE  /\ \A f, g \in staged'[i] : GroupOf[f] = GroupOf[g]
               /\ \A f, g \in published'[i] : GroupOf[f] = GroupOf[g]
      BY <1>2, <1>4, <1>9 DEF OneGroup
  <2>3. ASSUME NEW n \in Arrivals'
        PROVE  /\ queue'[n].body \in Frag
               /\ \A i \in Id : queue'[n].id = i =>
                      /\ \A g \in staged'[i] : GroupOf[g] = GroupOf[queue'[n].body]
                      /\ PartsOf[GroupOf[queue'[n].body]] = 1 =>
                             staged'[i] \subseteq {queue'[n].body}
    <3>1. from[n] \in Arrivals /\ queue'[n].body = queue[from[n]].body
          /\ queue'[n].id = queue[from[n]].id
        BY <2>1
    <3>2. /\ queue[from[n]].body \in Frag
          /\ \A i \in Id : queue[from[n]].id = i =>
                 /\ \A g \in staged[i] : GroupOf[g] = GroupOf[queue[from[n]].body]
                 /\ PartsOf[GroupOf[queue[from[n]].body]] = 1 =>
                        staged[i] \subseteq {queue[from[n]].body}
        BY <1>4, <3>1 DEF OneGroup
    <3> QED
        BY <1>2, <3>1, <3>2
  <2>4. ASSUME NEW n \in Arrivals', NEW m \in Arrivals', NEW i \in Id,
               queue'[n].id = i, queue'[m].id = i
        PROVE  /\ GroupOf[queue'[m].body] = GroupOf[queue'[n].body]
               /\ PartsOf[GroupOf[queue'[n].body]] = 1 =>
                      queue'[m].body = queue'[n].body
    <3>1. /\ from[n] \in Arrivals /\ queue'[n].body = queue[from[n]].body
          /\ queue[from[n]].id = i
          /\ from[m] \in Arrivals /\ queue'[m].body = queue[from[m]].body
          /\ queue[from[m]].id = i
        BY <2>1, <2>4
    <3>2. /\ GroupOf[queue[from[m]].body] = GroupOf[queue[from[n]].body]
          /\ PartsOf[GroupOf[queue[from[n]].body]] = 1 =>
                 queue[from[m]].body = queue[from[n]].body
        BY <1>4, <3>1 DEF OneGroup
    <3> QED
        BY <3>1, <3>2
  <2> QED
      BY <2>2, <2>3, <2>4 DEF OneGroup
<1> QED
    BY <1>19, <1>20, <1>21, <1>22

LEMMA NameStep ==
    ASSUME IInv, [Next]_vars
    PROVE  Drawn' /\ Apart' /\ CopyOnce' /\ OneGroup'
<1>1. CASE CalmStep
    BY <1>1, CalmSteps, CalmKeeps
<1>2. CASE \/ \E f \in Frag : Receive(f) \/ ReceiveTracked(f)
           \/ \E c \in Copy : Sent(c)
    BY <1>2, AppendSteps
<1>3. CASE \E p \in Pairs : TickSave(p)
    BY <1>3, SaveKeeps
<1>4. CASE \E k \in Servable :
             \/ \E i \in Scanned, o \in Outcomes : TickServeMerge(k, i, o)
             \/ \E p \in Pairs : TickServeStage(k, p) \/ TickServeSent(k, p)
    BY <1>4, MergeKeeps, StageKeeps, SentKeeps
<1> QED
    BY <1>1, <1>2, <1>3, <1>4
    DEF CalmStep, Next, Tick, TickRequest, TickQueue, Caller

(***************************************************************************)
(* The indexes.                                                            *)
LEMMA SameScan ==
    ASSUME NEW i \in Id
    PROVE  /\ /\ staged'[i] = staged[i]
              /\ <<"pending", i>> \in rotten' <=> <<"pending", i>> \in rotten
              => (i \in ScanPending' <=> i \in ScanPending)
           /\ /\ published'[i] = published[i]
              /\ <<"inbox", i>> \in rotten' <=> <<"inbox", i>> \in rotten
              => (i \in ScanInbox' <=> i \in ScanInbox)
           /\ /\ outbox'[i] = outbox[i]
              /\ <<"outbox", i>> \in rotten' <=> <<"outbox", i>> \in rotten
              => (i \in ScanOutbox' <=> i \in ScanOutbox)
BY DEF ScanPending, ScanInbox, ScanOutbox

LEMMA RowsSame ==
    ASSUME IInv, UNCHANGED <<media, index>>
    PROVE  Rows'
BY DEF IInv, Rows, media, index, Pend, Blk, In, Out, ScanPending, ScanInbox,
       ScanOutbox

LEMMA RowsFailed ==
    ASSUME NEW rc, rc # "OK", NEW p, NEW b, NEW in, NEW out, Settle(rc, p, b, in, out)
    PROVE  Rows'
BY RowsSettled

(* A tick that leaves the files alone and the indexes ready.               *)
LEMMA RowsKept ==
    ASSUME IInv, NEW rc, NEW b \in {Blk, Blk \union Skipped},
           Settle(rc, Pend, b, In, Out),
           staged' = staged, published' = published, outbox' = outbox,
           rotten' = rotten
    PROVE  Rows'
<1>1. Rows
    BY DEF IInv
<1>2. /\ ScanPending' = ScanPending /\ ScanInbox' = ScanInbox
      /\ ScanOutbox' = ScanOutbox
    BY DEF ScanPending, ScanInbox, ScanOutbox
<1>3. \A i \in b : published[i] # NoFile
    BY <1>1 DEF Rows, Skipped, Conflict
<1> QED
    BY <1>1, <1>2, <1>3, RowsSettled DEF Rows

LEMMA RequestRows ==
    ASSUME IInv, TickRequest
    PROVE  Rows'
<1>1. /\ Rows /\ TypeOK
      /\ Pend \subseteq Id /\ Blk \subseteq Id /\ In \subseteq Id /\ Out \subseteq Id
    BY RowTypes DEF IInv
<1>2. ASSUME NEW o \in Small, TickList(o)
      PROVE  Rows'
  <2>1. \E rc : Settle(rc, Pend, Blk, In, Out)
      BY <1>2 DEF TickList
  <2>2. staged' = staged /\ published' = published /\ outbox' = outbox
        /\ rotten' = rotten
      BY <1>2 DEF TickList, media
  <2> QED
      BY <2>1, <2>2, RowsKept
<1>3. ASSUME NEW o \in Small, TickRead(o)
      PROVE  Rows'
  <2>1. \E rc : Settle(rc, Pend, Blk, In, Out)
      BY <1>3 DEF TickRead
  <2>2. staged' = staged /\ published' = published /\ outbox' = outbox
        /\ rotten' = rotten
      BY <1>3 DEF TickRead
  <2> QED
      BY <2>1, <2>2, RowsKept
<1>4. ASSUME NEW p \in Pairs, TickSave(p)
      PROVE  Rows'
  <2> DEFINE r == req["SAVE"]
             full == \/ r.id \notin Out /\ Full(Out, MailboxLimit)
                     \/ Exhausted(r.id)
             id == Reserved(r.id, p[1])
             rc == IF full THEN "FULL" ELSE Code(Worst(p))
  <2>1. /\ Settle(rc, Pend, Blk, In, Out \union {id})
        /\ staged' = staged /\ published' = published
        /\ ~ full => outbox' = IF Second(p) THEN [outbox EXCEPT ![id] = Draft]
                               ELSE outbox
        /\ ~ full => rotten' = Mended("outbox", id, p)
      BY <1>4 DEF TickSave
  <2>2. rc = "OK" => ~ full /\ Second(p)
      BY PairCodes
  <2>3. rc = "OK" => id \in Id
    <3>1. ASSUME rc = "OK"
          PROVE  Reserve(r.id, p[1]) /\ ~ Exhausted(r.id) /\ p[1] = "ok"
        BY <1>4, <2>2, <3>1, PairCodes DEF TickSave
    <3>2. p[1] \in Outcomes
        BY PairCodes
    <3>3. "SAVE" \in Ops
        BY <1>4 DEF TickSave, Turn, Waiting
    <3>4. req["SAVE"] \in Request
        BY <1>1, <3>3 DEF TypeOK
    <3>5. r.id \in 0 .. MaxId /\ r.id < nextId
        BY <3>3, <3>4 DEF Request, IInv, Drawn
    <3> HIDE DEF r, rc
    <3>6. rc = "OK" => /\ r.id # 0 => Reserved(r.id, p[1]) = r.id
                       /\ r.id = 0 => Reserved(r.id, p[1]) \in Id
        BY <1>1, <3>1, <3>2, <3>5, Reserving
    <3> QED
        BY <3>5, <3>6 DEF Id
  <2> HIDE DEF id, rc, full
  <2>4. ASSUME rc = "OK"
        PROVE  /\ ScanPending' \subseteq Pend /\ ScanInbox' \subseteq In
               /\ ScanOutbox' \subseteq Out \union {id}
               /\ \A i \in Out \union {id} : outbox'[i] # NoBody
    <3>1. /\ outbox' = [outbox EXCEPT ![id] = Draft]
          /\ rotten' = rotten \ {<<"outbox", id>>} /\ id \in Id
        BY <2>1, <2>2, <2>3, <2>4 DEF Mended
    <3>2. /\ outbox'[id] = Draft /\ Draft # NoBody
          /\ \A i \in Id : i # id => outbox'[i] = outbox[i]
        BY <1>1, <3>1, MessageServiceAssumption DEF TypeOK
    <3>3. \A i \in Id : /\ i \in ScanPending' <=> i \in ScanPending
                        /\ i \in ScanInbox' <=> i \in ScanInbox
                        /\ i # id => (i \in ScanOutbox' <=> i \in ScanOutbox)
        BY <2>1, <3>1, <3>2, SameScan
    <3>4. /\ ScanPending' \subseteq Id /\ ScanInbox' \subseteq Id
          /\ ScanOutbox' \subseteq Id
        BY DEF ScanPending, ScanInbox, ScanOutbox
    <3> QED
        BY <1>1, <3>2, <3>3, <3>4 DEF Rows
  <2> QED
      BY <1>1, <2>1, <2>4, RowsSettled DEF Rows
<1>5. ASSUME NEW p \in SmallPairs, TickDelete(p)
      PROVE  Rows'
  <2> DEFINE r == req["DELETE"]
             id == r.id
             box == r.box
             known == id \in BoxIdx(box) \/ r.attempted
             rc == IF known THEN Code(Worst(p)) ELSE "ERROR"
             inn == IF box = "inbox" THEN In \ {id} ELSE In
             out == IF box = "outbox" THEN Out \ {id} ELSE Out
  <2>1. /\ Settle(rc, Pend \ {id}, Blk \ {id}, inn, out)
        /\ staged' = IF known /\ id \in Pend /\ Hit(p[1])
                     THEN [staged EXCEPT ![id] = NoFile] ELSE staged
        /\ published' = IF known /\ Second(p) /\ box = "inbox"
                        THEN [published EXCEPT ![id] = NoFile] ELSE published
        /\ outbox' = IF known /\ Second(p) /\ box = "outbox"
                     THEN [outbox EXCEPT ![id] = NoBody] ELSE outbox
        /\ rotten' = rotten \
               ((IF known /\ id \in Pend /\ Hit(p[1]) THEN {<<"pending", id>>} ELSE {})
                \union (IF known /\ Second(p) THEN {<<box, id>>} ELSE {}))
      BY <1>5 DEF TickDelete, Twin, Unstaged
  <2>2. "DELETE" \in Waiting /\ "DELETE" \in Ops
      BY <1>5 DEF TickDelete, Turn, Waiting
  <2>3. id \in Id /\ box \in {"inbox", "outbox"}
    <3>1. req["DELETE"] \in Request
        BY <1>1, <2>2 DEF TypeOK
    <3> QED
        BY <2>2, <3>1 DEF Request, Box, IInv, Begun
  <2>4. rc = "OK" => known /\ Second(p) /\ Hit(p[1])
      BY SmallPairCodes, PairCodes, Codes
  <2> HIDE DEF known, rc, id, box
  <2>5. ASSUME rc = "OK"
        PROVE  /\ \A i \in Id : i # id =>
                      staged'[i] = staged[i] /\ published'[i] = published[i]
                      /\ outbox'[i] = outbox[i]
               /\ id \in Pend => staged'[id] = NoFile
               /\ id \notin Pend => staged'[id] = staged[id]
               /\ box = "inbox" => published'[id] = NoFile /\ outbox' = outbox
               /\ box = "outbox" => outbox'[id] = NoBody /\ published' = published
               /\ \A i \in Id : /\ <<"pending", i>> \in rotten' => <<"pending", i>> \in rotten
                                /\ <<"pending", i>> \in rotten /\ ~ (i = id /\ id \in Pend) =>
                                       <<"pending", i>> \in rotten'
                                /\ i # id \/ box # "inbox" =>
                                   (<<"inbox", i>> \in rotten' <=> <<"inbox", i>> \in rotten)
                                /\ i # id \/ box # "outbox" =>
                                   (<<"outbox", i>> \in rotten' <=> <<"outbox", i>> \in rotten)
      BY <1>1, <2>1, <2>3, <2>4, <2>5 DEF TypeOK
  <2>6. ASSUME rc = "OK"
        PROVE  /\ ScanPending' \subseteq Pend \ {id}
               /\ \A i \in Pend \ {id} : staged'[i] # NoFile
    <3>1. ASSUME NEW i \in ScanPending' PROVE i \in Pend \ {id}
      <4>1. i \in Id /\ staged'[i] # NoFile
          BY <3>1 DEF ScanPending
      <4>2. CASE i = id
        <5>1. id \notin Pend /\ staged'[i] = staged[i]
            BY <2>5, <2>6, <4>1, <4>2
        <5>2. i \in ScanPending
            BY <2>5, <2>6, <3>1, <4>1, <4>2, <5>1, SameScan
        <5> QED
            BY <1>1, <4>2, <5>1, <5>2 DEF Rows
      <4>3. CASE i # id
        <5>1. i \in ScanPending
            BY <2>5, <2>6, <3>1, <4>1, <4>3, SameScan
        <5> QED
            BY <1>1, <4>3, <5>1 DEF Rows
      <4> QED
          BY <4>2, <4>3
    <3> QED
        BY <1>1, <2>5, <2>6, <3>1 DEF Rows
  <2>7. ASSUME rc = "OK"
        PROVE  /\ ScanInbox' \subseteq inn
               /\ \A i \in inn : published'[i] # NoFile
    <3>1. ASSUME NEW i \in ScanInbox' PROVE i \in inn
      <4>1. i \in Id /\ published'[i] # NoFile
          BY <3>1 DEF ScanInbox, Complete
      <4>2. i # id \/ box # "inbox"
          BY <2>5, <2>7, <4>1
      <4>3. published'[i] = published[i]
          BY <2>3, <2>5, <2>7, <4>1, <4>2
      <4>4. i \in ScanInbox
          BY <2>5, <2>7, <3>1, <4>1, <4>2, <4>3, SameScan
      <4> QED
          BY <1>1, <4>2, <4>4 DEF Rows
    <3>2. ASSUME NEW i \in inn PROVE published'[i] # NoFile
      <4>1. i \in In /\ (i # id \/ box # "inbox")
          OBVIOUS
      <4>2. published'[i] = published[i]
          BY <1>1, <2>3, <2>5, <2>7, <4>1
      <4> QED
          BY <1>1, <4>1, <4>2 DEF Rows
    <3> QED
        BY <3>1, <3>2
  <2>8. ASSUME rc = "OK"
        PROVE  /\ ScanOutbox' \subseteq out
               /\ \A i \in out : outbox'[i] # NoBody
    <3>1. ASSUME NEW i \in ScanOutbox' PROVE i \in out
      <4>1. i \in Id /\ outbox'[i] # NoBody
          BY <3>1 DEF ScanOutbox
      <4>2. i # id \/ box # "outbox"
          BY <2>5, <2>8, <4>1
      <4>3. outbox'[i] = outbox[i]
          BY <2>3, <2>5, <2>8, <4>1, <4>2
      <4>4. i \in ScanOutbox
          BY <2>5, <2>8, <3>1, <4>1, <4>2, <4>3, SameScan
      <4> QED
          BY <1>1, <4>2, <4>4 DEF Rows
    <3>2. ASSUME NEW i \in out PROVE outbox'[i] # NoBody
      <4>1. i \in Out /\ (i # id \/ box # "outbox")
          OBVIOUS
      <4>2. outbox'[i] = outbox[i]
          BY <1>1, <2>3, <2>5, <2>8, <4>1
      <4> QED
          BY <1>1, <4>1, <4>2 DEF Rows
    <3> QED
        BY <3>1, <3>2
  <2>9. ASSUME rc = "OK"
        PROVE  \A i \in Blk \ {id} : published'[i] # NoFile
      BY <1>1, <2>5, <2>9 DEF Rows
  <2> QED
    <3> HIDE DEF inn, out
    <3> QED
      BY <2>1, <2>6, <2>7, <2>8, <2>9, RowsSettled
<1> QED
    BY <1>2, <1>3, <1>4, <1>5 DEF TickRequest

LEMMA MaintenanceRows ==
    ASSUME IInv,
           \/ \E i \in Pend, w \in Wall, o \in Small : TickCleanup(w, i, o)
           \/ \E i \in Eligible \ Skipped, passed \in SUBSET Skipped,
                 p \in SmallPairs : TickPublish(i, passed, p)
           \/ \E o \in Outcomes : PowerCut(o)
           \/ \E c \in {"pending", "inbox", "outbox"}, i \in Id : Rot(c, i)
    PROVE  Rows'
<1>1. /\ Rows /\ TypeOK
      /\ Pend \subseteq Id /\ Blk \subseteq Id /\ In \subseteq Id /\ Out \subseteq Id
    BY RowTypes DEF IInv
<1>2. /\ ScanPending' \subseteq Id /\ ScanInbox' \subseteq Id
      /\ ScanOutbox' \subseteq Id
    BY DEF ScanPending, ScanInbox, ScanOutbox
<1>3. ASSUME NEW i \in Pend, NEW w \in Wall, NEW o \in Small, TickCleanup(w, i, o)
      PROVE  Rows'
  <2>1. published' = published /\ outbox' = outbox
      BY <1>3 DEF TickCleanup
  <2>2. CASE Unaged(i, w)
    <3>1. /\ Settle(Code(o), Pend, Blk, In, Out)
          /\ staged' = staged /\ rotten' = rotten
        BY <1>3, <2>2 DEF TickCleanup
    <3> QED
        BY <2>1, <3>1, RowsKept
  <2>3. CASE ~ Unaged(i, w)
    <3>1. /\ Settle(Code(o), Pend \ {i}, Blk, In, Out)
          /\ staged' = IF Hit(o) THEN Unstaged(i) ELSE staged
          /\ rotten' = IF Hit(o) THEN rotten \ {<<"pending", i>>} ELSE rotten
        BY <1>3, <2>3 DEF TickCleanup
    <3>2. Code(o) = "OK" => Hit(o)
        BY Codes DEF Small
    <3>3. ASSUME Code(o) = "OK"
          PROVE  /\ staged'[i] = NoFile
                 /\ \A j \in Id : j # i => staged'[j] = staged[j]
                 /\ \A j \in Id :
                        /\ j # i => (<<"pending", j>> \in rotten'
                                         <=> <<"pending", j>> \in rotten)
                        /\ <<"inbox", j>> \in rotten' <=> <<"inbox", j>> \in rotten
                        /\ <<"outbox", j>> \in rotten' <=> <<"outbox", j>> \in rotten
        BY <1>1, <3>1, <3>2, <3>3 DEF TypeOK, Unstaged
    <3>4. ASSUME Code(o) = "OK"
          PROVE  /\ ScanPending' \subseteq Pend \ {i}
                 /\ \A j \in Pend \ {i} : staged'[j] # NoFile
      <4>1. i \notin ScanPending'
          BY <3>3, <3>4 DEF ScanPending
      <4>2. \A j \in Id : j # i => (j \in ScanPending' <=> j \in ScanPending)
          BY <3>3, <3>4, SameScan
      <4> QED
          BY <1>1, <1>2, <3>3, <3>4, <4>1, <4>2 DEF Rows
    <3>5. ASSUME Code(o) = "OK"
          PROVE  ScanInbox' \subseteq In /\ ScanOutbox' \subseteq Out
      <4>1. \A j \in Id : /\ j \in ScanInbox' <=> j \in ScanInbox
                          /\ j \in ScanOutbox' <=> j \in ScanOutbox
          BY <2>1, <3>3, <3>5, SameScan
      <4> QED
          BY <1>1, <1>2, <4>1 DEF Rows
    <3> QED
        BY <1>1, <2>1, <3>1, <3>4, <3>5, RowsSettled DEF Rows
  <2> QED
      BY <2>2, <2>3
<1>4. ASSUME NEW i \in Eligible \ Skipped, NEW passed \in SUBSET Skipped,
             NEW p \in SmallPairs, TickPublish(i, passed, p)
      PROVE  Rows'
  <2> DEFINE forced == \/ <<"pending", i>> \in rotten
                       \/ i \in In /\ published[i] = NoFile
             filter == published[i] = NoFile /\ Control(staged[i])
             fresh  == published[i] = NoFile /\ ~ Control(staged[i])
             rc     == IF forced THEN "ERROR" ELSE Code(Worst(p))
             in     == IF filter THEN In ELSE In \union {i}
  <2>1. /\ published' = IF (~ forced /\ fresh /\ Hit(p[1]))
                        THEN [published EXCEPT ![i] = staged[i]] ELSE published
        /\ staged' = IF ~ forced /\ Second(p) THEN Unstaged(i) ELSE staged
        /\ Settle(rc, Pend \ {i}, Blk \union passed, in, Out)
        /\ outbox' = outbox /\ rotten' = rotten
      BY <1>4 DEF TickPublish
  <2>2. i \in Id /\ i \in Pend /\ staged[i] # NoFile
      BY <1>1 DEF Eligible, Rows
  <2>3. rc = "OK" => ~ forced /\ Second(p) /\ Hit(p[1])
      BY SmallPairCodes, PairCodes, Codes
  <2> HIDE DEF rc
  <2>4. ASSUME rc = "OK"
        PROVE  /\ staged'[i] = NoFile
               /\ \A j \in Id : j # i => /\ staged'[j] = staged[j]
                                         /\ published'[j] = published[j]
               /\ ~ filter => published'[i] # NoFile
               /\ \A j \in Id : published[j] # NoFile => published'[j] # NoFile
               /\ filter => published' = published
    <3>1. staged'[i] = NoFile /\ \A j \in Id : j # i => staged'[j] = staged[j]
        BY <1>1, <2>1, <2>2, <2>3, <2>4 DEF TypeOK, Unstaged
    <3>2. CASE fresh
      <4>1. published' = [published EXCEPT ![i] = staged[i]]
          BY <2>1, <2>3, <2>4, <3>2
      <4>2. /\ published'[i] = staged[i]
            /\ \A j \in Id : j # i => published'[j] = published[j]
          BY <1>1, <2>2, <4>1 DEF TypeOK
      <4> QED
          BY <2>2, <3>1, <3>2, <4>2
    <3>3. CASE ~ fresh
      <4>1. published' = published
          BY <2>1, <3>3
      <4> QED
          BY <2>2, <3>1, <3>3, <4>1
    <3> QED
        BY <3>2, <3>3
  <2> HIDE DEF filter
  <2>5. ASSUME rc = "OK"
        PROVE  /\ ScanPending' \subseteq Pend \ {i}
               /\ \A j \in Pend \ {i} : staged'[j] # NoFile
    <3>1. i \notin ScanPending'
        BY <2>4, <2>5 DEF ScanPending
    <3>2. \A j \in Id : j # i => (j \in ScanPending' <=> j \in ScanPending)
        BY <2>1, <2>4, <2>5, SameScan
    <3> QED
        BY <1>1, <1>2, <2>4, <2>5, <3>1, <3>2 DEF Rows
  <2>6. ASSUME rc = "OK"
        PROVE  ScanInbox' \subseteq in /\ ScanOutbox' \subseteq Out
    <3>1. \A j \in Id : /\ j # i => (j \in ScanInbox' <=> j \in ScanInbox)
                        /\ filter => (j \in ScanInbox' <=> j \in ScanInbox)
                        /\ j \in ScanOutbox' <=> j \in ScanOutbox
        BY <2>1, <2>4, <2>6, SameScan
    <3> QED
        BY <1>1, <1>2, <3>1 DEF Rows
  <2>7. ASSUME rc = "OK"
        PROVE  /\ \A j \in in : published'[j] # NoFile
               /\ \A j \in Blk \union passed : published'[j] # NoFile
    <3>1. \A j \in passed : j \in Id /\ published[j] # NoFile
        BY <1>1 DEF Skipped, Eligible, Conflict
    <3> QED
        BY <1>1, <2>4, <2>7, <3>1 DEF Rows
  <2> HIDE DEF in
  <2> QED
      BY <1>1, <2>1, <2>5, <2>6, <2>7, RowsSettled DEF Rows
<1>5. ASSUME NEW o \in Outcomes, PowerCut(o)
      PROVE  Rows'
  <2>1. /\ ScanPending' = ScanPending /\ ScanInbox' = ScanInbox
        /\ ScanOutbox' = ScanOutbox
      BY <1>5 DEF PowerCut, media, ScanPending, ScanInbox, ScanOutbox
  <2>2. /\ Pend' = ScanPending' /\ In' = ScanInbox' /\ Out' = ScanOutbox' /\ Blk' = {}
      BY <1>5, <2>1 DEF PowerCut, Pend, In, Out, Blk
  <2> QED
      BY <2>2 DEF Rows, ScanPending, ScanInbox, ScanOutbox, Complete
<1>6. ASSUME NEW c \in {"pending", "inbox", "outbox"}, NEW i \in Id, Rot(c, i)
      PROVE  Rows'
  <2>1. /\ staged' = staged /\ published' = published /\ outbox' = outbox
        /\ rotten \subseteq rotten' /\ UNCHANGED index
      BY <1>6 DEF Rot
  <2>2. /\ ScanPending' \subseteq ScanPending
        /\ ScanInbox' \subseteq ScanInbox
        /\ ScanOutbox' \subseteq ScanOutbox
      BY <2>1 DEF ScanPending, ScanInbox, ScanOutbox
  <2>3. /\ Pend' \in {Pend, ScanPending'} /\ In' \in {In, ScanInbox'}
        /\ Out' \in {Out, ScanOutbox'} /\ Blk' = Blk
      BY <2>1 DEF index, Pend, Blk, In, Out
  <2>4. /\ \A j \in ScanPending' : staged'[j] # NoFile
        /\ \A j \in ScanInbox' : published'[j] # NoFile
        /\ \A j \in ScanOutbox' : outbox'[j] # NoBody
      BY DEF ScanPending, ScanInbox, ScanOutbox, Complete
  <2> QED
      BY <1>1, <2>1, <2>2, <2>3, <2>4 DEF Rows
<1> QED
    BY <1>3, <1>4, <1>5, <1>6

LEMMA QueueRows ==
    ASSUME IInv, TickQueue
    PROVE  Rows'
<1>1. /\ Rows /\ TypeOK
      /\ Pend \subseteq Id /\ Blk \subseteq Id /\ In \subseteq Id /\ Out \subseteq Id
    BY RowTypes DEF IInv
<1>2. /\ ScanPending' \subseteq Id /\ ScanInbox' \subseteq Id
      /\ ScanOutbox' \subseteq Id
    BY DEF ScanPending, ScanInbox, ScanOutbox
<1>3. \A i \in Blk \union Skipped : published[i] # NoFile
    BY <1>1 DEF Rows, Skipped, Conflict
<1>4. CASE TickIdle
  <2>1. Settle("OK", Pend, Blk \union Skipped, In, Out) /\ UNCHANGED media
      BY <1>4 DEF TickIdle
  <2> QED
      BY <2>1, RowsKept DEF media
<1>5. ASSUME NEW k \in Servable, TickServeKnown(k)
      PROVE  Rows'
  <2>1. /\ Settle("OK", Pend, Blk \union Skipped, In, Out) /\ published' = published
        /\ staged' = staged /\ outbox' = outbox /\ rotten' = rotten
      BY <1>5 DEF TickServeKnown, Served
  <2> QED
      BY <2>1, RowsKept
<1>6. ASSUME NEW k \in Servable, NEW o \in Outcomes, TickServeUnread(k, o)
      PROVE  Rows'
  <2>1. o # "ok" => Code(o) # "OK"
      BY Codes
  <2>2. \E rc : rc # "OK" /\ Settle(rc, {}, {}, {}, {})
      BY <1>6, <2>1 DEF TickServeUnread, Fail
  <2> QED
      BY <2>2, RowsFailed
<1>7. ASSUME NEW k \in Servable, TickServeFull(k)
      PROVE  Rows'
  <2>1. Settle("FULL", {}, {}, {}, {})
      BY <1>7 DEF TickServeFull, Fail
  <2> QED
      BY <2>1, RowsFailed
<1>8. ASSUME NEW k \in Servable, NEW i \in Scanned, NEW o \in Outcomes,
             TickServeMerge(k, i, o)
      PROVE  Rows'
  <2> DEFINE body == Head(From(k)).body
  <2>1. /\ Settle(Code(o), Pend, Blk \union Skipped, In, Out)
        /\ staged' \in {staged, [staged EXCEPT ![i] = @ \union {body}]}
        /\ published' = published /\ outbox' = outbox /\ rotten' = rotten
      BY <1>8 DEF TickServeMerge, Served
  <2>2. i \in Pend
      BY <1>1, ScannedRows
  <2> HIDE DEF body
  <2>3. /\ \A j \in Id : j # i => staged'[j] = staged[j]
        /\ \A j \in Id : staged[j] # NoFile => staged'[j] # NoFile
      BY <1>1, <2>1, <2>2 DEF TypeOK, NoFile
  <2>4. \A j \in Id : /\ j # i => (j \in ScanPending' <=> j \in ScanPending)
                      /\ j \in ScanInbox' <=> j \in ScanInbox
                      /\ j \in ScanOutbox' <=> j \in ScanOutbox
      BY <2>1, <2>3, SameScan
  <2>5. ScanPending' \subseteq Pend /\ ScanInbox' \subseteq In /\ ScanOutbox' \subseteq Out
      BY <1>1, <1>2, <2>2, <2>4 DEF Rows
  <2> QED
      BY <1>1, <1>3, <2>1, <2>3, <2>5, RowsSettled DEF Rows
<1>9. ASSUME NEW k \in Servable, NEW p \in Pairs, TickServeStage(k, p)
      PROVE  Rows'
  <2> DEFINE body == Head(From(k)).body
             id == Reserved(Head(From(k)).id, p[1])
             rc == Code(Worst(p))
  <2>1. /\ Settle(rc, Pend \union {id}, Blk \union Skipped, In, Out)
        /\ staged' = IF Second(p) THEN [staged EXCEPT ![id] = {body}] ELSE staged
        /\ published' = published /\ outbox' = outbox
        /\ rotten' = Mended("pending", id, p)
        /\ ~ Exhausted(Head(From(k)).id) /\ Reserve(Head(From(k)).id, p[1])
      BY <1>9 DEF TickServeStage, Served
  <2>2. rc = "OK" => Second(p) /\ p[1] = "ok" /\ p[1] \in Outcomes
      BY PairCodes
  <2>3. Head(From(k)) = queue[k] /\ queue[k].id \in 0 .. MaxId
      BY Entry
  <2>4. rc = "OK" => id \in Id
    <3>1. rc = "OK" => id # 0 /\ id \in 0 .. MaxId
        BY <2>1, <2>2, <2>3, EntryReserved
    <3> QED
        BY <2>3, <3>1, MessageServiceAssumption DEF Id
  <2> HIDE DEF body, id, rc
  <2>5. ASSUME rc = "OK"
        PROVE  /\ staged'[id] # NoFile
               /\ \A j \in Id : j # id => staged'[j] = staged[j]
               /\ \A j \in Id :
                      /\ j # id => (<<"pending", j>> \in rotten'
                                        <=> <<"pending", j>> \in rotten)
                      /\ <<"inbox", j>> \in rotten' <=> <<"inbox", j>> \in rotten
                      /\ <<"outbox", j>> \in rotten' <=> <<"outbox", j>> \in rotten
      BY <1>1, <2>1, <2>2, <2>4, <2>5 DEF TypeOK, Mended, NoFile
  <2>6. ASSUME rc = "OK"
        PROVE  /\ ScanPending' \subseteq Pend \union {id}
               /\ ScanInbox' \subseteq In /\ ScanOutbox' \subseteq Out
    <3>1. \A j \in Id : /\ j # id => (j \in ScanPending' <=> j \in ScanPending)
                        /\ j \in ScanInbox' <=> j \in ScanInbox
                        /\ j \in ScanOutbox' <=> j \in ScanOutbox
        BY <2>1, <2>5, <2>6, SameScan
    <3> QED
        BY <1>1, <1>2, <3>1 DEF Rows
  <2>7. rc = "OK" => \A j \in Pend \union {id} : staged'[j] # NoFile
      BY <1>1, <2>5 DEF Rows
  <2> QED
      BY <1>1, <1>3, <2>1, <2>6, <2>7, RowsSettled DEF Rows
<1>10. ASSUME NEW k \in Servable, NEW p \in Pairs, TickServeSent(k, p)
       PROVE  Rows'
  <2> DEFINE body == Head(From(k)).body
             id == Reserved(Head(From(k)).id, p[1])
             rc == Code(Worst(p))
  <2>1. /\ Settle(rc, Pend, Blk \union Skipped, In, Out \union {id})
        /\ outbox' = IF Second(p) THEN [outbox EXCEPT ![id] = body] ELSE outbox
        /\ published' = published /\ staged' = staged
        /\ rotten' = Mended("outbox", id, p)
        /\ ~ Exhausted(Head(From(k)).id) /\ Reserve(Head(From(k)).id, p[1])
        /\ Head(From(k)).out
      BY <1>10 DEF TickServeSent, Served
  <2>2. rc = "OK" => Second(p) /\ p[1] = "ok" /\ p[1] \in Outcomes
      BY PairCodes
  <2>3. Head(From(k)) = queue[k] /\ queue[k].id \in 0 .. MaxId /\ k \in Entries
      BY Entry
  <2>4. rc = "OK" => id \in Id
    <3>1. rc = "OK" => id # 0 /\ id \in 0 .. MaxId
        BY <2>1, <2>2, <2>3, EntryReserved
    <3> QED
        BY <2>3, <3>1, MessageServiceAssumption DEF Id
  <2>5. body # NoBody
      BY <2>1, <2>3, MessageServiceAssumption DEF IInv, CopyOnce, Copies
  <2> HIDE DEF body, id, rc
  <2>6. ASSUME rc = "OK"
        PROVE  /\ outbox'[id] # NoBody
               /\ \A j \in Id : j # id => outbox'[j] = outbox[j]
               /\ \A j \in Id :
                      /\ j # id => (<<"outbox", j>> \in rotten'
                                        <=> <<"outbox", j>> \in rotten)
                      /\ <<"inbox", j>> \in rotten' <=> <<"inbox", j>> \in rotten
                      /\ <<"pending", j>> \in rotten' <=> <<"pending", j>> \in rotten
      BY <1>1, <2>1, <2>2, <2>4, <2>5, <2>6 DEF TypeOK, Mended
  <2>7. ASSUME rc = "OK"
        PROVE  /\ ScanOutbox' \subseteq Out \union {id}
               /\ ScanInbox' \subseteq In /\ ScanPending' \subseteq Pend
    <3>1. \A j \in Id : /\ j # id => (j \in ScanOutbox' <=> j \in ScanOutbox)
                        /\ j \in ScanInbox' <=> j \in ScanInbox
                        /\ j \in ScanPending' <=> j \in ScanPending
        BY <2>1, <2>6, <2>7, SameScan
    <3> QED
        BY <1>1, <1>2, <3>1 DEF Rows
  <2>8. rc = "OK" => \A j \in Out \union {id} : outbox'[j] # NoBody
      BY <1>1, <2>6 DEF Rows
  <2> QED
      BY <1>1, <1>3, <2>1, <2>7, <2>8, RowsSettled DEF Rows
<1> QED
    BY <1>4, <1>5, <1>6, <1>7, <1>8, <1>9, <1>10 DEF TickQueue

LEMMA RowsStep ==
    ASSUME IInv, [Next]_vars
    PROVE  Rows'
<1>1. CASE Caller \/ UNCHANGED vars
  <2>1. UNCHANGED <<media, index>>
      BY <1>1 DEF Caller, Receive, ReceiveTracked, ReceiptForget, Sent, Ask,
                  PopResult, vars
  <2> QED
      BY <2>1, RowsSame
<1>2. ASSUME NEW o \in Outcomes, TickReloadFailed(o)
      PROVE  Rows'
  <2>1. Settle(Code(o), {}, {}, {}, {}) /\ o # "ok"
      BY <1>2 DEF TickReloadFailed, Fail
  <2> QED
      BY <2>1, Codes, RowsFailed
<1>3. CASE TickRequest
    BY <1>3, RequestRows
<1>4. CASE TickQueue
    BY <1>4, QueueRows
<1> QED
    BY <1>1, <1>2, <1>3, <1>4, MaintenanceRows DEF Next, Tick

(***************************************************************************)
(* The shelf.                                                              *)
LEMMA ShelvedCalm ==
    ASSUME IInv, stray' = stray, published' = published,
           \A i \in Id : staged'[i] = staged[i] \/ staged'[i] = NoFile,
           \A i \in Id : <<"inbox", i>> \in rotten' =>
               <<"inbox", i>> \in rotten \/ published[i] # NoFile
    PROVE  Shelved'
BY DEF IInv, Shelved, NoFile

LEMMA ShelvedDelete ==
    ASSUME IInv, NEW p \in SmallPairs, TickDelete(p)
    PROVE  Shelved'
<1> DEFINE id == req["DELETE"].id
           box == req["DELETE"].box
           known == id \in BoxIdx(box) \/ req["DELETE"].attempted
<1>1. TypeOK /\ Shelved /\ Begun
    BY DEF IInv
<1>2. "DELETE" \in Waiting
    BY DEF TickDelete, Turn
<1>3. id \in Id
    BY <1>1, <1>2 DEF Begun
<1>4. /\ staged' \in {staged, Unstaged(id)} /\ stray' = stray
      /\ published' = IF known /\ Second(p) /\ box = "inbox"
                      THEN [published EXCEPT ![id] = NoFile] ELSE published
      /\ rotten' \subseteq rotten
      /\ known /\ Second(p) => <<box, id>> \notin rotten'
    BY DEF TickDelete
<1> HIDE DEF id, box, known
<1>5. /\ \A i \in Id : staged'[i] = staged[i] \/ staged'[i] = NoFile
      /\ \A i \in Id : /\ published'[i] = published[i] \/ published'[i] = NoFile
                       /\ published'[i] # published[i] =>
                              <<"inbox", i>> \notin rotten'
    BY <1>1, <1>3, <1>4 DEF TypeOK, Unstaged
<1>6. ASSUME NEW i \in Id, published'[i] # NoFile
      PROVE  /\ Complete(published'[i])
             /\ staged'[i] \subseteq published'[i] \union stray'
  <2>1. published'[i] = published[i]
      BY <1>5, <1>6
  <2>2. Complete(published[i]) /\ staged[i] \subseteq published[i] \union stray
      BY <1>1, <1>6, <2>1 DEF Shelved
  <2> QED
      BY <1>4, <1>5, <2>1, <2>2 DEF NoFile
<1>7. ASSUME NEW i \in Id, <<"inbox", i>> \in rotten'
      PROVE  published'[i] # NoFile
    BY <1>1, <1>4, <1>5, <1>7 DEF Shelved
<1> QED
    BY <1>6, <1>7 DEF Shelved

LEMMA ShelvedPublish ==
    ASSUME IInv, NEW i \in Eligible \ Skipped, NEW passed \in SUBSET Skipped,
           NEW p \in SmallPairs, TickPublish(i, passed, p)
    PROVE  Shelved'
<1>1. TypeOK /\ Shelved
    BY DEF IInv
<1>2. i \in Id /\ Complete(staged[i])
    BY <1>1, RowTypes DEF Eligible
<1>3. /\ \/ published' = published
         \/ published[i] = NoFile /\ published' = [published EXCEPT ![i] = staged[i]]
      /\ staged' \in {staged, Unstaged(i)} /\ stray' = stray /\ rotten' = rotten
  <2> DEFINE forced == \/ <<"pending", i>> \in rotten
                       \/ i \in In /\ published[i] = NoFile
             fresh  == published[i] = NoFile /\ ~ Control(staged[i])
  <2>0. published' = IF (~ forced /\ fresh /\ Hit(p[1]))
                     THEN [published EXCEPT ![i] = staged[i]] ELSE published
      BY DEF TickPublish
  <2>1. \/ published' = published
        \/ published[i] = NoFile /\ published' = [published EXCEPT ![i] = staged[i]]
      BY <2>0
  <2>2. staged' \in {staged, Unstaged(i)}
      BY DEF TickPublish
  <2>3. stray' = stray /\ rotten' = rotten
      BY DEF TickPublish
  <2> QED
      BY <2>1, <2>2, <2>3
<1>4. /\ \A j \in Id : staged'[j] = staged[j] \/ staged'[j] = NoFile
      /\ \A j \in Id : j # i => published'[j] = published[j]
      /\ \/ published'[i] = published[i]
         \/ published[i] = NoFile /\ published'[i] = staged[i]
    BY <1>1, <1>2, <1>3 DEF TypeOK, Unstaged
<1>5. ASSUME NEW j \in Id, published'[j] # NoFile
      PROVE  /\ Complete(published'[j])
             /\ staged'[j] \subseteq published'[j] \union stray'
  <2>1. CASE published'[j] = published[j]
      BY <1>1, <1>3, <1>4, <1>5, <2>1 DEF Shelved, NoFile
  <2>2. CASE published'[j] # published[j]
    <3>1. j = i /\ published'[j] = staged[j]
        BY <1>4, <2>2
    <3> QED
        BY <1>2, <1>4, <3>1 DEF NoFile
  <2> QED
      BY <2>1, <2>2
<1>6. ASSUME NEW j \in Id, <<"inbox", j>> \in rotten'
      PROVE  published'[j] # NoFile
  <2>1. published[j] # NoFile
      BY <1>1, <1>3, <1>6 DEF Shelved
  <2> QED
      BY <1>4, <2>1
<1> QED
    BY <1>5, <1>6 DEF Shelved

(* A part that is staged under a published message's identifier is stray.  *)
LEMMA ShelvedStage ==
    ASSUME IInv, NEW id, NEW body, NEW written \in BOOLEAN,
           \A i \in Id : \/ staged'[i] = staged[i]
                         \/ /\ i = id /\ written
                            /\ staged'[i] \subseteq staged[i] \union {body},
           Strays(written, id, body), published' = published,
           rotten' \subseteq rotten
    PROVE  Shelved'
<1>1. Shelved
    BY DEF IInv
<1>2. ASSUME NEW i \in Id, published'[i] # NoFile
      PROVE  /\ Complete(published'[i])
             /\ staged'[i] \subseteq published'[i] \union stray'
  <2>1. Complete(published[i]) /\ staged[i] \subseteq published[i] \union stray
      BY <1>1, <1>2 DEF Shelved
  <2>2. CASE staged'[i] = staged[i]
      BY <2>1, <2>2 DEF Strays
  <2>3. CASE staged'[i] # staged[i]
    <3>1. i = id /\ written /\ staged'[i] \subseteq staged[i] \union {body}
        BY <2>3
    <3>2. stray' = stray \union {body}
        BY <1>2, <3>1 DEF Strays
    <3> QED
        BY <2>1, <3>1, <3>2
  <2> QED
      BY <2>2, <2>3
<1> QED
    BY <1>1, <1>2 DEF Shelved

LEMMA ShelvedStep ==
    ASSUME IInv, [Next]_vars
    PROVE  Shelved'
<1>1. TypeOK /\ \A o : Hit(o) \in BOOLEAN
    BY DEF IInv, Hit
<1>2. CASE \/ Caller \/ UNCHANGED vars \/ TickIdle
           \/ \E o \in Outcomes : TickReloadFailed(o) \/ PowerCut(o)
           \/ \E o \in Small : TickList(o) \/ TickRead(o)
  <2>1. UNCHANGED <<staged, published, rotten, stray>>
      BY <1>2 DEF Caller, Receive, ReceiveTracked, ReceiptForget, Sent, Ask,
                  PopResult, TickIdle, TickReloadFailed, PowerCut, TickList,
                  TickRead, vars, media
  <2> QED
      BY <2>1, ShelvedCalm
<1>3. CASE \/ \E p \in Pairs : TickSave(p)
           \/ \E k \in Servable : \/ TickServeKnown(k) \/ TickServeFull(k)
                                  \/ \E o \in Outcomes : TickServeUnread(k, o)
                                  \/ \E p \in Pairs : TickServeSent(k, p)
  <2>1. UNCHANGED <<staged, published, stray>> /\ rotten' \subseteq rotten
      BY <1>3 DEF TickSave, TickServeKnown, TickServeFull, TickServeUnread,
                  TickServeSent, Served, Mended
  <2> QED
      BY <2>1, ShelvedCalm
<1>4. ASSUME NEW i \in Pend, NEW w \in Wall, NEW o \in Small, TickCleanup(w, i, o)
      PROVE  Shelved'
  <2>1. /\ staged' \in {staged, Unstaged(i)} /\ rotten' \subseteq rotten
        /\ published' = published /\ stray' = stray
      BY <1>4 DEF TickCleanup
  <2>2. \A j \in Id : staged'[j] = staged[j] \/ staged'[j] = NoFile
      BY <1>1, <2>1 DEF TypeOK, Unstaged
  <2> QED
      BY <2>1, <2>2, ShelvedCalm
<1>5. ASSUME NEW k \in Servable, NEW i \in Scanned, NEW o \in Outcomes,
             TickServeMerge(k, i, o)
      PROVE  Shelved'
  <2> DEFINE body == Head(From(k)).body
  <2>1. /\ staged' = IF Hit(o) THEN [staged EXCEPT ![i] = @ \union {body}] ELSE staged
        /\ Strays(Hit(o), i, body) /\ published' = published /\ rotten' = rotten
      BY <1>5 DEF TickServeMerge, Served
  <2> HIDE DEF body
  <2>2. \A j \in Id : \/ staged'[j] = staged[j]
                      \/ /\ j = i /\ Hit(o)
                         /\ staged'[j] \subseteq staged[j] \union {body}
      BY <1>1, <2>1 DEF TypeOK
  <2> QED
      BY <1>1, <2>1, <2>2, ShelvedStage
<1>6. ASSUME NEW k \in Servable, NEW p \in Pairs, TickServeStage(k, p)
      PROVE  Shelved'
  <2> DEFINE body == Head(From(k)).body
             id == Reserved(Head(From(k)).id, p[1])
  <2>1. /\ staged' = IF Second(p) THEN [staged EXCEPT ![id] = {body}] ELSE staged
        /\ Strays(Second(p), id, body) /\ published' = published
        /\ rotten' \subseteq rotten
      BY <1>6 DEF TickServeStage, Served, Mended
  <2> HIDE DEF body, id
  <2>2. \A j \in Id : \/ staged'[j] = staged[j]
                      \/ /\ j = id /\ Second(p)
                         /\ staged'[j] \subseteq staged[j] \union {body}
      BY <1>1, <2>1 DEF TypeOK
  <2>3. Second(p) \in BOOLEAN
      BY DEF Second
  <2> QED
      BY <2>1, <2>2, <2>3, ShelvedStage
<1>7. ASSUME NEW c \in {"pending", "inbox", "outbox"}, NEW i \in Id, Rot(c, i)
      PROVE  Shelved'
  <2>1. /\ UNCHANGED <<staged, published, stray>>
        /\ rotten' = rotten \union {<<c, i>>}
        /\ c = "inbox" => published[i] # NoFile
      BY <1>7 DEF Rot
  <2> QED
      BY <2>1, ShelvedCalm
<1> QED
    BY <1>2, <1>3, <1>4, <1>5, <1>6, <1>7, ShelvedDelete, ShelvedPublish
    DEF Next, Tick, TickRequest, TickQueue

(***************************************************************************)
(* The request to delete.                                                  *)
LEMMA BegunIdle ==
    ASSUME IInv, Waiting = {}, req' = req
    PROVE  Begun'
BY SameRequests DEF Begun

LEMMA BegunKept ==
    ASSUME IInv,
           "DELETE" \in Waiting' =>
               /\ "DELETE" \in Waiting /\ req'["DELETE"].id = req["DELETE"].id
               /\ req'["DELETE"].attempted = req["DELETE"].attempted,
           Pend' \subseteq Pend
    PROVE  Begun'
BY DEF IInv, Begun

LEMMA PendKept ==
    ASSUME IInv, UNCHANGED staged, rotten \subseteq rotten',
           \/ UNCHANGED <<ready, pendIdx>>
           \/ \E rc, b, in, out : Settle(rc, Pend, b, in, out)
           \/ \E rc, p, b, in, out : Settle(rc, p, b, in, out) /\ rc # "OK"
    PROVE  Pend' \subseteq Pend
<1>1. ScanPending \subseteq Pend
    BY DEF IInv, Rows
<1>2. ScanPending' \subseteq ScanPending
    BY DEF ScanPending
<1>3. CASE UNCHANGED <<ready, pendIdx>>
    BY <1>2, <1>3 DEF Pend
<1>4. ASSUME NEW rc, NEW p, NEW b, NEW in, NEW out, Settle(rc, p, b, in, out),
             p = Pend \/ rc # "OK"
      PROVE  Pend' \subseteq Pend
    BY <1>1, <1>2, <1>4, Settled
<1> QED
    BY <1>3, <1>4

LEMMA BegunDelete ==
    ASSUME IInv, NEW p \in SmallPairs, TickDelete(p)
    PROVE  Begun'
<1> DEFINE r == req["DELETE"]
           id == r.id
           known == id \in BoxIdx(r.box) \/ r.attempted
           rc == IF known THEN Code(Worst(p)) ELSE "ERROR"
           att == r.attempted \/ (known /\ p[1] = "ok")
<1>1. TypeOK /\ Rows /\ Begun
    BY DEF IInv
<1>2. "DELETE" \in Waiting /\ "DELETE" \in Ops
    BY DEF TickDelete, Turn, Waiting
<1>3. /\ id \in Id /\ id \in 0 .. MaxId /\ r.attempted \in BOOLEAN
      /\ (r.attempted => id \notin Pend)
  <2>1. req["DELETE"] \in Request
      BY <1>1, <1>2 DEF TypeOK
  <2> QED
      BY <1>1, <1>2, <2>1 DEF Request, Begun
<1>4. rc \in Results /\ att \in BOOLEAN
    BY <1>3, SmallPairCodes, PairCodes DEF Results
<1>5. \E in, out : Settle(rc, Pend \ {id}, Blk \ {id}, in, out)
    BY DEF TickDelete
<1>6. req' = Answered("DELETE", rc, id, att)
    BY DEF TickDelete
<1>7. /\ staged' = IF known /\ id \in Pend /\ Hit(p[1]) THEN Unstaged(id) ELSE staged
      /\ <<"pending", id>> \in rotten /\ id \notin Pend =>
             <<"pending", id>> \in rotten'
  <2>1. r.box \in {"inbox", "outbox"}
    <3>1. req["DELETE"] \in Request
        BY <1>1, <1>2 DEF TypeOK
    <3> QED
        BY <3>1 DEF Request, Box
  <2>2. staged' = IF known /\ id \in Pend /\ Hit(p[1]) THEN Unstaged(id) ELSE staged
      BY DEF TickDelete, Twin
  <2>3. rotten' = rotten \ ((IF known /\ id \in Pend /\ Hit(p[1])
                             THEN {<<"pending", id>>} ELSE {})
                            \union (IF known /\ Second(p) THEN {<<r.box, id>>} ELSE {}))
      BY DEF TickDelete, Twin
  <2> HIDE DEF id, known, r
  <2> QED
      BY <2>1, <2>2, <2>3 DEF r
<1> HIDE DEF rc, att, known
<1>8. /\ Waiting' = IF rc = "BUSY" THEN Waiting ELSE Waiting \ {"DELETE"}
      /\ req'["DELETE"].id = id /\ req'["DELETE"].attempted = att
  <2>1. req \in [Ops -> Request]
      BY <1>1 DEF TypeOK
  <2> HIDE DEF id, r
  <2> QED
      BY <1>2, <1>3, <1>4, <1>6, <2>1, AnsweredRequests
<1>9. ASSUME "DELETE" \in Waiting', att
      PROVE  id \notin Pend'
  <2>1. rc # "OK"
      BY <1>8, <1>9
  <2>2. Pend' = ScanPending'
      BY <1>5, <2>1, Settled
  <2>3. CASE id \in Pend
    <3>1. known /\ Hit(p[1])
        BY <1>3, <1>9, <2>3, Codes DEF att
    <3>2. staged'[id] = NoFile
        BY <1>1, <1>3, <1>7, <2>3, <3>1 DEF TypeOK, Unstaged
    <3> QED
        BY <2>2, <3>2 DEF ScanPending
  <2>4. CASE id \notin Pend
    <3>1. id \notin ScanPending
        BY <1>1, <2>4 DEF Rows
    <3>2. staged' = staged
        BY <1>7, <2>4
    <3>3. id \notin ScanPending'
        BY <1>3, <1>7, <2>4, <3>1, <3>2 DEF ScanPending
    <3> QED
        BY <2>2, <3>3
  <2> QED
      BY <2>3, <2>4
<1> QED
    BY <1>3, <1>8, <1>9 DEF Begun

LEMMA BegunStep ==
    ASSUME IInv, [Next]_vars
    PROVE  Begun'
<1>1. /\ TypeOK /\ req \in [Ops -> Request]
      /\ \A k \in Ops : req[k].id \in 0 .. MaxId /\ req[k].attempted \in BOOLEAN
  <2>1. TypeOK /\ \A k \in Ops : req[k] \in Request
      BY DEF IInv, TypeOK
  <2> QED
      BY <2>1 DEF TypeOK, Request
<1>2. ASSUME UNCHANGED <<media, index>>
      PROVE  Pend' \subseteq Pend
    BY <1>2, PendKept DEF media, index
<1>3. CASE \/ \E f \in Frag : Receive(f) \/ ReceiveTracked(f)
           \/ ReceiptForget \/ \E c \in Copy : Sent(c)
           \/ UNCHANGED vars
  <2>1. req' = req /\ UNCHANGED <<media, index>>
      BY <1>3 DEF Receive, ReceiveTracked, ReceiptForget, Sent, vars
  <2> QED
      BY <1>2, <2>1, SameRequests, BegunKept
<1>4. ASSUME NEW k \in Ops, NEW box \in Box, NEW i \in 0 .. nextId - 1, Ask(k, box, i)
      PROVE  Begun'
  <2> DEFINE r == [Free EXCEPT !.st = "wait", !.box = box, !.id = i]
  <2>1. r.id = i /\ r.attempted = FALSE
      BY DEF Free
  <2>2. req' = [req EXCEPT ![k] = r] /\ (k = "DELETE" => i # 0)
        /\ UNCHANGED <<media, index>>
      BY <1>4 DEF Ask
  <2> HIDE DEF r
  <2>3. CASE k = "DELETE"
    <3>1. i \in Id
        BY <1>1, <2>2, <2>3, MessageServiceAssumption DEF TypeOK, Id
    <3>2. req'["DELETE"] = r
        BY <1>1, <2>2, <2>3
    <3> QED
        BY <2>1, <3>1, <3>2 DEF Begun
  <2>4. CASE k # "DELETE"
    <3>1. "DELETE" \in Ops => req'["DELETE"] = req["DELETE"]
        BY <1>1, <2>2, <2>4
    <3>2. "DELETE" \in Waiting' => "DELETE" \in Waiting /\ "DELETE" \in Ops
        BY <3>1 DEF Waiting
    <3> QED
        BY <1>2, <2>2, <3>1, <3>2, BegunKept
  <2> QED
      BY <2>3, <2>4
<1>5. ASSUME NEW k \in Ops, PopResult(k)
      PROVE  Begun'
  <2>1. req' = [req EXCEPT ![k] = Free] /\ UNCHANGED <<media, index>>
      BY <1>5 DEF PopResult
  <2>2. "DELETE" \in Waiting' => /\ "DELETE" \in Waiting
                                 /\ req'["DELETE"] = req["DELETE"]
    <3>1. Free.st # "wait"
        BY DEF Free
    <3> QED
        BY <1>1, <2>1, <3>1 DEF Waiting
  <2> QED
      BY <1>2, <2>1, <2>2, BegunKept
<1>6. ASSUME NEW k \in Waiting, NEW rc \in Results, NEW id \in 0 .. MaxId,
             NEW att \in BOOLEAN, req' = Answered(k, rc, id, att),
             k = "DELETE" => id = req[k].id /\ att = req[k].attempted,
             Pend' \subseteq Pend
      PROVE  Begun'
  <2>1. /\ Waiting' = IF rc = "BUSY" THEN Waiting ELSE Waiting \ {k}
        /\ \A j \in Ops \ {k} : req'[j] = req[j]
        /\ req'[k].id = id /\ req'[k].attempted = att
      BY <1>1, <1>6, AnsweredRequests
  <2>2. \A j \in Waiting : j \in Ops
      BY DEF Waiting
  <2> QED
      BY <1>6, <2>1, <2>2, BegunKept
<1>7. ASSUME NEW o \in Outcomes, TickReloadFailed(o)
      PROVE  Begun'
  <2>1. Settle(Code(o), {}, {}, {}, {}) /\ o # "ok" /\ UNCHANGED media
      BY <1>7 DEF TickReloadFailed, Fail
  <2>2. Code(o) # "OK" /\ Code(o) \in Results
      BY <2>1, Codes
  <2>3. Pend' \subseteq Pend
      BY <2>1, <2>2, PendKept DEF media
  <2>4. CASE \E j \in Ops : Turn(j)
    <3> DEFINE j == CHOOSE j \in Ops : Turn(j)
    <3>1. j \in Ops /\ j \in Waiting
        BY <2>4 DEF Turn
    <3>2. req' = Answered(j, Code(o), req[j].id, req[j].attempted)
        BY <1>7, <2>4 DEF TickReloadFailed
    <3> HIDE DEF j
    <3> QED
        BY <1>1, <1>6, <2>2, <2>3, <3>1, <3>2
  <2>5. CASE ~ \E j \in Ops : Turn(j)
    <3>1. req' = req
        BY <1>7, <2>5 DEF TickReloadFailed
    <3> QED
        BY <2>3, <3>1, SameRequests, BegunKept
  <2> QED
      BY <2>4, <2>5
<1>8. 0 \in 0 .. MaxId /\ "ERROR" \in Results /\ "FULL" \in Results
    BY MessageServiceAssumption DEF Results
<1>9. ASSUME NEW o \in Small, TickList(o)
      PROVE  Begun'
  <2>1. Code(o) \in Results
      BY Codes DEF Small
  <2>2. PICK rc \in Results : /\ req' = Answered("LIST", rc, 0, FALSE)
                              /\ Settle(rc, Pend, Blk, In, Out)
      BY <1>8, <1>9, <2>1 DEF TickList
  <2>3. "LIST" \in Waiting
      BY <1>9 DEF TickList, Turn
  <2>4. Pend' \subseteq Pend
    <3>1. UNCHANGED media
        BY <1>9 DEF TickList
    <3> QED
        BY <2>2, <3>1, PendKept DEF media
  <2> QED
      BY <1>6, <1>8, <2>2, <2>3, <2>4
<1>10. ASSUME NEW o \in Small, TickRead(o)
       PROVE  Begun'
  <2>1. Code(o) \in Results
      BY Codes DEF Small
  <2>2. PICK rc \in Results : /\ req' = Answered("READ", rc, req["READ"].id, FALSE)
                              /\ Settle(rc, Pend, Blk, In, Out)
      BY <1>8, <1>10, <2>1 DEF TickRead
  <2>3. "READ" \in Waiting /\ "READ" \in Ops
      BY <1>10 DEF TickRead, Turn, Waiting
  <2>4. Pend' \subseteq Pend
    <3>1. UNCHANGED <<staged, rotten>>
        BY <1>10 DEF TickRead
    <3> QED
        BY <2>2, <3>1, PendKept
  <2> QED
      BY <1>1, <1>6, <2>2, <2>3, <2>4
<1>11. ASSUME NEW p \in Pairs, TickSave(p)
       PROVE  Begun'
  <2>1. "SAVE" \in Waiting /\ "SAVE" \in Ops
      BY <1>11 DEF TickSave, Turn, Waiting
  <2>2. "DELETE" \in Waiting' => /\ "DELETE" \in Waiting
                                 /\ req'["DELETE"] = req["DELETE"]
    <3>1. \E rc, id, att : req' = Answered("SAVE", rc, id, att)
        BY <1>11 DEF TickSave
    <3>2. \A j \in Ops \ {"SAVE"} : req'[j] = req[j]
        BY <1>1, <3>1 DEF Answered
    <3> QED
        BY <3>2 DEF Waiting
  <2>3. Pend' \subseteq Pend
    <3>1. UNCHANGED staged /\ \E rc, out : Settle(rc, Pend, Blk, In, out)
        BY <1>11 DEF TickSave
    <3>2. \A i \in Id : <<"pending", i>> \in rotten => <<"pending", i>> \in rotten'
        BY <1>11 DEF TickSave, Mended
    <3>3. ScanPending' \subseteq ScanPending
        BY <3>1, <3>2 DEF ScanPending
    <3>4. ScanPending \subseteq Pend
        BY DEF IInv, Rows
    <3> QED
        BY <3>1, <3>3, <3>4, Settled
  <2> QED
      BY <2>2, <2>3, BegunKept
<1>12. ASSUME Waiting = {}, req' = req
       PROVE  Begun'
    BY <1>12, BegunIdle
<1>13. CASE \/ \E i \in Pend, w \in Wall, o \in Small : TickCleanup(w, i, o)
            \/ \E i \in Eligible \ Skipped, passed \in SUBSET Skipped,
                  p \in SmallPairs : TickPublish(i, passed, p)
  <2>1. ASSUME NEW i, NEW w, NEW o, TickCleanup(w, i, o)
        PROVE  Waiting = {} /\ req' = req
      BY <2>1 DEF TickCleanup
  <2>2. ASSUME NEW i, NEW passed, NEW p, TickPublish(i, passed, p)
        PROVE  Waiting = {} /\ req' = req
      BY <2>2 DEF TickPublish
  <2> QED
      BY <1>12, <1>13, <2>1, <2>2
<1>14. CASE TickQueue
  <2>1. ASSUME NEW k, NEW id, NEW rc, Served(k, id, rc)
        PROVE  req' = req
      BY <2>1 DEF Served
  <2>2. ASSUME NEW o, QueueTurn(o)
        PROVE  Waiting = {}
      BY <2>2 DEF QueueTurn
  <2>3. Waiting = {}
      BY <1>14, <2>2
      DEF TickQueue, TickIdle, TickServeKnown, TickServeUnread, TickServeFull,
          TickServeMerge, TickServeStage, TickServeSent
  <2>4. req' = req
      BY <1>14, <2>1
      DEF TickQueue, TickIdle, TickServeKnown, TickServeUnread, TickServeFull,
          TickServeMerge, TickServeStage, TickServeSent
  <2> QED
      BY <1>12, <2>3, <2>4
<1>15. ASSUME NEW o \in Outcomes, PowerCut(o)
       PROVE  Begun'
  <2>1. req' = [k \in Ops |-> Free]
      BY <1>15 DEF PowerCut
  <2>2. Free.st # "wait"
      BY DEF Free
  <2> QED
      BY <2>1, <2>2 DEF Begun, Waiting
<1>16. ASSUME NEW c \in {"pending", "inbox", "outbox"}, NEW i \in Id, Rot(c, i)
       PROVE  Begun'
  <2>1. req' = req /\ UNCHANGED <<staged, index>> /\ rotten \subseteq rotten'
      BY <1>16 DEF Rot
  <2>2. Pend' \subseteq Pend
      BY <2>1, PendKept DEF index
  <2> QED
      BY <2>1, <2>2, SameRequests, BegunKept
<1> QED
    BY <1>3, <1>4, <1>5, <1>7, <1>9, <1>10, <1>11, <1>13, <1>14, <1>15, <1>16,
       BegunDelete DEF Next, Tick, TickRequest, Caller

(***************************************************************************)
(* What was erased.                                                        *)
LEMMA GoneCalm ==
    ASSUME IInv, Calm, erased' = erased,
           \A i \in Id : <<"pending", i>> \in rotten =>
               staged'[i] = NoFile \/ <<"pending", i>> \in rotten',
           \A i \in Id : <<"pending", i>> \in rotten' /\ i \in Pend' => i \in Pend,
           \A i \in Id : \/ published'[i] = published[i]
                         \/ published'[i] = NoFile
                         \/ staged[i] # NoFile /\ i \in Pend
    PROVE  Gone'
<1>1. PICK from \in [Entries' -> Entries] :
          /\ From1to1(from)
          /\ \A n \in Entries' : SameEntry(queue'[n], queue[from[n]])
    BY DEF Calm, CalmQueue
<1>2. ASSUME NEW n \in Entries'
      PROVE  /\ from[n] \in Entries
             /\ queue'[n].id = queue[from[n]].id
             /\ n \in Arrivals' => from[n] \in Arrivals
             /\ n \in Copies' => from[n] \in Copies
    BY <1>1, <1>2 DEF SameEntry, Arrivals, Copies
<1>3. Arrivals' \subseteq Entries' /\ Copies' \subseteq Entries'
    BY DEF Arrivals, Copies
<1>4. Gone /\ Rows
    BY DEF IInv
<1>5. /\ nextId' = nextId
      /\ \A i \in Id : /\ staged'[i] = staged[i] \/ staged'[i] = NoFile
                       /\ outbox'[i] = outbox[i] \/ outbox'[i] = NoBody
      /\ \A i \in Id : Saving(i)' => Saving(i)
    BY DEF Calm, CalmFiles, CalmRequests
<1>6. ASSUME NEW i \in Id, <<"inbox", i>> \in erased
      PROVE  /\ published'[i] = NoFile
             /\ staged'[i] # NoFile =>
                    <<"pending", i>> \in rotten' /\ i \notin Pend'
             /\ i < nextId' /\ \A n \in Arrivals' : queue'[n].id # i
  <2>1. /\ published[i] = NoFile
        /\ staged[i] # NoFile => <<"pending", i>> \in rotten /\ i \notin Pend
        /\ i < nextId /\ \A n \in Arrivals : queue[n].id # i
      BY <1>4, <1>6 DEF Gone
  <2>2. published'[i] = NoFile
      BY <2>1
  <2>3. \A n \in Arrivals' : queue'[n].id # i
      BY <1>2, <1>3, <2>1
  <2> QED
      BY <1>5, <2>1, <2>2, <2>3
<1>7. ASSUME NEW i \in Id, <<"outbox", i>> \in erased
      PROVE  /\ outbox'[i] = NoBody /\ ~ Saving(i)'
             /\ i < nextId' /\ \A n \in Copies' : queue'[n].id # i
  <2>1. /\ outbox[i] = NoBody /\ ~ Saving(i)
        /\ i < nextId /\ \A n \in Copies : queue[n].id # i
      BY <1>4, <1>7 DEF Gone
  <2>2. \A n \in Copies' : queue'[n].id # i
      BY <1>2, <1>3, <2>1
  <2> QED
      BY <1>5, <2>1, <2>2
<1> QED
    BY <1>6, <1>7 DEF Gone

LEMMA GoneDelete ==
    ASSUME IInv, NEW p \in SmallPairs, TickDelete(p)
    PROVE  Gone'
<1> DEFINE r == req["DELETE"]
           id == r.id
           box == r.box
           known == id \in BoxIdx(box) \/ r.attempted
           rc == IF known THEN Code(Worst(p)) ELSE "ERROR"
           unstage == known /\ id \in Pend /\ Hit(p[1])
           remove == known /\ Second(p)
<1>1. TypeOK /\ Rows /\ Begun /\ Gone /\ Drawn
    BY DEF IInv
<1>2. "DELETE" \in Waiting /\ "DELETE" \in Ops /\ "SAVE" \notin Waiting
  <2>1. Turn("DELETE")
      BY DEF TickDelete
  <2> QED
      BY <2>1 DEF Turn, Waiting, Rank
<1>3. id \in Id /\ box \in {"inbox", "outbox"} /\ id < nextId
  <2>1. req["DELETE"] \in Request
      BY <1>1, <1>2 DEF TypeOK
  <2> QED
      BY <1>1, <1>2, <2>1 DEF Request, Box, Begun, Drawn
<1>4. Calm
    BY CalmSteps DEF CalmStep
<1>5. /\ staged' = IF unstage THEN Unstaged(id) ELSE staged
      /\ published' = IF remove /\ box = "inbox"
                      THEN [published EXCEPT ![id] = NoFile] ELSE published
      /\ outbox' = IF remove /\ box = "outbox"
                   THEN [outbox EXCEPT ![id] = NoBody] ELSE outbox
      /\ erased' = IF rc = "OK" /\ ~ Claimed(id)
                   THEN erased \union {<<box, id>>} ELSE erased
      /\ queue' = IF rc = "OK"
                  THEN [n \in 1 .. Len(queue) |->
                           [queue[n] EXCEPT !.deferred = FALSE]]
                  ELSE queue
    BY DEF TickDelete, Twin
<1>6. \E in, out : Settle(rc, Pend \ {id}, Blk \ {id}, in, out)
    BY DEF TickDelete
<1>7. rotten' = rotten \ ((IF unstage THEN {<<"pending", id>>} ELSE {})
                          \union (IF remove THEN {<<box, id>>} ELSE {}))
    BY DEF TickDelete, Twin
<1>8. rc = "OK" => remove /\ Hit(p[1])
    BY SmallPairCodes, PairCodes, Codes
<1>9. \A i \in Id : ~ Saving(i)'
  <2>1. \E y, att : req' = Answered("DELETE", rc, y, att)
      BY DEF TickDelete
  <2>2. req \in [Ops -> Request]
      BY <1>1 DEF TypeOK
  <2>3. \A j \in Ops \ {"DELETE"} : req'[j] = req[j]
      BY <2>1, <2>2 DEF Answered
  <2>4. "SAVE" \notin Waiting'
      BY <1>2, <2>3 DEF Waiting
  <2> QED
      BY <2>4 DEF Saving
<1> HIDE DEF id, box, known, rc, r, unstage, remove
<1>10. /\ \A i \in Id : <<"pending", i>> \in rotten =>
              staged'[i] = NoFile \/ <<"pending", i>> \in rotten'
       /\ \A i \in Id : /\ published'[i] = published[i] \/ published'[i] = NoFile
    BY <1>1, <1>3, <1>5, <1>7 DEF TypeOK, Unstaged
<1>11. \A i \in Id : <<"pending", i>> \in rotten' /\ i \in Pend' => i \in Pend
    BY <1>6, Settled DEF ScanPending
<1>12. Gone' \/ erased' # erased
    BY <1>4, <1>10, <1>11, GoneCalm
<1>13. ASSUME erased' # erased
       PROVE  Gone'
  <2>1. rc = "OK" /\ remove /\ ~ Claimed(id) /\ erased' = erased \union {<<box, id>>}
      BY <1>5, <1>8, <1>13
  <2>2. Entries' = Entries /\ \A n \in Entries : queue'[n].id = queue[n].id
                                                 /\ queue'[n].out = queue[n].out
    <3>1. queue \in Seq(Item)
        BY <1>1 DEF TypeOK
    <3>2. \A n \in 1 .. Len(queue) : queue[n] \in Item
        BY <3>1
    <3>3. /\ Len(queue') = Len(queue)
          /\ \A n \in 1 .. Len(queue) :
                 queue'[n] = [queue[n] EXCEPT !.deferred = FALSE]
        BY <1>5, <2>1, <3>1
    <3> QED
        BY <3>2, <3>3 DEF Entries, Item
  <2>3. \A n \in Entries : queue[n].id # id
      BY <2>1 DEF Claimed, Entries
  <2>4. Arrivals' = Arrivals /\ Copies' = Copies
      BY <2>2 DEF Arrivals, Copies
  <2>5. nextId' = nextId /\ \A i \in Id : Saving(i)' => Saving(i)
      BY <1>4 DEF Calm, CalmFiles, CalmRequests
  <2>6. ASSUME NEW i \in Id, <<"inbox", i>> \in erased'
        PROVE  /\ published'[i] = NoFile
               /\ staged'[i] # NoFile =>
                      <<"pending", i>> \in rotten' /\ i \notin Pend'
               /\ i < nextId' /\ \A n \in Arrivals' : queue'[n].id # i
    <3>1. CASE <<"inbox", i>> \in erased
      <4>1. /\ published[i] = NoFile
            /\ staged[i] # NoFile => <<"pending", i>> \in rotten /\ i \notin Pend
            /\ i < nextId /\ \A n \in Arrivals : queue[n].id # i
          BY <1>1, <3>1 DEF Gone
      <4>2. staged'[i] = staged[i] \/ staged'[i] = NoFile
          BY <1>4 DEF Calm, CalmFiles
      <4> QED
          BY <1>10, <1>11, <2>2, <2>4, <2>5, <4>1, <4>2 DEF Arrivals
    <3>2. CASE <<"inbox", i>> \notin erased
      <4>1. i = id /\ box = "inbox"
          BY <2>1, <2>6, <3>2
      <4>2. published'[id] = NoFile
          BY <1>1, <1>3, <1>5, <2>1, <4>1 DEF TypeOK
      <4>3. ASSUME staged'[id] # NoFile
            PROVE  <<"pending", id>> \in rotten' /\ id \notin Pend'
        <5>1. ~ unstage
            BY <1>1, <1>3, <1>5, <4>3 DEF TypeOK, Unstaged
        <5>2. id \notin Pend
            BY <1>8, <2>1, <5>1 DEF unstage, remove
        <5>3. <<"pending", id>> \in rotten
            BY <1>1, <1>3, <1>5, <4>3, <5>1, <5>2 DEF Rows, ScanPending
        <5>4. <<"pending", id>> \in rotten'
            BY <1>3, <1>7, <5>1, <5>3
        <5> QED
            BY <1>3, <1>11, <5>2, <5>4
      <4> QED
          BY <1>3, <2>2, <2>3, <2>4, <2>5, <4>1, <4>2, <4>3 DEF Arrivals
    <3> QED
        BY <3>1, <3>2
  <2>7. ASSUME NEW i \in Id, <<"outbox", i>> \in erased'
        PROVE  /\ outbox'[i] = NoBody /\ ~ Saving(i)'
               /\ i < nextId' /\ \A n \in Copies' : queue'[n].id # i
    <3>1. CASE <<"outbox", i>> \in erased
      <4>1. /\ outbox[i] = NoBody /\ ~ Saving(i)
            /\ i < nextId /\ \A n \in Copies : queue[n].id # i
          BY <1>1, <3>1 DEF Gone
      <4>2. outbox'[i] = NoBody
          BY <1>4, <4>1 DEF Calm, CalmFiles
      <4> QED
          BY <2>2, <2>4, <2>5, <4>1, <4>2 DEF Copies
    <3>2. CASE <<"outbox", i>> \notin erased
      <4>1. i = id /\ box = "outbox"
          BY <2>1, <2>7, <3>2
      <4>2. outbox'[id] = NoBody
          BY <1>1, <1>3, <1>5, <2>1, <4>1 DEF TypeOK
      <4>3. \A n \in Copies' : queue'[n].id # id
          BY <2>2, <2>3, <2>4 DEF Copies
      <4>4. i \in Id /\ ~ Saving(i)'
          BY <1>9, <2>7
      <4>5. i < nextId'
          BY <1>3, <2>5, <4>1
      <4>6. outbox'[i] = NoBody /\ \A n \in Copies' : queue'[n].id # i
          BY <4>1, <4>2, <4>3
      <4> QED
          BY <4>4, <4>5, <4>6
    <3> QED
        BY <3>1, <3>2
  <2> QED
      BY <2>6, <2>7 DEF Gone
<1> QED
    BY <1>12, <1>13

(* A step that gives an identifier touches none that was erased.           *)
LEMMA GoneServed ==
    ASSUME IInv, NEW k \in Servable, NEW id \in 0 .. MaxId, NEW rc,
           Served(From(k), id, rc), Waiting = {},
           nextId' \in Nat, nextId \in Nat, nextId <= nextId',
           \A i \in Id :
               i # id \/ queue[k].out =>
                   /\ staged'[i] = staged[i]
                   /\ <<"pending", i>> \in rotten => <<"pending", i>> \in rotten'
                   /\ <<"pending", i>> \in rotten' /\ i \in Pend' => i \in Pend,
           \A i \in Id : i # id \/ ~ queue[k].out => outbox'[i] = outbox[i],
           id \in Id => IF queue[k].out THEN <<"outbox", id>> \notin erased
                        ELSE <<"inbox", id>> \notin erased
    PROVE  Gone'
<1>1. PICK from \in [Entries' -> Entries] :
          /\ From1to1(from) /\ Renamed(k, id, from)
    BY ServedRenamed
<1>2. ASSUME NEW n \in Entries'
      PROVE  /\ from[n] \in Entries
             /\ queue'[n].id = IF from[n] = k THEN id ELSE queue[from[n]].id
             /\ n \in Arrivals' => from[n] \in Arrivals
             /\ n \in Copies' => from[n] \in Copies
    BY <1>1, <1>2 DEF Renamed, Arrivals, Copies
<1>3. Arrivals' \subseteq Entries' /\ Copies' \subseteq Entries'
    BY DEF Arrivals, Copies
<1>4. Gone
    BY DEF IInv
<1>5. erased' = erased /\ published' = published /\ req' = req
    BY DEF Served
<1>6. ASSUME NEW i \in Id, <<"inbox", i>> \in erased
      PROVE  /\ published'[i] = NoFile
             /\ staged'[i] # NoFile =>
                    <<"pending", i>> \in rotten' /\ i \notin Pend'
             /\ i < nextId' /\ \A n \in Arrivals' : queue'[n].id # i
  <2>1. /\ published[i] = NoFile
        /\ staged[i] # NoFile => <<"pending", i>> \in rotten /\ i \notin Pend
        /\ i < nextId /\ \A n \in Arrivals : queue[n].id # i
      BY <1>4, <1>6 DEF Gone
  <2>2. i # id \/ queue[k].out
      BY <1>6
  <2>3. ASSUME NEW n \in Arrivals' PROVE queue'[n].id # i
    <3>1. from[n] \in Arrivals
        BY <1>2, <1>3
    <3>2. CASE from[n] = k
      <4>1. ~ queue[k].out /\ queue'[n].id = id
          BY <1>2, <1>3, <3>1, <3>2 DEF Arrivals
      <4> QED
          BY <2>2, <4>1
    <3>3. CASE from[n] # k
        BY <1>2, <1>3, <2>1, <3>1, <3>3
    <3> QED
        BY <3>2, <3>3
  <2>4. i < nextId'
      BY <2>1 DEF Id
  <2> QED
      BY <1>5, <2>1, <2>2, <2>3, <2>4
<1>7. ASSUME NEW i \in Id, <<"outbox", i>> \in erased
      PROVE  /\ outbox'[i] = NoBody /\ ~ Saving(i)'
             /\ i < nextId' /\ \A n \in Copies' : queue'[n].id # i
  <2>1. /\ outbox[i] = NoBody
        /\ i < nextId /\ \A n \in Copies : queue[n].id # i
      BY <1>4, <1>7 DEF Gone
  <2>2. i # id \/ ~ queue[k].out
      BY <1>7
  <2>3. ASSUME NEW n \in Copies' PROVE queue'[n].id # i
    <3>1. from[n] \in Copies
        BY <1>2, <1>3
    <3>2. CASE from[n] = k
      <4>1. queue[k].out /\ queue'[n].id = id
          BY <1>2, <1>3, <3>1, <3>2 DEF Copies
      <4> QED
          BY <1>7, <4>1
    <3>3. CASE from[n] # k
        BY <1>2, <1>3, <2>1, <3>1, <3>3
    <3> QED
        BY <3>2, <3>3
  <2>4. i < nextId'
      BY <2>1 DEF Id
  <2>5. ~ Saving(i)'
      BY <1>5 DEF Saving, Waiting
  <2>6. outbox'[i] = outbox[i]
      BY <2>2
  <2> QED
      BY <2>1, <2>3, <2>4, <2>5, <2>6
<1> QED
    BY <1>5, <1>6, <1>7 DEF Gone

LEMMA GoneQueue ==
    ASSUME IInv, TickQueue
    PROVE  Gone'
<1>1. /\ Rows /\ TypeOK /\ Gone /\ Apart /\ Drawn
      /\ Pend \subseteq Id /\ nextId \in Nat
    BY RowTypes, MessageServiceAssumption DEF IInv, TypeOK
<1>2. CASE TickIdle \/ \E k \in Servable :
             \/ TickServeKnown(k) \/ TickServeFull(k)
             \/ \E o \in Outcomes : TickServeUnread(k, o)
  <2>1. Calm
      BY <1>2, CalmSteps DEF CalmStep
  <2>2. UNCHANGED <<staged, published, rotten, erased>>
      BY <1>2 DEF TickIdle, TickServeKnown, TickServeFull, TickServeUnread,
                  Served, media
  <2>3. Pend' \subseteq Pend
    <3>1. ASSUME NEW k, TickServeKnown(k)
          PROVE  Settle("OK", Pend, Blk \union Skipped, In, Out)
        BY <3>1 DEF TickServeKnown
    <3>2. ASSUME NEW k, TickServeFull(k)
          PROVE  Settle("FULL", {}, {}, {}, {})
        BY <3>2 DEF TickServeFull, Fail
    <3>3. ASSUME NEW k, NEW o \in Outcomes, TickServeUnread(k, o)
          PROVE  \E rc : Settle(rc, {}, {}, {}, {}) /\ rc # "OK"
      <4>1. o # "ok" => Code(o) # "OK"
          BY Codes
      <4> QED
          BY <3>3, <4>1 DEF TickServeUnread, Fail
    <3>4. TickIdle => Settle("OK", Pend, Blk \union Skipped, In, Out)
        BY DEF TickIdle
    <3> QED
        BY <1>2, <2>2, <3>1, <3>2, <3>3, <3>4, PendKept
  <2> QED
      BY <2>1, <2>2, <2>3, GoneCalm
<1>3. ASSUME NEW k \in Servable, NEW i \in Scanned, NEW o \in Outcomes,
             TickServeMerge(k, i, o)
      PROVE  Gone'
  <2> DEFINE body == queue[k].body
  <2>1. /\ ~ queue[k].out
        /\ staged' \in {staged, [staged EXCEPT ![i] = @ \union {body}]}
        /\ Served(From(k), i, Code(o)) /\ QueueTurn(o)
        /\ Settle(Code(o), Pend, Blk \union Skipped, In, Out)
        /\ outbox' = outbox /\ nextId' = nextId /\ rotten' = rotten
      BY <1>3, Entry DEF TickServeMerge
  <2>2. i \in Id /\ i \in Pend /\ i \in 0 .. MaxId
    <3>1. i \in Pend
        BY DEF Scanned
    <3>2. i \in Id
        BY <1>1, <3>1
    <3> QED
        BY <3>1, <3>2, MessageServiceAssumption DEF Id
  <2>3. staged[i] # NoFile
      BY <1>1, <2>2 DEF Rows
  <2>4. <<"inbox", i>> \notin erased
      BY <1>1, <2>2, <2>3 DEF Gone
  <2>5. \A j \in Id : j # i => staged'[j] = staged[j]
      BY <1>1, <2>1, <2>2 DEF TypeOK
  <2>6. \A j \in Id : <<"pending", j>> \in rotten' /\ j \in Pend' => j \in Pend
      BY <2>1, Settled DEF ScanPending
  <2>7. Waiting = {}
      BY <2>1 DEF QueueTurn
  <2>8. /\ nextId' \in Nat /\ nextId <= nextId'
        /\ \A j \in Id : <<"pending", j>> \in rotten => <<"pending", j>> \in rotten'
        /\ \A j \in Id : outbox'[j] = outbox[j]
      BY <1>1, <2>1
  <2> HIDE DEF body
  <2> QED
      BY <1>1, <2>1, <2>2, <2>4, <2>5, <2>6, <2>7, <2>8, GoneServed
<1>4. ASSUME NEW k \in Servable, NEW p \in Pairs, TickServeStage(k, p)
      PROVE  Gone'
  <2> DEFINE body == queue[k].body
             id == Reserved(queue[k].id, p[1])
             rc == Code(Worst(p))
  <2>1. /\ ~ queue[k].out
        /\ ~ Exhausted(queue[k].id) /\ Reserve(queue[k].id, p[1])
        /\ staged' = IF Second(p) THEN [staged EXCEPT ![id] = {body}] ELSE staged
        /\ Served(From(k), id, rc) /\ QueueTurn(Worst(p))
        /\ Settle(rc, Pend \union {id}, Blk \union Skipped, In, Out)
        /\ outbox' = outbox /\ rotten' = Mended("pending", id, p)
      BY <1>4, Entry DEF TickServeStage
  <2>2. /\ id \in 0 .. MaxId /\ nextId' \in Nat /\ nextId <= nextId'
        /\ queue[k].id # 0 => id = queue[k].id
        /\ queue[k].id = 0 /\ id # 0 => id = nextId
    <3>1. p[1] \in Outcomes
        BY PairCodes
    <3> QED
        BY <2>1, <3>1, EntryReserved
  <2>3. k \in Arrivals
      BY <2>1, Entry DEF Arrivals
  <2> HIDE DEF id, rc, body
  <2>4. id \in Id => <<"inbox", id>> \notin erased
    <3>1. 0 \notin Id
        BY DEF Id
    <3>2. ASSUME id \in Id, <<"inbox", id>> \in erased
          PROVE  FALSE
      <4>1. id < nextId /\ queue[k].id # id
          BY <1>1, <2>3, <3>2 DEF Gone
      <4> QED
          BY <1>1, <2>2, <3>1, <3>2, <4>1
    <3> QED
        BY <3>2
  <2>5. \A j \in Id : j # id =>
            /\ staged'[j] = staged[j]
            /\ <<"pending", j>> \in rotten => <<"pending", j>> \in rotten'
      BY <1>1, <2>1 DEF TypeOK, Mended
  <2>6. \A j \in Id : j # id /\ <<"pending", j>> \in rotten' /\ j \in Pend' => j \in Pend
      BY <2>1, Settled DEF ScanPending
  <2>7. Waiting = {}
      BY <2>1 DEF QueueTurn
  <2> QED
      BY <1>1, <2>1, <2>2, <2>4, <2>5, <2>6, <2>7, GoneServed
<1>5. ASSUME NEW k \in Servable, NEW p \in Pairs, TickServeSent(k, p)
      PROVE  Gone'
  <2> DEFINE body == queue[k].body
             id == Reserved(queue[k].id, p[1])
             rc == Code(Worst(p))
  <2>1. /\ queue[k].out
        /\ ~ Exhausted(queue[k].id) /\ Reserve(queue[k].id, p[1])
        /\ outbox' = IF Second(p) THEN [outbox EXCEPT ![id] = body] ELSE outbox
        /\ Served(From(k), id, rc) /\ QueueTurn(Worst(p))
        /\ Settle(rc, Pend, Blk \union Skipped, In, Out \union {id})
        /\ staged' = staged /\ rotten' = Mended("outbox", id, p)
      BY <1>5, Entry DEF TickServeSent
  <2>2. /\ id \in 0 .. MaxId /\ nextId' \in Nat /\ nextId <= nextId'
        /\ queue[k].id # 0 => id = queue[k].id
        /\ queue[k].id = 0 /\ id # 0 => id = nextId
    <3>1. p[1] \in Outcomes
        BY PairCodes
    <3> QED
        BY <2>1, <3>1, EntryReserved
  <2>3. k \in Copies
      BY <2>1, Entry DEF Copies
  <2> HIDE DEF id, rc, body
  <2>4. id \in Id => <<"outbox", id>> \notin erased
    <3>1. 0 \notin Id
        BY DEF Id
    <3>2. ASSUME id \in Id, <<"outbox", id>> \in erased
          PROVE  FALSE
      <4>1. id < nextId /\ queue[k].id # id
          BY <1>1, <2>3, <3>2 DEF Gone
      <4> QED
          BY <1>1, <2>2, <3>1, <3>2, <4>1
    <3> QED
        BY <3>2
  <2>5. \A j \in Id : j # id => outbox'[j] = outbox[j]
      BY <1>1, <2>1 DEF TypeOK
  <2>6. \A j \in Id : /\ <<"pending", j>> \in rotten => <<"pending", j>> \in rotten'
                      /\ <<"pending", j>> \in rotten' /\ j \in Pend' => j \in Pend
    <3>1. \A j \in Id : <<"pending", j>> \in rotten => <<"pending", j>> \in rotten'
        BY <2>1 DEF Mended
    <3> QED
        BY <2>1, <3>1, Settled DEF ScanPending
  <2>7. Waiting = {}
      BY <2>1 DEF QueueTurn
  <2>8. \A j \in Id : staged'[j] = staged[j]
      BY <2>1
  <2> QED
      BY <1>1, <2>1, <2>2, <2>4, <2>5, <2>6, <2>7, <2>8, GoneServed
<1> QED
    BY <1>2, <1>3, <1>4, <1>5 DEF TickQueue

LEMMA Appends ==
    ASSUME IInv,
           \/ \E f \in Frag : Receive(f) \/ ReceiveTracked(f)
           \/ \E c \in Copy : Sent(c)
    PROVE  /\ UNCHANGED <<media, index, req, erased, stray>>
           /\ queue' = queue \/ \E r \in Item : r.id = 0 /\ queue' = Append(queue, r)
<1>1. UNCHANGED <<media, index, req, erased, stray>>
    BY DEF Receive, ReceiveTracked, Sent
<1>2. 0 \in 0 .. MaxId /\ receiptNext + 1 \in Nat
    BY MessageServiceAssumption DEF IInv, TypeOK
<1>3. \A f \in Frag : \A t \in Nat : Arrival(f, t) \in Item /\ Arrival(f, t).id = 0
    BY <1>2 DEF Arrival, Item
<1>4. ASSUME NEW f \in Frag, Receive(f) \/ ReceiveTracked(f)
      PROVE  queue' = queue \/ \E r \in Item : r.id = 0 /\ queue' = Append(queue, r)
  <2>1. queue' = queue \/ \E t \in Nat : queue' = Append(queue, Arrival(f, t))
      BY <1>2, <1>4 DEF Receive, ReceiveTracked
  <2> QED
      BY <1>3, <2>1
<1>5. ASSUME NEW c \in Copy, Sent(c)
      PROVE  \E r \in Item : r.id = 0 /\ queue' = Append(queue, r)
  <2> DEFINE r == [out |-> TRUE, body |-> c, id |-> 0, receipt |-> 0,
                   deferred |-> FALSE, tried |-> FALSE]
  <2>1. r \in Item /\ r.id = 0
      BY <1>2 DEF Item
  <2>2. queue' = Append(queue, r)
      BY <1>5 DEF Sent
  <2> HIDE DEF r
  <2> QED
      BY <2>1, <2>2
<1> QED
    BY <1>1, <1>4, <1>5

LEMMA GoneStep ==
    ASSUME IInv, [Next]_vars
    PROVE  Gone'
<1>1. /\ Rows /\ TypeOK /\ Gone /\ Drawn
      /\ Pend \subseteq Id /\ nextId \in Nat
    BY RowTypes, MessageServiceAssumption DEF IInv, TypeOK
<1>2. ASSUME Calm, UNCHANGED <<staged, published, erased>>, rotten \subseteq rotten',
             \/ UNCHANGED <<ready, pendIdx>>
             \/ \E rc, b, in, out : Settle(rc, Pend, b, in, out)
             \/ \E rc, p, b, in, out : Settle(rc, p, b, in, out) /\ rc # "OK"
      PROVE  Gone'
  <2>1. Pend' \subseteq Pend
      BY <1>2, PendKept
  <2> QED
      BY <1>2, <2>1, GoneCalm
<1>3. CASE \/ ReceiptForget \/ UNCHANGED vars
           \/ \E k \in Ops, box \in Box, i \in 0 .. nextId - 1 : Ask(k, box, i)
           \/ \E k \in Ops : PopResult(k)
  <2>1. Calm
      BY <1>3, CalmSteps DEF CalmStep
  <2>2. UNCHANGED <<staged, published, erased, rotten, ready, pendIdx>>
      BY <1>3 DEF ReceiptForget, Ask, PopResult, vars, media, index
  <2> QED
      BY <1>2, <2>1, <2>2
<1>4. CASE \/ \E f \in Frag : Receive(f) \/ ReceiveTracked(f)
           \/ \E c \in Copy : Sent(c)
  <2>1. /\ UNCHANGED <<media, index, req, erased>>
        /\ queue' = queue \/ \E r \in Item : r.id = 0 /\ queue' = Append(queue, r)
      BY <1>4, Appends
  <2>2. queue \in Seq(Item) /\ Len(queue) \in Nat
      BY <1>1 DEF TypeOK
  <2>3. ASSUME NEW n \in Entries', queue'[n].id # 0
        PROVE  n \in Entries /\ queue'[n] = queue[n]
      BY <2>1, <2>2, <2>3 DEF Entries
  <2>4. 0 \notin Id
      BY DEF Id
  <2>5. ASSUME NEW i \in Id
        PROVE  /\ (\A n \in Arrivals : queue[n].id # i) =>
                      \A n \in Arrivals' : queue'[n].id # i
               /\ (\A n \in Copies : queue[n].id # i) =>
                      \A n \in Copies' : queue'[n].id # i
      BY <2>3, <2>4 DEF Arrivals, Copies
  <2>6. /\ Pend' = Pend /\ \A i \in Id : Saving(i)' <=> Saving(i)
      BY <2>1 DEF Pend, ScanPending, media, index, Saving, Waiting
  <2> QED
      BY <1>1, <2>1, <2>5, <2>6 DEF Gone, media
<1>5. ASSUME NEW o \in Outcomes, TickReloadFailed(o)
      PROVE  Gone'
  <2>1. Calm
      BY <1>5, CalmSteps DEF CalmStep
  <2>2. Settle(Code(o), {}, {}, {}, {}) /\ o # "ok" /\ UNCHANGED <<media, erased>>
      BY <1>5 DEF TickReloadFailed, Fail
  <2>3. Code(o) # "OK"
      BY <2>2, Codes
  <2> QED
      BY <1>2, <2>1, <2>2, <2>3 DEF media
<1>6. ASSUME NEW o \in Small, TickList(o) \/ TickRead(o)
      PROVE  Gone'
  <2>1. Calm
      BY <1>6, CalmSteps DEF CalmStep
  <2>2. UNCHANGED <<staged, published, rotten, erased>>
      BY <1>6 DEF TickList, TickRead, media
  <2>3. \E rc, b, in, out : Settle(rc, Pend, b, in, out)
      BY <1>6 DEF TickList, TickRead
  <2> QED
      BY <1>2, <2>1, <2>2, <2>3
<1>7. ASSUME NEW p \in Pairs, TickSave(p)
      PROVE  Gone'
  <2> DEFINE r == req["SAVE"]
             full == \/ r.id \notin Out /\ Full(Out, MailboxLimit)
                     \/ Exhausted(r.id)
             id == Reserved(r.id, p[1])
  <2>1. "SAVE" \in Waiting /\ "SAVE" \in Ops
      BY <1>7 DEF TickSave, Turn, Waiting
  <2>2. /\ UNCHANGED <<staged, published, queue, erased>>
        /\ \E rc, out : Settle(rc, Pend, Blk, In, out)
        /\ rotten' = IF full THEN rotten ELSE Mended("outbox", id, p)
      BY <1>7 DEF TickSave
  <2>3. \A i \in Id : /\ <<"pending", i>> \in rotten => <<"pending", i>> \in rotten'
                      /\ <<"pending", i>> \in rotten' /\ i \in Pend' => i \in Pend
    <3>1. \A i \in Id : <<"pending", i>> \in rotten => <<"pending", i>> \in rotten'
        BY <2>2 DEF Mended
    <3> QED
        BY <2>2, <3>1, Settled DEF ScanPending
  <2>4. /\ req["SAVE"] \in Request /\ r.id \in 0 .. MaxId /\ r.id < nextId
    <3>1. req["SAVE"] \in Request
        BY <1>1, <2>1 DEF TypeOK
    <3> QED
        BY <1>1, <2>1, <3>1 DEF Request, Drawn
  <2>5. /\ nextId <= nextId' /\ nextId' \in Nat
        /\ \A i \in Id : <<"outbox", i>> \in erased =>
               outbox'[i] = NoBody /\ ~ Saving(i)'
    <3>1. CASE full
      <4>1. nextId' = nextId /\ outbox' = outbox
            /\ req' = Answered("SAVE", "FULL", r.id, r.attempted)
          BY <1>7, <3>1 DEF TickSave
      <4>2. /\ "SAVE" \notin Waiting'
        <5>1. req \in [Ops -> Request]
            BY <1>1 DEF TypeOK
        <5>2. req'["SAVE"].st = "done"
            BY <2>1, <4>1, <5>1 DEF Answered, Request
        <5> QED
            BY <5>2 DEF Waiting
      <4>3. ASSUME NEW i \in Id, <<"outbox", i>> \in erased
            PROVE  outbox'[i] = NoBody /\ ~ Saving(i)'
        <5>1. outbox[i] = NoBody
            BY <1>1, <4>3 DEF Gone
        <5>2. ~ Saving(i)'
            BY <4>2 DEF Saving
        <5> QED
            BY <4>1, <5>1, <5>2
      <4>4. nextId <= nextId' /\ nextId' \in Nat
          BY <1>1, <4>1
      <4> QED
          BY <4>3, <4>4
    <3>2. CASE ~ full
      <4>1. /\ \E rc, att : req' = Answered("SAVE", rc, id, att)
            /\ Reserve(r.id, p[1]) /\ ~ Exhausted(r.id)
            /\ outbox' = IF Second(p) THEN [outbox EXCEPT ![id] = Draft] ELSE outbox
          BY <1>7, <3>2 DEF TickSave
      <4>2. p[1] \in Outcomes
          BY PairCodes
      <4>3. /\ nextId' \in 1 .. MaxId + 1 /\ nextId <= nextId'
            /\ r.id # 0 => id = r.id
            /\ r.id = 0 /\ p[1] = "ok" => id = nextId
            /\ r.id = 0 /\ p[1] # "ok" => id = 0
        <5> HIDE DEF r, full
        <5> QED
          BY <1>1, <2>4, <4>1, <4>2, Reserving
      <4>4. req'["SAVE"].id = id
        <5>1. req \in [Ops -> Request]
            BY <1>1 DEF TypeOK
        <5> HIDE DEF id, r
        <5> QED
            BY <2>1, <4>1, <5>1 DEF Answered, Request
      <4> HIDE DEF id, full
      <4>5. ASSUME NEW i \in Id, <<"outbox", i>> \in erased
            PROVE  outbox'[i] = NoBody /\ ~ Saving(i)'
        <5>1. outbox[i] = NoBody /\ ~ Saving(i) /\ i < nextId
            BY <1>1, <4>5 DEF Gone
        <5>2. i # id
          <6>1. r.id # i
              BY <2>1, <5>1 DEF Saving
          <6> QED
              BY <1>1, <4>3, <5>1, <6>1 DEF Id
        <5>3. outbox'[i] = outbox[i]
            BY <1>1, <4>1, <5>2 DEF TypeOK
        <5>4. ~ Saving(i)'
            BY <4>4, <5>2 DEF Saving
        <5> QED
            BY <5>1, <5>3, <5>4
      <4>6. nextId' \in Nat
          BY <4>3, MessageServiceAssumption
      <4> QED
          BY <4>3, <4>5, <4>6
    <3> QED
        BY <3>1, <3>2
  <2>6. Entries' = Entries /\ Arrivals' = Arrivals /\ Copies' = Copies
      BY <2>2 DEF Entries, Arrivals, Copies
  <2>7. \A i \in Id : i < nextId => i < nextId'
      BY <1>1, <2>5 DEF Id
  <2>8. ASSUME NEW i \in Id, <<"inbox", i>> \in erased'
        PROVE  /\ published'[i] = NoFile
               /\ staged'[i] # NoFile =>
                      <<"pending", i>> \in rotten' /\ i \notin Pend'
               /\ i < nextId' /\ \A n \in Arrivals' : queue'[n].id # i
    <3>1. /\ published[i] = NoFile
          /\ staged[i] # NoFile => <<"pending", i>> \in rotten /\ i \notin Pend
          /\ i < nextId /\ \A n \in Arrivals : queue[n].id # i
        BY <1>1, <2>2, <2>8 DEF Gone
    <3> QED
        BY <2>2, <2>3, <2>6, <2>7, <3>1
  <2>9. ASSUME NEW i \in Id, <<"outbox", i>> \in erased'
        PROVE  /\ outbox'[i] = NoBody /\ ~ Saving(i)'
               /\ i < nextId' /\ \A n \in Copies' : queue'[n].id # i
    <3>1. i < nextId /\ \A n \in Copies : queue[n].id # i
        BY <1>1, <2>2, <2>9 DEF Gone
    <3> QED
        BY <2>2, <2>5, <2>6, <2>7, <2>9, <3>1
  <2> QED
      BY <2>8, <2>9 DEF Gone
<1>8. ASSUME NEW i \in Pend, NEW w \in Wall, NEW o \in Small, TickCleanup(w, i, o)
      PROVE  Gone'
  <2>1. Calm
      BY <1>8, CalmSteps DEF CalmStep
  <2>2. /\ published' = published /\ erased' = erased
        /\ \E rc, p, b, in, out : Settle(rc, p, b, in, out) /\ p \subseteq Pend
        /\ \/ staged' = staged /\ rotten' = rotten
           \/ /\ staged' = Unstaged(i)
              /\ rotten' = rotten \ {<<"pending", i>>}
      BY <1>8 DEF TickCleanup
  <2>3. \A j \in Id : <<"pending", j>> \in rotten =>
            staged'[j] = NoFile \/ <<"pending", j>> \in rotten'
      BY <1>1, <2>2 DEF TypeOK, Unstaged
  <2>4. \A j \in Id : <<"pending", j>> \in rotten' /\ j \in Pend' => j \in Pend
      BY <2>2, Settled DEF ScanPending
  <2> QED
      BY <2>1, <2>2, <2>3, <2>4, GoneCalm
<1>9. ASSUME NEW i \in Eligible \ Skipped, NEW passed \in SUBSET Skipped,
             NEW p \in SmallPairs, TickPublish(i, passed, p)
      PROVE  Gone'
  <2>1. Calm
      BY <1>9, CalmSteps DEF CalmStep
  <2>2. /\ erased' = erased /\ rotten' = rotten
        /\ \E rc, b, in, out : Settle(rc, Pend \ {i}, b, in, out)
        /\ published' \in {published, [published EXCEPT ![i] = staged[i]]}
      BY <1>9 DEF TickPublish
  <2>3. i \in Pend /\ i \in Id /\ staged[i] # NoFile
      BY <1>1 DEF Eligible, Rows
  <2>4. \A j \in Id : published'[j] = published[j] \/ j = i
      BY <1>1, <2>2, <2>3 DEF TypeOK
  <2>5. \A j \in Id : <<"pending", j>> \in rotten' /\ j \in Pend' => j \in Pend
      BY <2>2, Settled DEF ScanPending
  <2> QED
      BY <2>1, <2>2, <2>3, <2>4, <2>5, GoneCalm
<1>10. ASSUME NEW o \in Outcomes, PowerCut(o)
       PROVE  Gone'
  <2>1. Calm
      BY <1>10, CalmSteps DEF CalmStep
  <2>2. UNCHANGED <<staged, published, rotten, erased>>
      BY <1>10 DEF PowerCut, media
  <2>3. Pend' = ScanPending'
      BY <1>10, <2>2 DEF PowerCut, Pend, ScanPending
  <2>4. \A j \in Id : <<"pending", j>> \in rotten' /\ j \in Pend' => j \in Pend
      BY <2>3 DEF ScanPending
  <2> QED
      BY <2>1, <2>2, <2>4, GoneCalm
<1>11. ASSUME NEW c \in {"pending", "inbox", "outbox"}, NEW i \in Id, Rot(c, i)
       PROVE  Gone'
  <2>1. Calm
      BY <1>11, CalmSteps DEF CalmStep
  <2>2. UNCHANGED <<staged, published, erased, ready, pendIdx>> /\ rotten \subseteq rotten'
      BY <1>11 DEF Rot, index
  <2> QED
      BY <1>2, <2>1, <2>2
<1> QED
    BY <1>3, <1>4, <1>5, <1>6, <1>7, <1>8, <1>9, <1>10, <1>11,
       GoneDelete, GoneQueue DEF Next, Tick, TickRequest, Caller

(***************************************************************************)
(* What a step may do to a body that is durable: leave it so, or give it   *)
(* up knowingly.                                                           *)
Dropped(g) ==
    /\ g \notin owed' \/ Waits(g)'
    /\ receiptCommitted => g \notin receiptFrag'

Stays == \A g \in Frag \union Copy : Durable(g) => Durable(g)' \/ Dropped(g)

LEMMA Discarded ==
    ASSUME NEW bodies, Discard(bodies), NEW g \in bodies,
           Waits(g) => Waits(g)'
    PROVE  Dropped(g)
<1>1. owed' = owed \ (bodies \ {queue[n].body : n \in 1 .. Len(queue)})
    BY DEF Discard
<1>2. g \notin owed' \/ Waits(g)
    BY <1>1 DEF Waits, Entries
<1>3. receiptCommitted => g \notin receiptFrag'
    BY DEF Discard
<1> QED
    BY <1>2, <1>3 DEF Dropped

(* Files that only grow keep every body.                                   *)
LEMMA FilesGrow ==
    ASSUME TypeOK, stray \subseteq stray', NEW J \in SUBSET Id,
           \A i \in Id : /\ published[i] \subseteq published'[i]
                         /\ outbox[i] \in Copy => outbox'[i] = outbox[i]
                         /\ \/ staged[i] \subseteq staged'[i]
                            \/ staged[i] \subseteq published'[i] \union stray'
                            \/ i \in J,
           \A i \in Id \ J : staged[i] # NoFile /\ Kept(i) => Kept(i)',
           NEW g \in Frag \union Copy, Durable(g),
           \A i \in J : Kept(i) => g \notin staged[i]
    PROVE  Durable(g)'
<1>1. CASE g \in stray
    BY <1>1 DEF Durable
<1>2. ASSUME NEW i \in Id, g \in published[i]
      PROVE  Durable(g)'
    BY <1>2 DEF Durable
<1>3. ASSUME NEW i \in Id, outbox[i] = g
      PROVE  Durable(g)'
  <2>1. outbox[i] \in Copy \union {Draft, NoBody}
      BY DEF TypeOK
  <2>2. outbox[i] \in Copy
      BY <1>3, <2>1, MessageServiceAssumption
  <2> QED
      BY <1>3, <2>2 DEF Durable
<1>4. ASSUME NEW i \in Id, g \in staged[i], Kept(i)
      PROVE  Durable(g)'
  <2>1. i \notin J /\ Kept(i)'
      BY <1>4 DEF NoFile
  <2> QED
      BY <1>4, <2>1 DEF Durable
<1> QED
    BY <1>1, <1>2, <1>3, <1>4 DEF Durable

LEMMA KeptCalm ==
    ASSUME CalmQueue, NEW i \in Id, Kept(i),
           <<"pending", i>> \in rotten' => <<"pending", i>> \in rotten
    PROVE  Kept(i)'
<1>1. PICK from \in [Entries' -> Entries] :
          /\ From1to1(from)
          /\ \A n \in Entries' : SameEntry(queue'[n], queue[from[n]])
    BY DEF CalmQueue
<1>2. ASSUME NEW n \in Arrivals'
      PROVE  from[n] \in Arrivals /\ queue'[n].id = queue[from[n]].id
    BY <1>1, <1>2 DEF SameEntry, Arrivals
<1> QED
    BY <1>2 DEF Kept

LEMMA KeptServed ==
    ASSUME IInv, NEW k \in Servable, NEW id \in 0 .. MaxId, NEW rc,
           Served(From(k), id, rc), NEW i \in Id, Kept(i),
           <<"pending", i>> \in rotten' => <<"pending", i>> \in rotten,
           \/ queue[k].out
           \/ i # id
           \/ i = queue[k].id
           \/ <<"pending", i>> \notin rotten
    PROVE  Kept(i)'
<1>1. PICK from \in [Entries' -> Entries] :
          /\ From1to1(from) /\ Renamed(k, id, from)
    BY ServedRenamed
<1>2. ASSUME NEW n \in Arrivals', \A m \in Arrivals : queue[m].id # i,
             <<"pending", i>> \in rotten
      PROVE  queue'[n].id # i
  <2>1. n \in Entries' /\ from[n] \in Arrivals
      BY <1>1 DEF Arrivals, Renamed
  <2>2. queue'[n].id = IF from[n] = k THEN id ELSE queue[from[n]].id
      BY <1>1, <2>1 DEF Renamed
  <2> QED
      BY <1>2, <2>1, <2>2 DEF Arrivals
<1> QED
    BY <1>2 DEF Kept

LEMMA StaysQuiet ==
    ASSUME IInv, CalmQueue, UNCHANGED <<staged, published, stray>>,
           \A i \in Id : outbox[i] \in Copy => outbox'[i] = outbox[i],
           \A i \in Id : <<"pending", i>> \in rotten' => <<"pending", i>> \in rotten
    PROVE  Stays
<1>1. TypeOK /\ {} \in SUBSET Id
    BY DEF IInv
<1>2. \A i \in Id : Kept(i) => Kept(i)'
    BY KeptCalm
<1>3. ASSUME NEW g \in Frag \union Copy, Durable(g)
      PROVE  Durable(g)'
    BY <1>1, <1>2, <1>3, FilesGrow
<1> QED
    BY <1>3 DEF Stays

LEMMA StaysAppend ==
    ASSUME IInv,
           \/ \E f \in Frag : Receive(f) \/ ReceiveTracked(f)
           \/ \E c \in Copy : Sent(c)
    PROVE  Stays
<1>1. /\ UNCHANGED <<media, stray>>
      /\ queue' = queue \/ \E r \in Item : r.id = 0 /\ queue' = Append(queue, r)
    BY Appends
<1>2. queue \in Seq(Item) /\ Len(queue) \in Nat /\ TypeOK /\ {} \in SUBSET Id
    BY DEF IInv, TypeOK
<1>3. ASSUME NEW n \in Entries', queue'[n].id # 0
      PROVE  n \in Entries /\ queue'[n] = queue[n]
    BY <1>1, <1>2, <1>3 DEF Entries
<1>4. 0 \notin Id
    BY DEF Id
<1>5. ASSUME NEW i \in Id, Kept(i)
      PROVE  Kept(i)'
    BY <1>1, <1>3, <1>4, <1>5 DEF Kept, Arrivals, media
<1>6. ASSUME NEW g \in Frag \union Copy, Durable(g)
      PROVE  Durable(g)'
    BY <1>1, <1>2, <1>5, <1>6, FilesGrow DEF media
<1> QED
    BY <1>6 DEF Stays

LEMMA StaysSave ==
    ASSUME IInv, NEW p \in Pairs, TickSave(p)
    PROVE  Stays
<1> DEFINE r == req["SAVE"]
           full == \/ r.id \notin Out /\ Full(Out, MailboxLimit)
                   \/ Exhausted(r.id)
           id == Reserved(r.id, p[1])
<1>1. /\ TypeOK /\ Apart /\ Drawn /\ nextId \in Nat
    BY MessageServiceAssumption DEF IInv, TypeOK
<1>2. /\ UNCHANGED <<staged, published, stray, queue>>
      /\ rotten' = IF full THEN rotten ELSE Mended("outbox", id, p)
      /\ outbox' \in {outbox, [outbox EXCEPT ![id] = Draft]}
  <2>1. CASE full
      BY <2>1 DEF TickSave
  <2>2. CASE ~ full
      BY <2>2 DEF TickSave
  <2> QED
      BY <2>1, <2>2
<1>3. CalmQueue
    BY <1>1, <1>2, SameQueue DEF TypeOK
<1>4. \A i \in Id : <<"pending", i>> \in rotten' => <<"pending", i>> \in rotten
    BY <1>2 DEF Mended
<1>5. "SAVE" \in Waiting
    BY DEF TickSave, Turn
<1>6. ASSUME NEW i \in Id, outbox[i] \in Copy
      PROVE  outbox'[i] = outbox[i]
  <2>1. ~ Saving(i) /\ i < nextId
    <3>1. outbox[i] \notin {NoBody, Draft}
        BY <1>6, MessageServiceAssumption
    <3> QED
        BY <1>1, <3>1 DEF Apart, Drawn, Id
  <2>2. r.id # i
      BY <1>5, <2>1 DEF Saving
  <2>3. i # 0 /\ i # nextId
      BY <1>1, <2>1 DEF Id
  <2>4. id # i
      BY <2>2, <2>3 DEF Reserved
  <2> HIDE DEF id, full
  <2> QED
      BY <1>1, <1>2, <2>4 DEF TypeOK
<1> QED
    BY <1>2, <1>3, <1>4, <1>6, StaysQuiet

LEMMA StaysDelete ==
    ASSUME IInv, NEW p \in SmallPairs, TickDelete(p)
    PROVE  Stays
<1> DEFINE r == req["DELETE"]
           id == r.id
           box == r.box
           known == id \in BoxIdx(box) \/ r.attempted
           unstage == known /\ id \in Pend /\ Hit(p[1])
           remove == known /\ Second(p)
           bodies == IF ~ remove THEN {}
                     ELSE IF box = "inbox" THEN published[id]
                     ELSE {outbox[id]}
<1>1. TypeOK /\ Rows /\ Begun /\ Apart /\ Shelved
    BY DEF IInv
<1>2. "DELETE" \in Waiting /\ "DELETE" \in Ops
  <2>1. Turn("DELETE")
      BY DEF TickDelete
  <2> QED
      BY <2>1 DEF Turn, Waiting
<1>3. /\ id \in Id /\ box \in {"inbox", "outbox"}
      /\ r.attempted => id \notin Pend
  <2>1. req["DELETE"] \in Request
      BY <1>1, <1>2 DEF TypeOK
  <2> QED
      BY <1>1, <1>2, <2>1 DEF Request, Box, Begun
<1>4. CalmQueue
    BY CalmSteps DEF CalmStep, Calm
<1>5. /\ staged' = IF unstage THEN Unstaged(id) ELSE staged
      /\ published' = IF remove /\ box = "inbox"
                      THEN [published EXCEPT ![id] = NoFile] ELSE published
      /\ outbox' = IF remove /\ box = "outbox"
                   THEN [outbox EXCEPT ![id] = NoBody] ELSE outbox
      /\ Discard(bodies) /\ stray' = stray
    BY DEF TickDelete, Twin
<1>6. rotten' \subseteq rotten
    BY DEF TickDelete
<1>7. unstage => staged[id] \subseteq published[id] \union stray
  <2>1. ASSUME unstage
        PROVE  staged[id] \subseteq published[id] \union stray
    <3>1. id \in BoxIdx(box) /\ id \in Pend
        BY <1>3, <2>1
    <3>2. staged[id] # NoFile
        BY <1>1, <3>1 DEF Rows
    <3>3. CASE box = "inbox"
      <4>1. published[id] # NoFile
          BY <1>1, <3>1, <3>3 DEF BoxIdx, Rows
      <4> QED
          BY <1>1, <1>3, <4>1 DEF Shelved
    <3>4. CASE box # "inbox"
      <4>1. outbox[id] # NoBody
          BY <1>1, <3>1, <3>4 DEF BoxIdx, Rows
      <4> QED
          BY <1>1, <1>3, <3>2, <4>1 DEF Apart
    <3> QED
        BY <3>3, <3>4
  <2> QED
      BY <2>1
<1>8. \A g : Waits(g) => Waits(g)'
  <2>1. Entries' = Entries /\ \A n \in Entries : queue'[n].body = queue[n].body
    <3>1. \/ queue' = queue
          \/ queue' = [n \in 1 .. Len(queue) |-> [queue[n] EXCEPT !.deferred = FALSE]]
        BY DEF TickDelete
    <3>2. queue \in Seq(Item) /\ Len(queue) \in Nat
        BY <1>1 DEF TypeOK
    <3>3. CASE queue' = [n \in 1 .. Len(queue) |-> [queue[n] EXCEPT !.deferred = FALSE]]
      <4>1. Len(queue') = Len(queue)
          BY <3>2, <3>3
      <4>2. \A n \in 1 .. Len(queue) : queue[n] \in Item
          BY <3>2
      <4>3. \A n \in 1 .. Len(queue) : queue'[n] = [queue[n] EXCEPT !.deferred = FALSE]
          BY <3>3
      <4> QED
          BY <4>1, <4>2, <4>3 DEF Entries, Item
    <3> QED
        BY <3>1, <3>3 DEF Entries
  <2> QED
      BY <2>1 DEF Waits
<1>9. /\ \A i \in Id : i # id => /\ staged'[i] = staged[i]
                                 /\ published'[i] = published[i]
                                 /\ outbox'[i] = outbox[i]
      /\ staged'[id] = staged[id] \/ unstage
      /\ published'[id] = published[id] \/ bodies = published[id]
      /\ outbox'[id] = outbox[id] \/ bodies = {outbox[id]}
    BY <1>1, <1>3, <1>5 DEF TypeOK, Unstaged
<1> HIDE DEF unstage, remove, bodies, id, r, box, known
<1>10. ASSUME NEW g \in Frag \union Copy, Durable(g), g \notin bodies
       PROVE  Durable(g)'
  <2>1. CASE g \in stray
      BY <1>5, <2>1 DEF Durable
  <2>2. ASSUME NEW i \in Id, g \in published[i] \/ outbox[i] = g
        PROVE  Durable(g)'
    <3>1. g \in published'[i] \/ outbox'[i] = g
        BY <1>9, <1>10, <2>2
    <3> QED
        BY <3>1 DEF Durable
  <2>3. ASSUME NEW i \in Id, g \in staged[i], Kept(i)
        PROVE  Durable(g)'
    <3>1. CASE staged'[i] = staged[i]
      <4>1. Kept(i)'
          BY <1>4, <1>6, <2>3, KeptCalm
      <4> QED
          BY <2>3, <3>1, <4>1 DEF Durable
    <3>2. CASE staged'[i] # staged[i]
      <4>1. g \in published[id] \/ g \in stray
          BY <1>7, <1>9, <2>3, <3>2
      <4> QED
          BY <1>3, <2>1, <2>2, <4>1
    <3> QED
        BY <3>1, <3>2
  <2> QED
      BY <1>10, <2>1, <2>2, <2>3 DEF Durable
<1>11. ASSUME NEW g \in bodies
       PROVE  Dropped(g)
    BY <1>5, <1>8, Discarded
<1> QED
    BY <1>10, <1>11 DEF Stays

LEMMA StaysCleanup ==
    ASSUME IInv, NEW i \in Pend, NEW w \in Wall, NEW o \in Small,
           TickCleanup(w, i, o)
    PROVE  Stays
<1> DEFINE bodies == staged[i] \ staged'[i]
<1>1. TypeOK /\ i \in Id
    BY RowTypes DEF IInv
<1>2. CalmQueue
    BY CalmSteps DEF CalmStep, Calm
<1>3. UNCHANGED <<published, outbox, stray, queue>> /\ rotten' \subseteq rotten
    BY DEF TickCleanup
<1>4. staged' = staged \/ (staged' = Unstaged(i) /\ Discard(staged[i]))
  <2>1. CASE Hit(o)
      BY <2>1 DEF TickCleanup
  <2>2. CASE ~ Hit(o)
      BY <2>2 DEF TickCleanup
  <2> QED
      BY <2>1, <2>2
<1>5. \A j \in Id : Kept(j) => Kept(j)'
    BY <1>2, <1>3, KeptCalm
<1>6. CASE staged' = staged
    BY <1>2, <1>3, <1>6, StaysQuiet
<1>7. CASE staged' = Unstaged(i) /\ Discard(staged[i])
  <2>1. ASSUME NEW g \in staged[i] PROVE Dropped(g)
    <3>1. Waits(g) => Waits(g)'
        BY <1>3 DEF Waits, Entries
    <3> QED
        BY <1>7, <3>1, Discarded
  <2>2. \A j \in Id : j # i => staged'[j] = staged[j]
      BY <1>1, <1>7 DEF Unstaged, TypeOK
  <2>3. ASSUME NEW g \in Frag \union Copy, Durable(g), g \notin staged[i]
        PROVE  Durable(g)'
    <3>1. {i} \in SUBSET Id
        BY <1>1
    <3>2. \A j \in Id : /\ published[j] \subseteq published'[j]
                        /\ outbox[j] \in Copy => outbox'[j] = outbox[j]
                        /\ \/ staged[j] \subseteq staged'[j]
                           \/ staged[j] \subseteq published'[j] \union stray'
                           \/ j \in {i}
        BY <1>3, <2>2
    <3> QED
        BY <1>1, <1>3, <1>5, <2>3, <3>1, <3>2, FilesGrow
  <2> QED
      BY <2>1, <2>3 DEF Stays
<1> QED
    BY <1>4, <1>6, <1>7

LEMMA StaysPublish ==
    ASSUME IInv, NEW i \in Eligible \ Skipped, NEW passed \in SUBSET Skipped,
           NEW p \in SmallPairs, TickPublish(i, passed, p)
    PROVE  Stays
<1> DEFINE forced == \/ <<"pending", i>> \in rotten
                     \/ i \in In /\ published[i] = NoFile
           filter == published[i] = NoFile /\ Control(staged[i])
           fresh == published[i] = NoFile /\ ~ Control(staged[i])
           write == ~ forced /\ fresh /\ Hit(p[1])
           remove == ~ forced /\ Second(p)
<1>1. TypeOK /\ i \in Id
    BY RowTypes, ScannedRows DEF IInv
<1>2. CalmQueue
    BY CalmSteps DEF CalmStep, Calm
<1>3. UNCHANGED <<outbox, stray, queue, rotten>>
    BY DEF TickPublish
<1>4. /\ published' = IF write THEN [published EXCEPT ![i] = staged[i]]
                      ELSE published
      /\ staged' = IF remove THEN Unstaged(i) ELSE staged
      /\ Discard(IF remove /\ filter THEN staged[i] ELSE {})
    BY DEF TickPublish
<1>5. \A j \in Id : Kept(j) => Kept(j)'
    BY <1>2, <1>3, KeptCalm
<1>6. /\ \A j \in Id : j # i => /\ staged'[j] = staged[j]
                                /\ published'[j] = published[j]
      /\ staged'[i] = IF remove THEN NoFile ELSE staged[i]
      /\ published'[i] = IF write THEN staged[i] ELSE published[i]
    BY <1>1, <1>4 DEF Unstaged, TypeOK
<1>7. remove /\ ~ filter => staged[i] \subseteq published'[i]
  <2>1. ASSUME remove, fresh
        PROVE  staged[i] \subseteq published'[i]
    <3>1. Hit(p[1])
        BY <2>1 DEF Second, Hit
    <3> QED
        BY <1>6, <2>1, <3>1
  <2>2. ASSUME remove, published[i] # NoFile
        PROVE  staged[i] \subseteq published'[i]
    <3>1. ~ Conflict(i)
        BY DEF Skipped
    <3>2. published[i] = staged[i]
        BY <2>2, <3>1 DEF Conflict
    <3> QED
        BY <1>6, <3>2
  <2> QED
      BY <2>1, <2>2
<1>8. \A j \in Id : published[j] \subseteq published'[j]
  <2>1. published[i] \subseteq published'[i]
      BY <1>6 DEF NoFile
  <2> QED
      BY <1>6, <2>1
<1> HIDE DEF forced, fresh, write, remove, filter
<1>9. CASE remove /\ filter
  <2>1. ASSUME NEW g \in staged[i] PROVE Dropped(g)
    <3>1. Waits(g) => Waits(g)'
        BY <1>3 DEF Waits, Entries
    <3> QED
        BY <1>4, <1>9, <3>1, Discarded
  <2>2. ASSUME NEW g \in Frag \union Copy, Durable(g), g \notin staged[i]
        PROVE  Durable(g)'
    <3>1. {i} \in SUBSET Id
        BY <1>1
    <3>2. \A j \in Id : /\ published[j] \subseteq published'[j]
                        /\ outbox[j] \in Copy => outbox'[j] = outbox[j]
                        /\ \/ staged[j] \subseteq staged'[j]
                           \/ staged[j] \subseteq published'[j] \union stray'
                           \/ j \in {i}
        BY <1>3, <1>6, <1>8
    <3> QED
        BY <1>1, <1>3, <1>5, <2>2, <3>1, <3>2, FilesGrow
  <2> QED
      BY <2>1, <2>2 DEF Stays
<1>10. CASE ~ (remove /\ filter)
  <2>1. {} \in SUBSET Id
      OBVIOUS
  <2>2. \A j \in Id : /\ published[j] \subseteq published'[j]
                      /\ outbox[j] \in Copy => outbox'[j] = outbox[j]
                      /\ \/ staged[j] \subseteq staged'[j]
                         \/ staged[j] \subseteq published'[j] \union stray'
                         \/ j \in {}
      BY <1>3, <1>6, <1>7, <1>8, <1>10
  <2>3. ASSUME NEW g \in Frag \union Copy, Durable(g)
        PROVE  Durable(g)'
      BY <1>1, <1>3, <1>5, <2>1, <2>2, <2>3, FilesGrow
  <2> QED
      BY <2>3 DEF Stays
<1> QED
    BY <1>9, <1>10

LEMMA StaysRot ==
    ASSUME IInv, NEW c \in {"pending", "inbox", "outbox"}, NEW i \in Id, Rot(c, i)
    PROVE  Stays
<1>1. TypeOK /\ queue \in Seq(Item) /\ queue' = queue
    BY DEF IInv, TypeOK, Rot
<1>2. /\ UNCHANGED <<staged, published, outbox, stray>>
      /\ rotten' = rotten \union {<<c, i>>}
    BY DEF Rot
<1>3. CASE c # "pending"
  <2>1. CalmQueue
      BY <1>1, SameQueue
  <2> QED
      BY <1>2, <1>3, <2>1, StaysQuiet
<1>4. CASE c = "pending"
  <2>1. ASSUME NEW g \in staged[i] PROVE Dropped(g)
    <3>1. Waits(g) => Waits(g)'
        BY <1>1 DEF Waits, Entries
    <3>2. Discard(staged[i])
        BY <1>4 DEF Rot
    <3> QED
        BY <3>1, <3>2, Discarded
  <2>2. ASSUME NEW g \in Frag \union Copy, Durable(g), g \notin staged[i]
        PROVE  Durable(g)'
    <3>1. {i} \in SUBSET Id
        OBVIOUS
    <3>2. \A j \in Id \ {i} : Kept(j) => Kept(j)'
        BY <1>1, <1>2 DEF Kept, Arrivals, Entries
    <3> QED
        BY <1>1, <1>2, <2>2, <3>1, <3>2, FilesGrow
  <2> QED
      BY <2>1, <2>2 DEF Stays
<1> QED
    BY <1>3, <1>4

(* A served entry: nothing durable is lost, and what was served with       *)
(* success is durable.                                                     *)
LEMMA StaysMerge ==
    ASSUME IInv, NEW k \in Servable, NEW i \in Scanned, NEW o \in Outcomes,
           TickServeMerge(k, i, o)
    PROVE  Stays /\ (Code(o) = "OK" => \A g \in {queue[k].body} : Durable(g)')
<1> DEFINE body == queue[k].body
<1>1. TypeOK /\ i \in Id /\ {} \in SUBSET Id
    BY RowTypes, ScannedRows DEF IInv
<1>2. /\ Served(From(k), i, Code(o)) /\ i \in Related(body)
      /\ staged' = IF Hit(o) THEN [staged EXCEPT ![i] = @ \union {body}]
                   ELSE staged
      /\ outbox' = outbox /\ rotten' = rotten /\ Strays(Hit(o), i, body)
    BY Entry DEF TickServeMerge
<1>3. /\ published' = published /\ stray \subseteq stray'
      /\ <<"pending", i>> \notin rotten
    BY <1>2 DEF Served, Strays, Related
<1>4. \A j \in Id : staged[j] \subseteq staged'[j]
  <2>1. \A j \in Id : j # i => staged'[j] = staged[j]
      BY <1>1, <1>2 DEF TypeOK
  <2>2. staged'[i] \in {staged[i], staged[i] \union {body}}
      BY <1>1, <1>2 DEF TypeOK
  <2> QED
      BY <2>1, <2>2
<1>5. i \in 0 .. MaxId
    BY <1>1, MessageServiceAssumption DEF Id
<1>6. \A j \in Id : Kept(j) => Kept(j)'
    BY <1>2, <1>3, <1>5, KeptServed
<1>7. ASSUME NEW g \in Frag \union Copy, Durable(g)
      PROVE  Durable(g)'
    BY <1>1, <1>2, <1>3, <1>4, <1>6, <1>7, FilesGrow
<1>8. ASSUME Code(o) = "OK", NEW g \in {body}
      PROVE  Durable(g)'
  <2>1. Hit(o)
      BY <1>8, Codes
  <2>2. body \in staged'[i]
      BY <1>1, <1>2, <2>1 DEF TypeOK
  <2>3. Kept(i)'
      BY <1>2, <1>3 DEF Kept
  <2>4. \E j \in Id : g \in staged'[j] /\ Kept(j)'
      BY <1>1, <2>2, <2>3
  <2> QED
      BY <2>4 DEF Durable
<1> QED
    BY <1>7, <1>8 DEF Stays

LEMMA StaysSent ==
    ASSUME IInv, NEW k \in Servable, NEW p \in Pairs, TickServeSent(k, p)
    PROVE  /\ Stays
           /\ Code(Worst(p)) = "OK" => \A g \in {queue[k].body} : Durable(g)'
<1> DEFINE body == queue[k].body
           id == Reserved(queue[k].id, p[1])
           rc == Code(Worst(p))
<1>1. TypeOK /\ CopyOnce /\ Drawn /\ {} \in SUBSET Id /\ 0 \notin Id
    BY DEF IInv, Id
<1>2. /\ queue[k].out
      /\ ~ Exhausted(queue[k].id) /\ Reserve(queue[k].id, p[1])
      /\ outbox' = IF Second(p) THEN [outbox EXCEPT ![id] = body] ELSE outbox
      /\ Served(From(k), id, rc)
      /\ staged' = staged /\ stray' = stray /\ rotten' = Mended("outbox", id, p)
    BY Entry DEF TickServeSent
<1>3. published' = published
    BY <1>2 DEF Served
<1>4. p[1] \in Outcomes /\ (Second(p) => p[1] = "ok")
      /\ (rc = "OK" => Second(p))
    BY PairCodes
<1>5. /\ id \in 0 .. MaxId /\ nextId \in Nat
      /\ id = 0 <=> (queue[k].id = 0 /\ p[1] # "ok")
      /\ queue[k].id # 0 => id = queue[k].id
      /\ queue[k].id = 0 /\ id # 0 => id = nextId
    BY <1>2, <1>4, EntryReserved
<1>6. Second(p) => id \in Id
    BY <1>4, <1>5 DEF Id
<1>7. k \in Copies
    BY <1>2, Entry DEF Copies
<1> HIDE DEF id, body, rc
<1>8. ASSUME NEW j \in Id, outbox[j] \in Copy
      PROVE  outbox'[j] = outbox[j]
  <2>1. CASE j # id
      BY <1>1, <1>2, <2>1 DEF TypeOK
  <2>2. CASE j = id
    <3>1. outbox[j] # NoBody
        BY <1>8, MessageServiceAssumption
    <3>2. j < nextId
        BY <1>1, <1>5, <3>1 DEF Drawn, Id
    <3>3. queue[k].id = j
        BY <1>1, <1>5, <2>2, <3>2
    <3>4. outbox[j] = body
        BY <1>1, <1>7, <3>1, <3>3 DEF CopyOnce, body
    <3> QED
        BY <1>1, <1>2, <2>2, <3>4 DEF TypeOK
  <2> QED
      BY <2>1, <2>2
<1>9. \A j \in Id : <<"pending", j>> \in rotten' => <<"pending", j>> \in rotten
    BY <1>2 DEF Mended
<1>10. \A j \in Id : Kept(j) => Kept(j)'
    BY <1>2, <1>5, <1>9, KeptServed
<1>11. ASSUME NEW g \in Frag \union Copy, Durable(g)
       PROVE  Durable(g)'
    BY <1>1, <1>2, <1>3, <1>8, <1>10, <1>11, FilesGrow
<1>12. ASSUME rc = "OK", NEW g \in {body}
       PROVE  Durable(g)'
  <2>1. id \in Id /\ Second(p)
      BY <1>4, <1>6, <1>12
  <2>2. outbox'[id] = body
      BY <1>1, <1>2, <2>1 DEF TypeOK
  <2>4. \E j \in Id : outbox'[j] = g
      BY <2>1, <2>2
  <2> QED
      BY <2>4 DEF Durable
<1> QED
    BY <1>11, <1>12 DEF Stays, body, rc

LEMMA StaysStage ==
    ASSUME IInv, NEW k \in Servable, NEW p \in Pairs, TickServeStage(k, p)
    PROVE  /\ Stays
           /\ Code(Worst(p)) = "OK" => \A g \in {queue[k].body} : Durable(g)'
<1> DEFINE body == queue[k].body
           id == Reserved(queue[k].id, p[1])
           rc == Code(Worst(p))
<1>1. /\ TypeOK /\ OneGroup /\ Drawn /\ Rows /\ Shelved
      /\ {} \in SUBSET Id /\ 0 \notin Id
    BY DEF IInv, Id
<1>2. /\ ~ queue[k].out
      /\ ~ Exhausted(queue[k].id) /\ Reserve(queue[k].id, p[1])
      /\ staged' = IF Second(p) THEN [staged EXCEPT ![id] = {body}] ELSE staged
      /\ Served(From(k), id, rc) /\ Unrelated(body)
      /\ outbox' = outbox /\ rotten' = Mended("pending", id, p)
      /\ Strays(Second(p), id, body)
    BY Entry DEF TickServeStage
<1>3. published' = published /\ stray \subseteq stray'
    BY <1>2 DEF Served, Strays
<1>4. p[1] \in Outcomes /\ (Second(p) => p[1] = "ok")
      /\ (rc = "OK" => Second(p))
    BY PairCodes
<1>5. /\ id \in 0 .. MaxId /\ nextId \in Nat
      /\ id = 0 <=> (queue[k].id = 0 /\ p[1] # "ok")
      /\ queue[k].id # 0 => id = queue[k].id
      /\ queue[k].id = 0 /\ id # 0 => id = nextId
    BY <1>2, <1>4, EntryReserved
<1>6. Second(p) => id \in Id
    BY <1>4, <1>5 DEF Id
<1>7. k \in Arrivals
    BY <1>2, Entry DEF Arrivals
<1> HIDE DEF id, body, rc
<1>8. \A j \in Id : <<"pending", j>> \in rotten' => <<"pending", j>> \in rotten
    BY <1>2 DEF Mended
<1>9. ASSUME NEW j \in Id, staged[j] # NoFile, Kept(j)
      PROVE  Kept(j)'
  <2>1. j # id \/ j = queue[k].id
    <3>1. j < nextId
        BY <1>1, <1>5, <1>9 DEF Drawn, Id
    <3> QED
        BY <1>1, <1>5, <3>1
  <2> QED
      BY <1>2, <1>5, <1>8, <1>9, <2>1, KeptServed
(* What an arrival is staged over had been kept elsewhere.                 *)
<1>10. ASSUME Second(p), staged[id] # NoFile, Kept(id)
       PROVE  staged[id] \subseteq published[id] \union stray
  <2>1. id \in Id /\ id < nextId
      BY <1>1, <1>5, <1>6, <1>10 DEF Drawn, Id
  <2>2. queue[k].id = id
      BY <1>1, <1>5, <2>1
  <2>3. <<"pending", id>> \notin rotten
      BY <1>7, <1>10, <2>2 DEF Kept
  <2>4. id \in Pend
      BY <1>1, <1>10, <2>1, <2>3 DEF Rows, ScanPending
  <2>5. \A g \in staged[id] : /\ GroupOf[g] = GroupOf[body]
                              /\ PartsOf[GroupOf[body]] = 1 => g = body
    <3>1. /\ \A g \in staged[id] : GroupOf[g] = GroupOf[body]
          /\ PartsOf[GroupOf[body]] = 1 => staged[id] \subseteq {body}
        BY <1>1, <1>7, <2>1, <2>2 DEF OneGroup, body
    <3> QED
        BY <3>1
  <2>6. PICK g \in staged[id] : TRUE
      BY <1>10 DEF NoFile
  <2>7. Merge(staged[id], body) # "UNRELATED"
    <3>1. CASE body \in staged[id]
        BY <3>1 DEF Merge
    <3>2. CASE body \notin staged[id]
      <4>1. PartsOf[GroupOf[body]] # 1
          BY <2>5, <2>6, <3>2
      <4> QED
          BY <2>5, <4>1 DEF Merge
    <3> QED
        BY <3>1, <3>2
  <2>8. id \notin Scanned
      BY <1>2, <2>3, <2>7 DEF Unrelated, Related
  <2>9. id \in Blk \union Skipped
      BY <2>4, <2>8 DEF Scanned
  <2>10. published[id] # NoFile
      BY <1>1, <2>9 DEF Rows, Skipped, Conflict
  <2> QED
      BY <1>1, <2>1, <2>10 DEF Shelved
<1>11. ASSUME NEW j \in Id
       PROVE  \/ staged[j] \subseteq staged'[j]
              \/ staged[j] \subseteq published'[j] \union stray'
              \/ j \in {i \in Id : i = id /\ ~ Kept(id)}
  <2>1. CASE j # id \/ ~ Second(p)
    <3>1. staged'[j] = staged[j]
        BY <1>1, <1>2, <2>1 DEF TypeOK
    <3> QED
        BY <3>1
  <2>2. CASE j = id /\ Second(p) /\ Kept(id)
    <3>1. CASE staged[j] = NoFile
        BY <3>1 DEF NoFile
    <3>2. CASE staged[j] # NoFile
      <4>1. staged[id] \subseteq published[id] \union stray
          BY <1>10, <2>2, <3>2
      <4> QED
          BY <1>3, <2>2, <4>1
    <3> QED
        BY <3>1, <3>2
  <2> QED
      BY <2>1, <2>2
<1>12. ASSUME NEW g \in Frag \union Copy, Durable(g)
       PROVE  Durable(g)'
  <2> DEFINE J == {i \in Id : i = id /\ ~ Kept(id)}
  <2>1. J \in SUBSET Id
      OBVIOUS
  <2>2. \A i \in J : Kept(i) => g \notin staged[i]
      OBVIOUS
  <2>3. \A i \in Id : /\ published[i] \subseteq published'[i]
                      /\ outbox[i] \in Copy => outbox'[i] = outbox[i]
                      /\ \/ staged[i] \subseteq staged'[i]
                         \/ staged[i] \subseteq published'[i] \union stray'
                         \/ i \in J
      BY <1>2, <1>3, <1>11
  <2>4. \A i \in Id \ J : staged[i] # NoFile /\ Kept(i) => Kept(i)'
      BY <1>9
  <2> HIDE DEF J
  <2> QED
      BY <1>1, <1>3, <1>12, <2>1, <2>2, <2>3, <2>4, FilesGrow
<1>13. ASSUME rc = "OK", NEW g \in {body}
       PROVE  Durable(g)'
  <2>1. id \in Id /\ Second(p)
      BY <1>4, <1>6, <1>13
  <2>2. staged'[id] = {body}
      BY <1>1, <1>2, <2>1 DEF TypeOK
  <2>3. <<"pending", id>> \notin rotten'
      BY <1>2, <2>1 DEF Mended
  <2>4. \E j \in Id : g \in staged'[j] /\ <<"pending", j>> \notin rotten'
      BY <2>1, <2>2, <2>3
  <2> QED
      BY <2>4 DEF Durable, Kept
<1> QED
    BY <1>12, <1>13 DEF Stays, body, rc

LEMMA StaysKnown ==
    ASSUME IInv, NEW k \in Servable,
           \/ TickServeKnown(k) \/ TickServeFull(k)
           \/ \E o \in Outcomes : TickServeUnread(k, o)
    PROVE  /\ Stays
           /\ TickServeKnown(k) => \A g \in {queue[k].body} : Durable(g)'
<1>1. TypeOK /\ CopyOnce /\ Rows /\ Pend \subseteq Id /\ In \subseteq Id
      /\ Out \subseteq Id
    BY RowTypes DEF IInv
<1>2. CalmQueue
    BY CalmSteps DEF CalmStep, Calm
<1>3. UNCHANGED <<staged, published, outbox, rotten, stray>>
    BY DEF TickServeKnown, TickServeFull, TickServeUnread, Served
<1>4. Stays
    BY <1>2, <1>3, StaysQuiet
<1>5. ASSUME TickServeKnown(k), NEW g \in {queue[k].body}
      PROVE  Durable(g)'
  <2>1. IF queue[k].out THEN queue[k].id \in Out ELSE Duplicated(g)
      BY <1>5, Entry DEF TickServeKnown
  <2>2. CASE queue[k].out
    <3>1. k \in Copies
        BY <2>2, Entry DEF Copies
    <3>2. queue[k].id \in Id /\ outbox[queue[k].id] # NoBody
        BY <1>1, <2>1, <2>2 DEF Rows
    <3>3. outbox[queue[k].id] = g
        BY <1>1, <1>5, <3>1, <3>2 DEF CopyOnce
    <3>4. \E j \in Id : outbox'[j] = g
        BY <1>3, <3>2, <3>3
    <3> QED
        BY <3>4 DEF Durable
  <2>3. CASE ~ queue[k].out
    <3>1. \/ \E i \in Scanned : <<"pending", i>> \notin rotten /\ g \in staged[i]
          \/ \E i \in In : g \in published[i]
        BY <2>1, <2>3 DEF Duplicated
    <3>2. Scanned \subseteq Id
        BY <1>1 DEF Scanned
    <3>3. CASE \E i \in Scanned : <<"pending", i>> \notin rotten /\ g \in staged[i]
        BY <1>3, <3>2, <3>3 DEF Durable, Kept
    <3>4. CASE \E i \in In : g \in published[i]
        BY <1>1, <1>3, <3>4 DEF Durable
    <3> QED
        BY <3>1, <3>3, <3>4
  <2> QED
      BY <2>2, <2>3
<1> QED
    BY <1>4, <1>5

(***************************************************************************)
(* Nothing that is owed is lost, and a committed receipt is of what is     *)
(* durable.                                                                *)
LEMMA SafeKept ==
    ASSUME IInv, Stays, owed' \subseteq owed,
           \A g \in owed' : Waits(g) => Waits(g)' \/ Durable(g)',
           \A n \in Entries' : queue'[n].body \in owed'
    PROVE  Safe'
<1>1. Safe /\ owed \subseteq Frag \union Copy
    BY DEF IInv, TypeOK
<1>2. ASSUME NEW g \in owed'
      PROVE  Durable(g)' \/ Waits(g)'
  <2>1. Durable(g) \/ Waits(g)
      BY <1>1, <1>2 DEF Safe
  <2>2. Durable(g) => Durable(g)' \/ Dropped(g)
      BY <1>1, <1>2 DEF Stays
  <2> QED
      BY <1>2, <2>1, <2>2 DEF Dropped
<1> QED
    BY <1>2 DEF Safe

LEMMA TrackedKept ==
    ASSUME IInv, Stays,
           UNCHANGED <<receiptActive, receiptNext, receiptCommitted>>,
           receiptFrag' \subseteq receiptFrag,
           ~ receiptCommitted => receiptFrag' = receiptFrag,
           \A n \in Entries' : \E m \in Entries :
               /\ queue'[n].receipt = queue[m].receipt
               /\ queue'[n].body = queue[m].body
    PROVE  Tracked'
<1>1. Tracked /\ receiptFrag \subseteq Frag \union Copy
    BY DEF IInv, TypeOK
<1>2. /\ receiptActive' = 0 => receiptFrag' = {} /\ ~ receiptCommitted'
      /\ receiptActive' <= receiptNext'
      /\ \A f, g \in receiptFrag' : f = g
    BY <1>1 DEF Tracked
<1>3. ASSUME receiptCommitted', NEW f \in receiptFrag'
      PROVE  Durable(f)'
  <2>1. Durable(f)
      BY <1>1, <1>3 DEF Tracked
  <2>2. Durable(f)' \/ Dropped(f)
      BY <1>1, <1>3, <2>1 DEF Stays
  <2> QED
      BY <1>3, <2>2 DEF Dropped
<1>4. ASSUME NEW n \in Entries'
      PROVE  /\ queue'[n].receipt <= receiptNext'
             /\ /\ receiptActive' # 0 /\ ~ receiptCommitted'
                /\ queue'[n].receipt = receiptActive'
                => receiptFrag' = {queue'[n].body}
  <2>1. PICK m \in Entries : /\ queue'[n].receipt = queue[m].receipt
                             /\ queue'[n].body = queue[m].body
      BY <1>4
  <2> QED
      BY <1>1, <2>1 DEF Tracked
<1> QED
    BY <1>2, <1>3, <1>4 DEF Tracked

LEMMA SafeServed ==
    ASSUME IInv, Stays, NEW k \in Servable, NEW id \in 0 .. MaxId, NEW rc,
           Served(From(k), id, rc),
           rc = "OK" => \A g \in {queue[k].body} : Durable(g)'
    PROVE  Safe' /\ Tracked'
<1>1. /\ k \in 1 .. Len(queue) /\ queue \in Seq(Item) /\ k \in Entries
      /\ Head(From(k)) = queue[k] /\ Safe /\ Tracked
      /\ receiptFrag \subseteq Frag \union Copy
    BY Entry DEF IInv, TypeOK, Servable
<1>2. PICK from \in [Entries' -> Entries] : From1to1(from) /\ Renamed(k, id, from)
    BY ServedRenamed
<1>3. /\ UNCHANGED <<owed, receiptActive, receiptNext, receiptFrag>>
      /\ receiptCommitted' = (receiptCommitted \/ (rc = "OK" /\ Acknowledged(queue[k])))
    BY <1>1 DEF Served
<1>4. ASSUME NEW g, Waits(g)
      PROVE  Waits(g)' \/ Durable(g)'
  <2>1. CASE rc # "OK" \/ g # queue[k].body
      BY <1>1, <1>4, <2>1, ServedEntries
  <2>2. CASE rc = "OK" /\ g = queue[k].body
      BY <2>2
  <2> QED
      BY <2>1, <2>2
<1>5. ASSUME NEW n \in Entries'
      PROVE  \E m \in Entries : /\ queue'[n].receipt = queue[m].receipt
                                /\ queue'[n].body = queue[m].body
    BY <1>2 DEF Renamed
<1>6. \A n \in Entries' : queue'[n].body \in owed'
    BY <1>1, <1>3, <1>5 DEF Safe
<1>7. Safe'
    BY <1>3, <1>4, <1>6, SafeKept
<1>8. CASE receiptCommitted' = receiptCommitted
    BY <1>3, <1>5, <1>7, <1>8, TrackedKept
<1>9. CASE receiptCommitted' # receiptCommitted
  <2>1. receiptCommitted \in BOOLEAN
      BY DEF IInv, TypeOK
  <2>2. /\ ~ receiptCommitted /\ receiptCommitted' /\ rc = "OK"
        /\ queue[k].receipt # 0 /\ queue[k].receipt = receiptActive
      BY <1>3, <1>9, <2>1 DEF Acknowledged
  <2>3. receiptFrag = {queue[k].body}
      BY <1>1, <2>2 DEF Tracked
  <2>4. \A f \in receiptFrag' : Durable(f)'
      BY <1>3, <2>2, <2>3
  <2>5. /\ receiptActive' # 0
        /\ receiptActive' <= receiptNext'
        /\ \A f, g \in receiptFrag' : f = g
      BY <1>1, <1>3, <2>2 DEF Tracked
  <2>6. \A n \in Entries' : queue'[n].receipt <= receiptNext'
      BY <1>1, <1>3, <1>5 DEF Tracked
  <2>7. Tracked'
      BY <2>2, <2>4, <2>5, <2>6 DEF Tracked
  <2> QED
      BY <1>7, <2>7
<1> QED
    BY <1>8, <1>9

LEMMA SafeQueue ==
    ASSUME IInv, TickQueue
    PROVE  Safe' /\ Tracked'
<1>1. TypeOK /\ Pend \subseteq Id /\ queue \in Seq(Item) /\ Safe
    BY RowTypes DEF IInv, TypeOK
<1>2. CASE TickIdle
  <2>1. /\ UNCHANGED <<staged, published, outbox, rotten, stray, queue, owed>>
        /\ UNCHANGED receipts
      BY <1>2 DEF TickIdle, media
  <2>2. Stays
      BY <1>1, <2>1, SameQueue, StaysQuiet
  <2>3. Entries' = Entries
      BY <2>1 DEF Entries
  <2>4. Safe'
      BY <1>1, <2>1, <2>2, <2>3, SafeKept DEF Waits, Safe
  <2>5. Tracked'
      BY <2>1, <2>2, <2>3, TrackedKept DEF receipts
  <2> QED
      BY <2>4, <2>5
<1>3. ASSUME NEW k \in Servable, TickServeKnown(k)
      PROVE  Safe' /\ Tracked'
  <2>1. Served(From(k), queue[k].id, "OK") /\ queue[k].id \in 0 .. MaxId
      BY <1>3, Entry DEF TickServeKnown
  <2> QED
      BY <1>3, <2>1, StaysKnown, SafeServed
<1>4. ASSUME NEW k \in Servable, NEW o \in Outcomes, TickServeUnread(k, o)
      PROVE  Safe' /\ Tracked'
  <2> DEFINE rc == IF o = "ok" THEN "ERROR" ELSE Code(o)
  <2>1. Served(From(k), queue[k].id, rc) /\ queue[k].id \in 0 .. MaxId
      BY <1>4, Entry DEF TickServeUnread
  <2>2. rc # "OK"
      BY Codes
  <2> HIDE DEF rc
  <2> QED
      BY <1>4, <2>1, <2>2, StaysKnown, SafeServed
<1>5. ASSUME NEW k \in Servable, TickServeFull(k)
      PROVE  Safe' /\ Tracked'
  <2>1. Served(From(k), queue[k].id, "FULL") /\ queue[k].id \in 0 .. MaxId
      BY <1>5, Entry DEF TickServeFull
  <2> QED
      BY <1>5, <2>1, StaysKnown, SafeServed
<1>6. ASSUME NEW k \in Servable, NEW i \in Scanned, NEW o \in Outcomes,
             TickServeMerge(k, i, o)
      PROVE  Safe' /\ Tracked'
  <2>1. Served(From(k), i, Code(o))
      BY <1>6 DEF TickServeMerge
  <2>2. i \in 0 .. MaxId
    <3>1. i \in Id
        BY <1>1 DEF Scanned
    <3> QED
        BY <3>1, MessageServiceAssumption DEF Id
  <2> QED
      BY <1>6, <2>1, <2>2, StaysMerge, SafeServed
<1>7. ASSUME NEW k \in Servable, NEW p \in Pairs,
             TickServeStage(k, p) \/ TickServeSent(k, p)
      PROVE  Safe' /\ Tracked'
  <2> DEFINE id == Reserved(queue[k].id, p[1])
             rc == Code(Worst(p))
  <2>1. /\ ~ Exhausted(queue[k].id) /\ Reserve(queue[k].id, p[1])
        /\ Served(From(k), id, rc)
      BY <1>7, Entry DEF TickServeStage, TickServeSent
  <2>2. id \in 0 .. MaxId
      BY <2>1, PairCodes, EntryReserved
  <2>3. Stays /\ (rc = "OK" => \A g \in {queue[k].body} : Durable(g)')
      BY <1>7, StaysStage, StaysSent
  <2> HIDE DEF id, rc
  <2> QED
      BY <2>1, <2>2, <2>3, SafeServed
<1> QED
    BY <1>2, <1>3, <1>4, <1>5, <1>6, <1>7 DEF TickQueue

LEMMA SafeAppend ==
    ASSUME IInv,
           \/ \E f \in Frag : Receive(f) \/ ReceiveTracked(f)
           \/ \E c \in Copy : Sent(c)
    PROVE  Safe' /\ Tracked'
<1>1. /\ TypeOK /\ Safe /\ Tracked /\ queue \in Seq(Item) /\ receiptNext \in Nat
      /\ Len(queue) \in Nat /\ 0 \in 0 .. MaxId /\ receiptActive \in Nat
      /\ receiptFrag \subseteq Frag /\ owed \subseteq Frag \union Copy
      /\ \A n \in Entries : queue[n].receipt \in Nat
  <2>1. \A n \in Entries : queue[n] \in Item
      BY DEF IInv, TypeOK, Entries
  <2> QED
      BY <2>1, MessageServiceAssumption DEF IInv, TypeOK, Item
<1>2. Stays
    BY StaysAppend
<1>3. ASSUME NEW r \in Item, queue' = Append(queue, r), owed' = owed \union {r.body}
      PROVE  /\ Safe'
             /\ Entries' = Entries \union {Len(queue) + 1}
             /\ \A n \in Entries : queue'[n] = queue[n]
             /\ queue'[Len(queue) + 1] = r
  <2>1. /\ Entries' = Entries \union {Len(queue) + 1}
        /\ \A n \in Entries : queue'[n] = queue[n]
        /\ queue'[Len(queue) + 1] = r
      BY <1>1, <1>3 DEF Entries
  <2>2. ASSUME NEW g \in owed'
        PROVE  Durable(g)' \/ Waits(g)'
    <3>1. CASE g \in owed
      <4>1. Durable(g) \/ Waits(g)
          BY <1>1, <3>1 DEF Safe
      <4>2. Waits(g) => Waits(g)'
          BY <2>1 DEF Waits
      <4>3. Durable(g) => Durable(g)' \/ Waits(g)'
          BY <1>1, <1>2, <2>2, <3>1 DEF Stays, Dropped
      <4> QED
          BY <4>1, <4>2, <4>3
    <3>2. CASE g = r.body
        BY <2>1, <3>2 DEF Waits
    <3> QED
        BY <1>3, <2>2, <3>1, <3>2
  <2>3. \A n \in Entries' : queue'[n].body \in owed'
      BY <1>1, <1>3, <2>1 DEF Safe
  <2> QED
      BY <2>1, <2>2, <2>3 DEF Safe
<1>4. ASSUME NEW f \in receiptFrag, receiptCommitted
      PROVE  Durable(f)' \/ Dropped(f)
    BY <1>1, <1>2, <1>4 DEF Tracked, Stays
<1>5. ASSUME NEW r \in Item, queue' = Append(queue, r), owed' = owed \union {r.body},
             r.receipt = 0, UNCHANGED receipts
      PROVE  Safe' /\ Tracked'
  <2>1. /\ Entries' = Entries \union {Len(queue) + 1}
        /\ \A n \in Entries : queue'[n] = queue[n]
        /\ queue'[Len(queue) + 1] = r
        /\ Safe'
      BY <1>3, <1>5
  <2>2. UNCHANGED <<receiptNext, receiptActive, receiptCommitted, receiptFrag>>
      BY <1>5 DEF receipts
  <2>3. receiptCommitted' => \A f \in receiptFrag' : Durable(f)'
      BY <1>4, <2>2 DEF Dropped
  <2>4. ASSUME NEW n \in Entries'
        PROVE  /\ queue'[n].receipt <= receiptNext'
               /\ /\ receiptActive' # 0 /\ ~ receiptCommitted'
                  /\ queue'[n].receipt = receiptActive'
                  => receiptFrag' = {queue'[n].body}
    <3>1. CASE n \in Entries
        BY <1>1, <2>1, <2>2, <3>1 DEF Tracked
    <3>2. CASE n = Len(queue) + 1
        BY <1>1, <1>5, <2>1, <2>2, <3>2
    <3> QED
        BY <2>1, <2>4, <3>1, <3>2
  <2>5. /\ receiptActive' = 0 => receiptFrag' = {} /\ ~ receiptCommitted'
        /\ receiptActive' <= receiptNext'
        /\ \A f, g \in receiptFrag' : f = g
      BY <1>1, <2>2 DEF Tracked
  <2>6. Tracked'
      BY <2>3, <2>4, <2>5 DEF Tracked
  <2> QED
      BY <2>1, <2>6
<1>6. ASSUME NEW f \in Frag, Receive(f)
      PROVE  Safe' /\ Tracked'
  <2> DEFINE r == Arrival(f, 0)
  <2>1. r \in Item /\ r.receipt = 0 /\ r.body = f
      BY <1>1 DEF Arrival, Item
  <2>2. queue' = Append(queue, r) /\ owed' = owed \union {f} /\ UNCHANGED receipts
      BY <1>6 DEF Receive
  <2> HIDE DEF r
  <2> QED
      BY <1>5, <2>1, <2>2
<1>7. ASSUME NEW c \in Copy, Sent(c)
      PROVE  Safe' /\ Tracked'
  <2> DEFINE r == [out |-> TRUE, body |-> c, id |-> 0, receipt |-> 0,
                   deferred |-> FALSE, tried |-> FALSE]
  <2>1. r \in Item /\ r.receipt = 0 /\ r.body = c
      BY <1>1 DEF Item
  <2>2. queue' = Append(queue, r) /\ owed' = owed \union {c} /\ UNCHANGED receipts
      BY <1>7 DEF Sent
  <2> HIDE DEF r
  <2> QED
      BY <1>5, <2>1, <2>2
<1>8. ASSUME NEW f \in Frag, ReceiveTracked(f), Control({f})
      PROVE  Safe' /\ Tracked'
  <2>1. /\ queue' = queue /\ owed' = owed /\ receiptFrag' = {}
        /\ receiptNext' = receiptNext + 1 /\ receiptActive' = receiptNext + 1
        /\ receiptCommitted'
      BY <1>8 DEF ReceiveTracked
  <2>2. Entries' = Entries
      BY <2>1 DEF Entries
  <2>3. Safe'
      BY <1>1, <1>2, <2>1, <2>2, SafeKept DEF Waits, Safe
  <2>4. Tracked'
    <3>1. \A n \in Entries' : queue'[n].receipt <= receiptNext'
        BY <1>1, <2>1, <2>2 DEF Tracked
    <3>2. receiptActive' # 0 /\ receiptActive' <= receiptNext'
        BY <1>1, <2>1
    <3> QED
        BY <2>1, <3>1, <3>2 DEF Tracked
  <2> QED
      BY <2>3, <2>4
<1>9. ASSUME NEW f \in Frag, ReceiveTracked(f), ~ Control({f})
      PROVE  Safe' /\ Tracked'
  <2> DEFINE r == Arrival(f, receiptNext + 1)
  <2>1. r \in Item /\ r.receipt = receiptNext + 1 /\ r.body = f
      BY <1>1 DEF Arrival, Item
  <2>2. /\ queue' = Append(queue, r) /\ owed' = owed \union {f}
        /\ receiptNext' = receiptNext + 1 /\ receiptActive' = receiptNext + 1
        /\ receiptCommitted' = FALSE /\ receiptFrag' = {f}
      BY <1>9 DEF ReceiveTracked
  <2> HIDE DEF r
  <2>3. /\ Entries' = Entries \union {Len(queue) + 1}
        /\ \A n \in Entries : queue'[n] = queue[n]
        /\ queue'[Len(queue) + 1] = r
        /\ Safe'
      BY <1>3, <2>1, <2>2
  <2>4. ASSUME NEW n \in Entries'
        PROVE  /\ queue'[n].receipt <= receiptNext'
               /\ queue'[n].receipt = receiptActive' => receiptFrag' = {queue'[n].body}
    <3>1. CASE n \in Entries
      <4>1. queue[n].receipt <= receiptNext /\ queue'[n].receipt = queue[n].receipt
          BY <1>1, <2>3, <3>1 DEF Tracked
      <4>2. queue[n].receipt \in Nat
          BY <1>1, <3>1
      <4> QED
          BY <1>1, <2>2, <4>1, <4>2
    <3>2. CASE n = Len(queue) + 1
        BY <1>1, <2>1, <2>2, <2>3, <3>2
    <3> QED
        BY <2>3, <2>4, <3>1, <3>2
  <2>5. receiptActive' # 0 /\ receiptActive' <= receiptNext'
      BY <1>1, <2>2
  <2>6. Tracked'
      BY <2>2, <2>4, <2>5 DEF Tracked
  <2> QED
      BY <2>3, <2>6
<1> QED
    BY <1>6, <1>7, <1>8, <1>9

LEMMA SafeCalm ==
    ASSUME IInv, Stays, queue' = queue, UNCHANGED <<owed, receipts>>
    PROVE  Safe' /\ Tracked'
<1>1. Entries' = Entries /\ UNCHANGED <<receiptActive, receiptNext,
                                        receiptCommitted, receiptFrag>>
    BY DEF Entries, receipts
<1>2. Safe
    BY DEF IInv
<1>3. Safe'
    BY <1>1, <1>2, SafeKept DEF Waits, Safe
<1>4. Tracked'
    BY <1>1, TrackedKept
<1> QED
    BY <1>3, <1>4

LEMMA SafeDiscard ==
    ASSUME IInv, Stays, NEW bodies, Discard(bodies),
           Entries' = Entries,
           \A n \in Entries : /\ queue'[n].body = queue[n].body
                              /\ queue'[n].receipt = queue[n].receipt,
           UNCHANGED <<receiptActive, receiptNext, receiptCommitted>>
    PROVE  Safe' /\ Tracked'
<1>1. /\ owed' = owed \ (bodies \ {queue[n].body : n \in 1 .. Len(queue)})
      /\ receiptFrag' = IF receiptCommitted THEN receiptFrag \ bodies
                        ELSE receiptFrag
    BY DEF Discard
<1>2. Safe
    BY DEF IInv
<1>3. \A n \in Entries' : queue'[n].body \in owed'
    BY <1>1, <1>2 DEF Safe, Entries
<1>4. Safe'
    BY <1>1, <1>3, SafeKept DEF Waits
<1>5. Tracked'
    BY <1>1, TrackedKept
<1> QED
    BY <1>4, <1>5

LEMMA SafeStep ==
    ASSUME IInv, [Next]_vars
    PROVE  Safe' /\ Tracked'
<1>1. TypeOK /\ queue \in Seq(Item) /\ Safe
    BY DEF IInv, TypeOK
<1>2. CASE UNCHANGED vars
  <2>1. /\ queue' = queue /\ UNCHANGED <<owed, receipts>>
        /\ UNCHANGED <<staged, published, outbox, rotten, stray>>
      BY <1>2 DEF vars, media, receipts
  <2>2. Stays
      BY <1>1, <2>1, SameQueue, StaysQuiet
  <2> QED
      BY <2>1, <2>2, SafeCalm
<1>3. CASE ReceiptForget
  <2>1. /\ queue' = queue /\ owed' = owed
        /\ receiptActive' = 0 /\ receiptCommitted' = FALSE /\ receiptFrag' = {}
        /\ receiptNext' = receiptNext
        /\ UNCHANGED <<staged, published, outbox, rotten, stray>>
      BY <1>3 DEF ReceiptForget, media
  <2>2. Stays /\ Entries' = Entries
      BY <1>1, <2>1, SameQueue, StaysQuiet DEF Entries
  <2>3. Safe'
      BY <1>1, <2>1, <2>2, SafeKept DEF Waits, Safe
  <2>4. receiptNext \in Nat /\ Tracked
      BY DEF IInv, TypeOK
  <2>5. \A n \in Entries' : queue'[n].receipt <= receiptNext'
      BY <2>1, <2>2, <2>4 DEF Tracked
  <2>6. Tracked'
      BY <2>1, <2>4, <2>5 DEF Tracked
  <2> QED
      BY <2>3, <2>6
<1>4. ASSUME NEW k \in Ops,
             PopResult(k) \/ \E box \in Box, i \in 0 .. nextId - 1 : Ask(k, box, i)
      PROVE  Safe' /\ Tracked'
  <2>1. /\ queue' = queue /\ UNCHANGED <<owed, receipts>>
        /\ UNCHANGED <<staged, published, outbox, rotten, stray>>
      BY <1>4 DEF PopResult, Ask, media, receipts
  <2>2. Stays
      BY <1>1, <2>1, SameQueue, StaysQuiet
  <2> QED
      BY <2>1, <2>2, SafeCalm
<1>5. CASE \/ \E o \in Outcomes : TickReloadFailed(o)
           \/ \E o \in Small : TickList(o) \/ TickRead(o)
  <2>1. /\ queue' = queue /\ UNCHANGED <<owed, receipts>>
        /\ UNCHANGED <<staged, published, outbox, rotten, stray>>
      BY <1>5 DEF TickReloadFailed, TickList, TickRead, media, receipts
  <2>2. Stays
      BY <1>1, <2>1, SameQueue, StaysQuiet
  <2> QED
      BY <2>1, <2>2, SafeCalm
<1>6. ASSUME NEW p \in Pairs, TickSave(p)
      PROVE  Safe' /\ Tracked'
  <2>1. queue' = queue /\ UNCHANGED <<owed, receipts>>
      BY <1>6 DEF TickSave, receipts
  <2> QED
      BY <1>6, <2>1, StaysSave, SafeCalm
<1>7. ASSUME NEW p \in SmallPairs, TickDelete(p)
      PROVE  Safe' /\ Tracked'
  <2>1. /\ \E bodies : Discard(bodies)
        /\ UNCHANGED <<receiptActive, receiptNext, receiptCommitted>>
        /\ \/ queue' = queue
           \/ queue' = [n \in 1 .. Len(queue) |-> [queue[n] EXCEPT !.deferred = FALSE]]
      BY <1>7 DEF TickDelete
  <2>2. /\ Entries' = Entries
        /\ \A n \in Entries : /\ queue'[n].body = queue[n].body
                              /\ queue'[n].receipt = queue[n].receipt
    <3>1. CASE queue' = queue
        BY <3>1 DEF Entries
    <3>2. CASE queue' = [n \in 1 .. Len(queue) |-> [queue[n] EXCEPT !.deferred = FALSE]]
      <4>1. Len(queue') = Len(queue)
          BY <1>1, <3>2
      <4>2. \A n \in 1 .. Len(queue) : queue[n] \in Item
          BY <1>1
      <4>3. \A n \in 1 .. Len(queue) : queue'[n] = [queue[n] EXCEPT !.deferred = FALSE]
          BY <3>2
      <4> QED
          BY <4>1, <4>2, <4>3 DEF Entries, Item
    <3> QED
        BY <2>1, <3>1, <3>2
  <2> QED
      BY <1>7, <2>1, <2>2, StaysDelete, SafeDiscard
<1>8. ASSUME NEW i \in Pend, NEW w \in Wall, NEW o \in Small, TickCleanup(w, i, o)
      PROVE  Safe' /\ Tracked'
  <2>1. /\ (\E bodies : Discard(bodies)) \/ UNCHANGED <<owed, receiptFrag>>
        /\ queue' = queue
        /\ UNCHANGED <<receiptActive, receiptNext, receiptCommitted>>
      BY <1>8 DEF TickCleanup
  <2>2. Entries' = Entries
      BY <2>1 DEF Entries
  <2>3. CASE \E bodies : Discard(bodies)
      BY <1>8, <2>1, <2>2, <2>3, StaysCleanup, SafeDiscard
  <2>4. CASE UNCHANGED <<owed, receiptFrag>>
      BY <1>8, <2>1, <2>4, StaysCleanup, SafeCalm DEF receipts
  <2> QED
      BY <2>1, <2>3, <2>4
<1>9. ASSUME NEW i \in Eligible \ Skipped, NEW passed \in SUBSET Skipped,
             NEW p \in SmallPairs, TickPublish(i, passed, p)
      PROVE  Safe' /\ Tracked'
  <2>1. /\ \E bodies : Discard(bodies)
        /\ queue' = queue
        /\ UNCHANGED <<receiptActive, receiptNext, receiptCommitted>>
      BY <1>9 DEF TickPublish
  <2>2. Entries' = Entries
      BY <2>1 DEF Entries
  <2> QED
      BY <1>9, <2>1, <2>2, StaysPublish, SafeDiscard
<1>10. ASSUME NEW o \in Outcomes, PowerCut(o)
       PROVE  Safe' /\ Tracked'
  <2>1. /\ UNCHANGED <<staged, published, outbox, rotten, stray>>
        /\ queue' = <<>> /\ owed' = owed \intersect OnMedia
        /\ receiptActive' = 0 /\ receiptNext' = 0
        /\ receiptCommitted' = FALSE /\ receiptFrag' = {}
      BY <1>10 DEF PowerCut, media
  <2>2. Entries' = {}
      BY <2>1 DEF Entries
  <2>3. \A i \in Id : Kept(i)'
      BY <2>2 DEF Kept, Arrivals
  <2>4. ASSUME NEW g \in OnMedia
        PROVE  Durable(g)'
    <3>1. \E i \in Id : g \in staged'[i] \/ g \in published'[i] \/ outbox'[i] = g
        BY <2>1, <2>4 DEF OnMedia
    <3> QED
        BY <2>3, <3>1 DEF Durable
  <2>5. Safe'
      BY <2>1, <2>2, <2>4 DEF Safe
  <2>6. Tracked'
      BY <2>1, <2>2 DEF Tracked
  <2> QED
      BY <2>5, <2>6
<1>11. ASSUME NEW c \in {"pending", "inbox", "outbox"}, NEW i \in Id, Rot(c, i)
       PROVE  Safe' /\ Tracked'
  <2>1. /\ \E bodies : Discard(bodies)
        /\ queue' = queue
        /\ UNCHANGED <<receiptActive, receiptNext, receiptCommitted>>
      BY <1>11 DEF Rot
  <2>2. Entries' = Entries
      BY <2>1 DEF Entries
  <2> QED
      BY <1>11, <2>1, <2>2, StaysRot, SafeDiscard
<1> QED
    BY <1>2, <1>3, <1>4, <1>5, <1>6, <1>7, <1>8, <1>9, <1>10, <1>11,
       SafeAppend, SafeQueue DEF Next, Tick, TickRequest, Caller

(***************************************************************************)
(* The invariant and what follows from it.                                 *)
LEMMA InvInit ==
    ASSUME Init
    PROVE  IInv
<1>1. TypeOK
  <2>1. 1 \in 1 .. MaxId + 1 /\ 0 \in 0 .. MaxId
      BY MessageServiceAssumption
  <2>2. Free \in Request
      BY <2>1 DEF Free, Request, Box
  <2>3. /\ queue \in Seq(Item) /\ Len(queue) <= QueueLimit
      BY MessageServiceAssumption DEF Init
  <2>4. /\ staged \in [Id -> File] /\ published \in [Id -> File]
        /\ stamp \in [Id -> Wall]
        /\ outbox \in [Id -> Copy \union {Draft, NoBody}]
      BY MessageServiceAssumption DEF Init, NoFile, File, Wall
  <2>5. req \in [Ops -> Request]
      BY <2>2 DEF Init
  <2>6. ioFailures \in 0 .. IoRetryLimit
      BY DEF Init, IoRetryLimit
  <2> QED
      BY <2>1, <2>3, <2>4, <2>5, <2>6 DEF Init, TypeOK
<1>2. Entries = {} /\ Arrivals = {} /\ Copies = {} /\ Waiting = {}
    BY DEF Init, Entries, Arrivals, Copies, Waiting, Free
<1>3. Pend = {} /\ In = {} /\ Out = {} /\ Blk = {}
      /\ ScanPending = {} /\ ScanInbox = {} /\ ScanOutbox = {}
    BY DEF Init, Pend, In, Out, Blk, ScanPending, ScanInbox, ScanOutbox,
           Complete, NoFile
<1>4. \A i \in Id : staged[i] = NoFile /\ published[i] = NoFile /\ outbox[i] = NoBody
    BY DEF Init
<1>5. \A k \in Ops : req[k].id = 0
    BY DEF Init, Free
<1>6. Rows
    BY <1>3 DEF Rows
<1>7. Drawn
    BY <1>2, <1>4, <1>5 DEF Init, Drawn
<1>8. Apart
    BY <1>2, <1>4 DEF Apart, Saving
<1>9. CopyOnce
    BY <1>2, <1>4, MessageServiceAssumption DEF CopyOnce, SentOnce
<1>10. OneGroup
    BY <1>2, <1>4 DEF OneGroup, NoFile
<1>11. Shelved /\ Safe /\ Begun /\ Gone
    BY <1>2, <1>4 DEF Init, Shelved, Safe, Begun, Gone
<1>12. Tracked
    BY <1>2 DEF Init, Tracked
<1> QED
    BY <1>1, <1>6, <1>7, <1>8, <1>9, <1>10, <1>11, <1>12 DEF IInv

LEMMA InvStep ==
    ASSUME IInv, [Next]_vars
    PROVE  IInv'
BY TypeStep, NameStep, RowsStep, ShelvedStep, BegunStep, GoneStep, SafeStep
   DEF IInv

(* Every reachable state satisfies the inductive invariant.                *)
THEOREM StoreInvariant == Spec => []IInv
<1>1. Init => IInv
    BY InvInit
<1>2. IInv /\ [Next]_vars => IInv'
    BY InvStep
<1> QED
    BY <1>1, <1>2, PTL DEF Spec

(* No accepted body is lost by message_service_tick: what is owed is on    *)
(* the media, waits in the receive queue or was staged as a stray part.    *)
THEOREM NothingIsLost == Spec => []NoLoss
<1>1. ASSUME IInv PROVE NoLoss
  <2>1. ASSUME NEW g \in owed
        PROVE  g \in OnMedia \union {queue[n].body : n \in 1 .. Len(queue)}
                         \union stray
    <3>1. Durable(g) \/ Waits(g)
        BY <1>1, <2>1 DEF IInv, Safe
    <3>2. CASE Waits(g)
        BY <3>2 DEF Waits, Entries
    <3>3. CASE Durable(g)
      <4>1. g # NoBody
          BY <1>1, <2>1, MessageServiceAssumption DEF IInv, TypeOK
      <4> QED
          BY <3>3, <4>1 DEF Durable, OnMedia
    <3> QED
        BY <3>1, <3>2, <3>3
  <2> QED
      BY <1>1, <2>1 DEF NoLoss, IInv
<1> QED
    BY <1>1, StoreInvariant, PTL

(* The RAM indexes of a service that is ready name the readable files of   *)
(* the media and no file that is gone.                                     *)
THEOREM IndexNamesMedia == Spec => []IndexIsMedia
<1>1. IInv => IndexIsMedia
    BY DEF IInv, Rows, IndexIsMedia, Pend, In, Out
<1> QED
    BY <1>1, StoreInvariant, PTL

(* A sent copy becomes one outbox file, however often it is retried.       *)
THEOREM SentIsFiledOnce == Spec => []SentOnce
<1>1. IInv => SentOnce
    BY DEF IInv, CopyOnce
<1> QED
    BY <1>1, StoreInvariant, PTL

(* Published messages are complete and no file mixes two messages.         *)
THEOREM InboxIsWhole == Spec => []InboxWhole
<1>1. IInv => InboxWhole
    BY DEF IInv, Shelved, OneGroup, InboxWhole
<1> QED
    BY <1>1, StoreInvariant, PTL

(* What was deleted does not come back under its identifier.               *)
THEOREM DeletedStaysDeleted == Spec => []StaysDeleted
<1>1. IInv => StaysDeleted
    BY DEF IInv, Gone, StaysDeleted
<1> QED
    BY <1>1, StoreInvariant, PTL

(* What is not deleted is left as it is: FilesKept, step by step.          *)
LEMMA LeftAlone ==
    ASSUME IInv, [Next]_vars, NEW i \in Id,
           <<"inbox", i>> \in rotten, "DELETE" \notin Waiting
    PROVE  /\ published'[i] = published[i]
           /\ Complete(staged[i]) => staged'[i] # NoFile
<1>1. /\ TypeOK /\ Pend \subseteq Id /\ published[i] # NoFile
      /\ Complete(staged[i]) => staged[i] # NoFile
    BY RowTypes DEF IInv, Shelved, Complete
<1>2. CASE UNCHANGED <<published, staged>>
    BY <1>1, <1>2
<1>3. ASSUME NEW p \in SmallPairs, TickDelete(p)
      PROVE  FALSE
    BY <1>3 DEF TickDelete, Turn
<1>4. ASSUME NEW j \in Pend, NEW w \in Wall, NEW o \in Small, TickCleanup(w, j, o)
      PROVE  /\ published'[i] = published[i]
             /\ Complete(staged[i]) => staged'[i] # NoFile
  <2>1. /\ published' = published /\ ~ Complete(staged[j])
        /\ staged' = staged \/ staged' = Unstaged(j)
      BY <1>4 DEF TickCleanup
  <2>2. j # i => staged'[i] = staged[i]
      BY <1>1, <2>1 DEF TypeOK, Unstaged
  <2> QED
      BY <1>1, <2>1, <2>2
<1>5. ASSUME NEW j \in Eligible \ Skipped, NEW passed \in SUBSET Skipped,
             NEW p \in SmallPairs, TickPublish(j, passed, p)
      PROVE  /\ published'[i] = published[i]
             /\ Complete(staged[i]) => staged'[i] # NoFile
  <2>1. CASE j # i
    <3>1. /\ published' \in {published, [published EXCEPT ![j] = staged[j]]}
          /\ staged' \in {staged, Unstaged(j)}
        BY <1>5 DEF TickPublish
    <3>2. published'[i] = published[i] /\ staged'[i] = staged[i]
        BY <1>1, <2>1, <3>1 DEF TypeOK, Unstaged
    <3> QED
        BY <1>1, <3>2
  <2>2. CASE j = i
    <3>1. ~ Conflict(i)
        BY <2>2 DEF Skipped
    <3>2. <<"pending", i>> \in rotten
        BY <1>1, <3>1 DEF Conflict
    <3>3. UNCHANGED <<published, staged>>
        BY <1>5, <2>2, <3>2 DEF TickPublish
    <3> QED
        BY <1>1, <3>3
  <2> QED
      BY <2>1, <2>2
<1>6. ASSUME NEW k \in Servable, NEW j \in Scanned, NEW o \in Outcomes,
             TickServeMerge(k, j, o)
      PROVE  /\ published'[i] = published[i]
             /\ Complete(staged[i]) => staged'[i] # NoFile
  <2>1. /\ published' = published
        /\ \E b : staged' \in {staged, [staged EXCEPT ![j] = @ \union {b}]}
      BY <1>6 DEF TickServeMerge, Served
  <2>2. staged[i] \subseteq staged'[i]
      BY <1>1, <2>1 DEF TypeOK
  <2> QED
      BY <1>1, <2>1, <2>2 DEF NoFile
<1>7. ASSUME NEW k \in Servable, NEW p \in Pairs, TickServeStage(k, p)
      PROVE  /\ published'[i] = published[i]
             /\ Complete(staged[i]) => staged'[i] # NoFile
  <2>1. /\ published' = published
        /\ \E b, j : staged' \in {staged, [staged EXCEPT ![j] = {b}]}
      BY <1>7 DEF TickServeStage, Served
  <2>2. staged'[i] = staged[i] \/ \E b : staged'[i] = {b}
      BY <1>1, <2>1 DEF TypeOK
  <2> QED
      BY <1>1, <2>1, <2>2 DEF NoFile
<1>8. \/ UNCHANGED <<published, staged>>
      \/ \E p \in SmallPairs : TickDelete(p)
      \/ \E j \in Pend, w \in Wall, o \in Small : TickCleanup(w, j, o)
      \/ \E j \in Eligible \ Skipped, passed \in SUBSET Skipped, p \in SmallPairs :
             TickPublish(j, passed, p)
      \/ \E k \in Servable :
             \/ \E j \in Scanned, o \in Outcomes : TickServeMerge(k, j, o)
             \/ \E p \in Pairs : TickServeStage(k, p)
  <2>1. CASE Caller \/ UNCHANGED vars
      BY <2>1 DEF Caller, Receive, ReceiveTracked, ReceiptForget, Sent, Ask,
                  PopResult, vars, media
  <2>2. CASE (\E o \in Outcomes : PowerCut(o)) \/ (\E c, j : Rot(c, j))
      BY <2>2 DEF PowerCut, Rot, media
  <2>3. CASE \/ \E o \in Outcomes : TickReloadFailed(o)
             \/ \E o \in Small : TickList(o) \/ TickRead(o)
             \/ \E p \in Pairs : TickSave(p)
             \/ TickIdle
      BY <2>3 DEF TickReloadFailed, TickList, TickRead, TickSave, TickIdle, media
  <2>4. CASE \E k \in Servable :
                 \/ TickServeKnown(k) \/ TickServeFull(k)
                 \/ \E o \in Outcomes : TickServeUnread(k, o)
                 \/ \E p \in Pairs : TickServeSent(k, p)
      BY <2>4 DEF TickServeKnown, TickServeFull, TickServeUnread,
                  TickServeSent, Served
  <2> QED
      BY <2>1, <2>2, <2>3, <2>4 DEF Next, Tick, TickRequest, TickQueue
<1> QED
    BY <1>2, <1>3, <1>4, <1>5, <1>6, <1>7, <1>8

LEMMA TimeKept ==
    ASSUME IInv, [Next]_vars, NEW i \in Id,
           staged[i] # NoFile, staged'[i] # NoFile, stamp'[i] > stamp[i]
    PROVE  stamp[i] = 0 /\ staged'[i] = staged[i]
<1>1. /\ TypeOK /\ Pend \subseteq Id /\ stamp[i] \in Nat
    BY RowTypes, MessageServiceAssumption DEF IInv, TypeOK, Wall
<1>2. stamp' # stamp
    BY <1>1
<1>3. ASSUME NEW j, stamp' = Unstamped(j)
      PROVE  FALSE
  <2>1. stamp'[i] \in {stamp[i], 0}
      BY <1>1, <1>3 DEF Unstamped, TypeOK
  <2> QED
      BY <1>1, <2>1
<1>4. ASSUME NEW p \in SmallPairs, TickDelete(p)
      PROVE  FALSE
    BY <1>2, <1>3, <1>4 DEF TickDelete
<1>5. ASSUME NEW j, NEW passed, NEW p, TickPublish(j, passed, p)
      PROVE  FALSE
    BY <1>2, <1>3, <1>5 DEF TickPublish
<1>6. ASSUME NEW j \in Pend, NEW w \in Wall, NEW o \in Small, TickCleanup(w, j, o)
      PROVE  stamp[i] = 0 /\ staged'[i] = staged[i]
  <2>1. CASE Unaged(j, w) /\ stamp' = [stamp EXCEPT ![j] = w] /\ staged' = staged
    <3>1. j = i /\ stamp'[i] = w
        BY <1>1, <2>1 DEF TypeOK
    <3>2. w \in Nat
        BY MessageServiceAssumption DEF Wall
    <3> QED
        BY <1>1, <2>1, <3>1, <3>2 DEF Unaged
  <2>2. \/ (Unaged(j, w) /\ stamp' = [stamp EXCEPT ![j] = w] /\ staged' = staged)
        \/ stamp' = Unstamped(j)
    <3>1. CASE Hit(o)
        BY <1>6, <3>1 DEF TickCleanup
    <3>2. CASE ~ Hit(o)
        BY <1>2, <1>6, <3>2 DEF TickCleanup
    <3> QED
        BY <3>1, <3>2
  <2> QED
      BY <1>3, <2>1, <2>2
<1>7. \/ stamp' = stamp
      \/ \E p \in SmallPairs : TickDelete(p)
      \/ \E j \in Pend, w \in Wall, o \in Small : TickCleanup(w, j, o)
      \/ \E j \in Eligible \ Skipped, passed \in SUBSET Skipped, p \in SmallPairs :
             TickPublish(j, passed, p)
  <2>1. CASE Caller \/ UNCHANGED vars
      BY <2>1 DEF Caller, Receive, ReceiveTracked, ReceiptForget, Sent, Ask,
                  PopResult, vars, media
  <2>2. CASE (\E o \in Outcomes : PowerCut(o)) \/ (\E c, j : Rot(c, j))
      BY <2>2 DEF PowerCut, Rot, media
  <2>3. CASE \/ \E o \in Outcomes : TickReloadFailed(o)
             \/ \E o \in Small : TickList(o) \/ TickRead(o)
             \/ \E p \in Pairs : TickSave(p)
             \/ TickIdle
      BY <2>3 DEF TickReloadFailed, TickList, TickRead, TickSave, TickIdle, media
  <2>4. CASE \E k \in Servable :
                 \/ TickServeKnown(k) \/ TickServeFull(k)
                 \/ \E o \in Outcomes : TickServeUnread(k, o)
                 \/ \E j \in Scanned, o \in Outcomes : TickServeMerge(k, j, o)
                 \/ \E p \in Pairs : TickServeStage(k, p) \/ TickServeSent(k, p)
      BY <2>4 DEF TickServeKnown, TickServeFull, TickServeUnread,
                  TickServeMerge, TickServeStage, TickServeSent
  <2> QED
      BY <2>1, <2>2, <2>3, <2>4 DEF Next, Tick, TickRequest, TickQueue
<1> QED
    BY <1>2, <1>4, <1>5, <1>6, <1>7

(* No step but a deletion takes away a damaged message or the staging file *)
(* of its rest, and a receipt time is written once for a file as it is.    *)
THEOREM FilesAreKept == Spec => FilesKept
<1>1. ASSUME IInv, [Next]_vars
      PROVE  [\A i \in Id :
                 /\ <<"inbox", i>> \in rotten /\ "DELETE" \notin Waiting =>
                        /\ published'[i] = published[i]
                        /\ Complete(staged[i]) => staged'[i] # NoFile
                 /\ staged[i] # NoFile /\ staged'[i] # NoFile /\ stamp'[i] > stamp[i] =>
                        stamp[i] = 0 /\ staged'[i] = staged[i]]_vars
    BY <1>1, LeftAlone, TimeKept
<1> QED
    BY <1>1, StoreInvariant, PTL DEF Spec, FilesKept

(***************************************************************************)
(* The store implements DurableReceipt.                                    *)
Stored == (OnMedia \union stray) \ (Copy \union {Draft})

LEMMA StoredNext ==
    ASSUME IInv'
    PROVE  /\ Stored' \subseteq Frag
           /\ receiptCommitted' => receiptFrag' \subseteq Stored'
<1>1. /\ TypeOK' /\ Tracked'
    BY DEF IInv
<1>2. Stored' \subseteq Frag
  <2>1. /\ \A i \in Id : staged'[i] \subseteq Frag /\ published'[i] \subseteq Frag
        /\ \A i \in Id : outbox'[i] \in Copy \union {Draft, NoBody}
        /\ stray' \subseteq Frag
      BY <1>1 DEF TypeOK, File
  <2> QED
      BY <2>1 DEF Stored, OnMedia
<1>3. ASSUME receiptCommitted', NEW f \in receiptFrag'
      PROVE  f \in Stored'
  <2>1. Durable(f)' /\ f \in Frag
      BY <1>1, <1>3 DEF Tracked, TypeOK
  <2>2. f \notin Copy \union {Draft, NoBody}
      BY <2>1, MessageServiceAssumption
  <2>3. f \in OnMedia' \union stray'
      BY <2>1, <2>2 DEF Durable, OnMedia
  <2> QED
      BY <2>2, <2>3 DEF Stored
<1> QED
    BY <1>2, <1>3

LEMMA SameStored ==
    ASSUME UNCHANGED <<media, stray>>
    PROVE  Stored' = Stored
BY DEF Stored, OnMedia, media

(* How the receipt of the store changes.                                   *)
Unforgotten ==
    /\ receiptActive' = receiptActive
    /\ \/ /\ receiptCommitted' = receiptCommitted
          /\ receiptFrag' \subseteq receiptFrag
          /\ ~ receiptCommitted => receiptFrag' = receiptFrag
       \/ /\ receiptActive # 0 /\ ~ receiptCommitted /\ receiptCommitted'
          /\ receiptFrag' = receiptFrag

LEMMA ReceiptSteps ==
    ASSUME IInv, [Next]_vars
    PROVE  \/ ReceiptForget
           \/ \E f \in Frag : ReceiveTracked(f)
           \/ \E o \in Outcomes : PowerCut(o)
           \/ Unforgotten
<1>1. receiptCommitted \in BOOLEAN
    BY DEF IInv, TypeOK
<1>2. UNCHANGED receipts => Unforgotten
    BY DEF receipts, Unforgotten
<1>3. CASE \/ UNCHANGED vars
           \/ \E f \in Frag : Receive(f)
           \/ \E c \in Copy : Sent(c)
           \/ \E k \in Ops, box \in Box, j \in 0 .. nextId - 1 : Ask(k, box, j)
           \/ \E k \in Ops : PopResult(k)
           \/ \E o \in Outcomes : TickReloadFailed(o)
           \/ \E o \in Small : TickList(o) \/ TickRead(o)
           \/ \E p \in Pairs : TickSave(p)
           \/ TickIdle
  <2>1. UNCHANGED receipts
      BY <1>3 DEF vars, Receive, Sent, Ask, PopResult, TickReloadFailed,
                  TickList, TickRead, TickSave, TickIdle
  <2> QED
      BY <1>2, <2>1
<1>4. ASSUME NEW bodies, Discard(bodies),
             UNCHANGED <<receiptActive, receiptCommitted>>
      PROVE  Unforgotten
    BY <1>4 DEF Discard, Unforgotten
<1>5. CASE \/ \E p \in SmallPairs : TickDelete(p)
           \/ \E j \in Eligible \ Skipped, passed \in SUBSET Skipped, p \in SmallPairs :
                  TickPublish(j, passed, p)
           \/ \E c \in {"pending", "inbox", "outbox"}, j \in Id : Rot(c, j)
  <2>1. /\ \E bodies : Discard(bodies)
        /\ UNCHANGED <<receiptActive, receiptCommitted>>
    <3>1. ASSUME NEW p, TickDelete(p)
          PROVE  (\E bodies : Discard(bodies)) /\ UNCHANGED <<receiptActive, receiptCommitted>>
        BY <3>1 DEF TickDelete
    <3>2. ASSUME NEW j, NEW passed, NEW p, TickPublish(j, passed, p)
          PROVE  (\E bodies : Discard(bodies)) /\ UNCHANGED <<receiptActive, receiptCommitted>>
        BY <3>2 DEF TickPublish
    <3>3. ASSUME NEW c, NEW j, Rot(c, j)
          PROVE  (\E bodies : Discard(bodies)) /\ UNCHANGED <<receiptActive, receiptCommitted>>
        BY <3>3 DEF Rot
    <3> QED
        BY <1>5, <3>1, <3>2, <3>3
  <2> QED
      BY <1>4, <2>1
<1>6. ASSUME NEW j, NEW w, NEW o, TickCleanup(w, j, o)
      PROVE  Unforgotten
  <2>1. /\ (\E bodies : Discard(bodies)) \/ UNCHANGED receiptFrag
        /\ UNCHANGED <<receiptActive, receiptCommitted>>
      BY <1>6 DEF TickCleanup
  <2>2. CASE UNCHANGED receiptFrag
      BY <2>1, <2>2 DEF Unforgotten
  <2> QED
      BY <1>4, <2>1, <2>2
<1>7. ASSUME NEW k \in Servable, NEW id, NEW rc, Served(From(k), id, rc)
      PROVE  Unforgotten
  <2>1. /\ receiptActive' = receiptActive /\ receiptFrag' = receiptFrag
        /\ receiptCommitted' = (receiptCommitted \/ (rc = "OK" /\ Acknowledged(Head(From(k)))))
      BY <1>7 DEF Served
  <2>2. Acknowledged(Head(From(k))) => receiptActive # 0
      BY DEF Acknowledged
  <2> QED
      BY <1>1, <2>1, <2>2 DEF Unforgotten
<1>8. CASE \E k \in Servable :
               \/ TickServeKnown(k) \/ TickServeFull(k)
               \/ \E o \in Outcomes : TickServeUnread(k, o)
               \/ \E j \in Scanned, o \in Outcomes : TickServeMerge(k, j, o)
               \/ \E p \in Pairs : TickServeStage(k, p) \/ TickServeSent(k, p)
  <2>1. \E k \in Servable : \E id, rc : Served(From(k), id, rc)
      BY <1>8 DEF TickServeKnown, TickServeFull, TickServeUnread,
                  TickServeMerge, TickServeStage, TickServeSent
  <2> QED
      BY <1>7, <2>1
<1> QED
    BY <1>3, <1>5, <1>6, <1>8
       DEF Next, Tick, TickRequest, TickQueue, Caller

ReceiptState ==
    IF receiptActive = 0 THEN "none"
    ELSE IF receiptCommitted THEN "committed" ELSE "waiting"

LEMMA ReceiptRefines ==
    ASSUME IInv, IInv', [Next]_vars
    PROVE  [Receipt!Next]_(Receipt!receiptVars)
<1> USE DEF Receipt!receiptVars
<1>1. /\ Receipt!receiptVars = <<ReceiptState, receiptFrag, Stored>>
      /\ (Receipt!receiptVars)' = <<ReceiptState', receiptFrag', Stored'>>
    BY DEF ReceiptState, Stored
<1>2. receiptCommitted \in BOOLEAN /\ receiptCommitted' \in BOOLEAN /\ Tracked
      /\ receiptNext \in Nat
    BY DEF IInv, TypeOK
<1>3. CASE ReceiptForget
  <2>1. Stored' = Stored
      BY <1>3, SameStored DEF ReceiptForget
  <2>2. ReceiptState # "none" /\ ReceiptState' = "none" /\ receiptFrag' = {}
      BY <1>3 DEF ReceiptForget, ReceiptState
  <2>3. Receipt!Forget
      BY <2>1, <2>2 DEF Receipt!Forget, ReceiptState, Stored
  <2> QED
      BY <2>3 DEF Receipt!Next
<1>4. CASE \E o \in Outcomes : PowerCut(o)
  <2>1. Stored' = Stored
      BY <1>4, SameStored DEF PowerCut
  <2>2. ReceiptState' = "none" /\ receiptFrag' = {}
      BY <1>4 DEF PowerCut, ReceiptState
  <2>3. Receipt!Restart
      BY <2>1, <2>2 DEF Receipt!Restart, ReceiptState, Stored
  <2> QED
      BY <2>3 DEF Receipt!Next
<1>5. ASSUME NEW f \in Frag, ReceiveTracked(f)
      PROVE  Receipt!Next
  <2>1. Stored' = Stored
      BY <1>5, SameStored DEF ReceiveTracked
  <2>2. receiptActive' # 0
      BY <1>2, <1>5 DEF ReceiveTracked
  <2>3. /\ ReceiptState = "none"
        /\ \/ ReceiptState' = "waiting" /\ receiptFrag' = {f}
           \/ ReceiptState' = "committed" /\ receiptFrag' = {}
      BY <1>5, <2>2 DEF ReceiveTracked, ReceiptState
  <2>4. Receipt!Admit(f)
      BY <2>1, <2>3 DEF Receipt!Admit, ReceiptState, Stored
  <2> QED
      BY <2>4 DEF Receipt!Next
<1>6. CASE Unforgotten
  <2>1. /\ Stored' \subseteq Frag
        /\ receiptCommitted' => receiptFrag' \subseteq Stored'
      BY StoredNext
  <2>2. CASE /\ receiptCommitted' = receiptCommitted
             /\ receiptFrag' \subseteq receiptFrag
             /\ ~ receiptCommitted => receiptFrag' = receiptFrag
    <3>1. ReceiptState' = ReceiptState
        BY <1>6, <2>2 DEF Unforgotten, ReceiptState
    <3>2. IF ReceiptState = "committed"
          THEN receiptFrag' \in {receiptFrag \cap Stored', {}}
          ELSE receiptFrag' = receiptFrag
      <4>1. CASE ReceiptState # "committed"
        <5>1. receiptFrag' = receiptFrag
            BY <1>2, <2>2, <4>1 DEF ReceiptState, Tracked
        <5> QED
            BY <4>1, <5>1
      <4>2. CASE ReceiptState = "committed" /\ receiptFrag' # {}
        <5>1. receiptCommitted'
            BY <2>2, <4>2 DEF ReceiptState
        <5>2. \A f, g \in receiptFrag : f = g
            BY <1>2 DEF Tracked
        <5>3. receiptFrag' = receiptFrag
            BY <2>2, <4>2, <5>2
        <5>4. receiptFrag' = receiptFrag \cap Stored'
            BY <2>1, <5>1, <5>3
        <5> QED
            BY <4>2, <5>4
      <4> QED
          BY <4>1, <4>2
    <3>3. Receipt!Change
        BY <2>1, <3>1, <3>2 DEF Receipt!Change, ReceiptState, Stored
    <3> QED
        BY <3>3 DEF Receipt!Next
  <2>3. CASE /\ receiptActive # 0 /\ ~ receiptCommitted /\ receiptCommitted'
             /\ receiptFrag' = receiptFrag
    <3>1. ReceiptState = "waiting" /\ ReceiptState' = "committed"
        BY <1>6, <2>3 DEF Unforgotten, ReceiptState
    <3>2. receiptFrag \subseteq Stored'
        BY <2>1, <2>3
    <3>3. Receipt!Commit
        BY <2>1, <2>3, <3>1, <3>2 DEF Receipt!Commit, ReceiptState, Stored
    <3> QED
        BY <3>3 DEF Receipt!Next
  <2> QED
      BY <1>6, <2>2, <2>3 DEF Unforgotten
<1> QED
    BY <1>3, <1>4, <1>5, <1>6, ReceiptSteps

(* A receipt is reported committed only for a part that is on the media:   *)
(* the store implements the contract the modem service deletes on.         *)
THEOREM PromiseIsKept == Spec => KeepsReceiptPromise
<1>1. Init => Receipt!Init
  <2>1. Init => receiptActive = 0 /\ receiptFrag = {} /\ Stored = {}
      BY DEF Init, Stored, OnMedia, NoFile
  <2> QED
      BY <2>1 DEF Receipt!Init, Stored, Init
<1>2. IInv /\ IInv' /\ [Next]_vars => [Receipt!Next]_(Receipt!receiptVars)
    BY ReceiptRefines
<1> QED
    BY <1>1, <1>2, StoreInvariant, PTL DEF Spec, KeepsReceiptPromise, Receipt!Spec

=============================================================================
