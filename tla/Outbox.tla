------------------------------- MODULE Outbox -------------------------------
(***************************************************************************)
(* The durable queue of account emails (internal/notifications: outbox.go,  *)
(* worker.go).  Every API process runs a worker that leases due messages,   *)
(* hands each to the mail server and marks it; a lease that runs out makes  *)
(* the message due again.                                                   *)
(*                                                                          *)
(* Each SQL statement is one step, and so is each delivery.  A worker may   *)
(* be slow at any of them, its process may stop, its mark may not reach the *)
(* database, and a delivery that reports an error may have happened.        *)
(* A message is its row; its text plays no part.                            *)
(***************************************************************************)
EXTENDS Integers, FiniteSets

CONSTANTS Messages, NoMessage, Workers,
          BatchSize,   \* Worker.batchSize
          Lease,       \* leaseDuration
          MaxAttempts, \* maxAttempts
          MaxRetry,    \* maxRetryInterval
          PurgeAge,    \* how long maintenance leaves a settled row
          Lifetimes,   \* from enqueueing to expires_at
          MaxTime      \* bound of the clock

ASSUME OutboxAssumption ==
  /\ {BatchSize, Lease, MaxAttempts, MaxRetry} \subseteq Nat \ {0}
  /\ {PurgeAge, MaxTime} \subseteq Nat
  /\ Lifetimes \subseteq Nat
  /\ NoMessage \notin Messages

VARIABLES clock,  \* now() of the database
          rows,   \* sesame_email_outbox
          at,     \* the statement or delivery each worker comes to next
          items,  \* messages each worker has claimed and not yet delivered
          item,   \* the message each worker is marking
          until,  \* end of the lease on each worker's batch, 0 between batches
          sent    \* messages the mail server has accepted at least once

vars == <<clock, rows, at, items, item, until, sent>>

\* updated_at is read only of settled rows, and kept only for them.
NoRow == [status |-> "none", attempts |-> 0, next |-> 0, lease |-> 0, expires |-> 0,
          sealed |-> TRUE, updated |-> 0]

Live(m) == rows[m].status \in {"pending", "processing"}
Settled(m) == rows[m].status \in {"delivered", "failed", "purged"}

-----------------------------------------------------------------------------
\* A server that does not seal yet may still be running while others are upgraded.
Enqueue(m, lifetime, sealed) ==
  /\ rows[m].status = "none"
  /\ clock + lifetime <= MaxTime
  /\ rows' = [rows EXCEPT ![m] =
       [status |-> "pending", attempts |-> 0, next |-> clock, lease |-> 0,
        expires |-> clock + lifetime, sealed |-> sealed, updated |-> 0]]
  /\ UNCHANGED <<clock, at, items, item, until, sent>>

FailedRow(m) == [rows[m] EXCEPT !.status = "failed", !.lease = 0, !.updated = clock]

\* Mutant: only pending messages expire.
HasExpiredPending(m) == rows[m].status = "pending" /\ rows[m].expires <= clock

HasExpired(m) == Live(m) /\ rows[m].expires <= clock

\* Poll is three statements.  The first settles what has expired,
ExpireMessages(w) ==
  /\ at[w] = "idle"
  /\ rows' = [m \in Messages |-> IF HasExpired(m) THEN FailedRow(m) ELSE rows[m]]
  /\ at' = [at EXCEPT ![w] = "clear"]
  /\ UNCHANGED <<clock, items, item, until, sent>>

\* the second what was enqueued in clear,
ClearUnsealed(w) ==
  /\ at[w] = "clear"
  /\ rows' = [m \in Messages |-> IF Live(m) /\ ~rows[m].sealed THEN FailedRow(m) ELSE rows[m]]
  /\ at' = [at EXCEPT ![w] = "claim"]
  /\ UNCHANGED <<clock, items, item, until, sent>>

Due(m) ==
  /\ rows[m].expires > clock
  /\ \/ rows[m].status = "pending" /\ rows[m].next <= clock
     \/ rows[m].status = "processing" /\ rows[m].lease <= clock

\* The first BatchSize of the due messages, by next_attempt_at.  A row that another
\* statement has locked is skipped; it is as if that statement came first.
Candidates(S) ==
  LET due == {m \in Messages : Due(m)}
  IN  /\ S \subseteq due
      /\ Cardinality(S) <= BatchSize
      /\ S # due => Cardinality(S) = BatchSize
      /\ \A x \in S, y \in due \ S : rows[x].next <= rows[y].next

\* and the third leases what is due.
Claim(w) ==
  /\ at[w] = "claim"
  /\ \E S \in SUBSET Messages :
       /\ Candidates(S)
       /\ rows' = [m \in Messages |->
            IF m \in S THEN [rows[m] EXCEPT !.status = "processing", !.lease = clock + Lease]
            ELSE rows[m]]
       /\ items' = [items EXCEPT ![w] = S]
  /\ until' = [until EXCEPT ![w] = clock + Lease]
  /\ at' = [at EXCEPT ![w] = "deliver"]
  /\ UNCHANGED <<clock, item, sent>>

\* The mail server accepts the message.
Deliver(w, m) ==
  /\ at[w] = "deliver" /\ m \in items[w]
  /\ rows[m].sealed
  /\ items' = [items EXCEPT ![w] = @ \ {m}]
  /\ item' = [item EXCEPT ![w] = m]
  /\ at' = [at EXCEPT ![w] = "succeeded"]
  /\ sent' = sent \cup {m}
  /\ UNCHANGED <<clock, rows, until>>

\* The sealed URL does not open, or the mail server reports an error, perhaps after it
\* has accepted the message.
DeliverFails(w, m) ==
  /\ at[w] = "deliver" /\ m \in items[w]
  /\ items' = [items EXCEPT ![w] = @ \ {m}]
  /\ item' = [item EXCEPT ![w] = m]
  /\ at' = [at EXCEPT ![w] = "errored"]
  /\ \/ UNCHANGED sent
     \/ rows[m].sealed /\ sent' = sent \cup {m}
  /\ UNCHANGED <<clock, rows, until>>

\* Mutant: the mark is written whatever the row's status is.
MarkedAlways(m, marked) == [rows EXCEPT ![m] = marked]

\* Both marks name the message by id and take effect on a row being processed, whoever
\* processes it.
Marked(m, marked) ==
  IF rows[m].status = "processing" THEN [rows EXCEPT ![m] = marked] ELSE rows

MarkDelivered(w) ==
  LET m == item[w]
  IN  /\ at[w] = "succeeded"
      /\ rows' = Marked(m, [rows[m] EXCEPT !.status = "delivered", !.attempts = @ + 1,
                                           !.lease = 0, !.updated = clock])
      /\ at' = [at EXCEPT ![w] = "deliver"]
      /\ item' = [item EXCEPT ![w] = NoMessage]
      /\ UNCHANGED <<clock, items, until, sent>>

\* power(2, attempts) minutes, or maxRetryInterval if that is less.
Backoff(attempts) == IF 2 ^ attempts < MaxRetry THEN 2 ^ attempts ELSE MaxRetry

GivesUp(m) == rows[m].attempts + 1 >= MaxAttempts \/ rows[m].expires <= clock

MarkFailed(w) ==
  LET m == item[w]
  IN  /\ at[w] = "errored"
      /\ rows' = Marked(m,
           [rows[m] EXCEPT !.status = IF GivesUp(m) THEN "failed" ELSE "pending",
                           !.attempts = @ + 1,
                           !.next = clock + Backoff(rows[m].attempts),
                           !.lease = 0,
                           !.updated = IF GivesUp(m) THEN clock ELSE @])
      /\ at' = [at EXCEPT ![w] = "deliver"]
      /\ item' = [item EXCEPT ![w] = NoMessage]
      /\ UNCHANGED <<clock, items, until, sent>>

\* The mark does not reach the database; the worker logs that and goes on.
LoseMark(w) ==
  /\ at[w] \in {"succeeded", "errored"}
  /\ at' = [at EXCEPT ![w] = "deliver"]
  /\ item' = [item EXCEPT ![w] = NoMessage]
  /\ UNCHANGED <<clock, rows, items, until, sent>>

EndBatch(w) ==
  /\ at[w] = "deliver" /\ items[w] = {}
  /\ at' = [at EXCEPT ![w] = "idle"]
  /\ until' = [until EXCEPT ![w] = 0]
  /\ UNCHANGED <<clock, rows, items, item, sent>>

\* The context ends or the process does; what was claimed stays claimed.
Stop(w) ==
  /\ at[w] # "idle"
  /\ at' = [at EXCEPT ![w] = "idle"]
  /\ items' = [items EXCEPT ![w] = {}]
  /\ item' = [item EXCEPT ![w] = NoMessage]
  /\ until' = [until EXCEPT ![w] = 0]
  /\ UNCHANGED <<clock, rows, sent>>

\* Maintenance deletes delivered rows, and then failed ones, alike.
Purge(status) ==
  /\ rows' = [m \in Messages |->
       IF rows[m].status = status /\ rows[m].updated + PurgeAge < clock
       THEN [NoRow EXCEPT !.status = "purged"] ELSE rows[m]]
  /\ UNCHANGED <<clock, at, items, item, until, sent>>

Tick ==
  /\ clock < MaxTime
  /\ clock' = clock + 1
  /\ UNCHANGED <<rows, at, items, item, until, sent>>

-----------------------------------------------------------------------------
Init ==
  /\ clock = 0
  /\ rows = [m \in Messages |-> NoRow]
  /\ at = [w \in Workers |-> "idle"]
  /\ items = [w \in Workers |-> {}]
  /\ item = [w \in Workers |-> NoMessage]
  /\ until = [w \in Workers |-> 0]
  /\ sent = {}

\* pollOnce, one step at a time.
Work(w) ==
  \/ ExpireMessages(w) \/ ClearUnsealed(w) \/ Claim(w)
  \/ \E m \in Messages : Deliver(w, m) \/ DeliverFails(w, m)
  \/ MarkDelivered(w) \/ MarkFailed(w) \/ LoseMark(w) \/ EndBatch(w)

Next ==
  \/ \E m \in Messages, lifetime \in Lifetimes, sealed \in BOOLEAN :
       Enqueue(m, lifetime, sealed)
  \/ \E w \in Workers : Work(w) \/ Stop(w)
  \/ \E status \in {"delivered", "failed"} : Purge(status)
  \/ Tick

Spec == Init /\ [][Next]_vars

\* Time passes, and each worker goes on polling until its process stops, after which
\* another takes its place.
FairSpec == Spec /\ WF_vars(Tick) /\ \A w \in Workers : WF_vars(Work(w))

-----------------------------------------------------------------------------
(***************************************************************************)
(* What is settled was settled for a reason and stays settled: a message is *)
(* marked delivered only after the mail server has accepted it, and given   *)
(* up only when it has expired, was never sealed or has failed as often as  *)
(* it may; no late mark and no poll revives it or changes which it was.     *)
(***************************************************************************)
SettledStays ==
  [][\A m \in Messages :
       \/ Settled(m) /\ rows'[m].status \in {rows[m].status, "purged"}
       \/ rows'[m].status \in {"none", "pending", "processing"} /\ ~Settled(m)
       \/ rows'[m].status = "delivered" /\ Live(m) /\ m \in sent
       \/ /\ rows'[m].status = "failed" /\ Live(m)
          /\ \/ rows[m].expires <= clock \/ ~rows[m].sealed
             \/ rows'[m].attempts = MaxAttempts]_vars

(***************************************************************************)
(* Every message is settled in the end, even if workers stop again and      *)
(* again in the middle of a batch.                                          *)
(***************************************************************************)
EverySettles == \A m \in Messages : Live(m) ~> Settled(m)

(***************************************************************************)
(* "Atomically leases due messages so concurrent workers cannot deliver the *)
(* same row": a message is in the hands of one worker within its lease.     *)
(***************************************************************************)
LeaseIsExclusive ==
  \A v, w \in Workers : v # w /\ until[v] > clock /\ until[w] > clock =>
    items[v] \cap items[w] = {}
=============================================================================
