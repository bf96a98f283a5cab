---------------------------- MODULE OutboxProofs ----------------------------
(***************************************************************************)
(* What the outbox settles stays settled, for every set of messages and     *)
(* workers and every setting of the queue.                                  *)
(*                                                                          *)
(* SettledStays is about steps, and two of its clauses depend on what came  *)
(* before the step.  OInv supplies them: a worker about to record a         *)
(* delivery has made it, and a live row has attempts left, so the attempt   *)
(* that gives up is exactly the last one.                                   *)
(***************************************************************************)
EXTENDS Outbox, TLAPS

Columns == {"status", "attempts", "next", "lease", "expires", "sealed", "updated"}

Statuses == {"none", "pending", "processing", "delivered", "failed", "purged"}

\* The columns of a row whose values the argument needs.
RowOK(row) ==
  /\ DOMAIN row = Columns
  /\ row.status \in Statuses
  /\ row.attempts \in Nat
  /\ row.status \in {"pending", "processing"} => row.attempts < MaxAttempts

OInv ==
  /\ rows = [m \in Messages |-> rows[m]]
  /\ \A m \in Messages : RowOK(rows[m])
  /\ at \in [Workers -> {"idle", "clear", "claim", "deliver", "succeeded", "errored"}]
  /\ items \in [Workers -> SUBSET Messages]
  /\ item \in [Workers -> Messages \cup {NoMessage}]
  /\ \A w \in Workers : at[w] \in {"succeeded", "errored"} => item[w] \in Messages
  /\ \A w \in Workers : at[w] = "succeeded" => item[w] \in sent

\* What a step may do to one row.
RowStep(m) ==
  \/ Settled(m) /\ rows'[m].status \in {rows[m].status, "purged"}
  \/ rows'[m].status \in {"none", "pending", "processing"} /\ ~Settled(m)
  \/ rows'[m].status = "delivered" /\ Live(m) /\ m \in sent
  \/ /\ rows'[m].status = "failed" /\ Live(m)
     /\ \/ rows[m].expires <= clock \/ ~rows[m].sealed
        \/ rows'[m].attempts = MaxAttempts

-----------------------------------------------------------------------------
\* An unchanged row has taken no step that needs a reason.
LEMMA SameRow ==
  ASSUME NEW m \in Messages, RowOK(rows[m]), rows'[m] = rows[m]
  PROVE  RowOK(rows'[m]) /\ RowStep(m)
  BY DEF RowOK, RowStep, Settled, Live, Statuses

\* A row given up for having expired, or for being in clear, says so.
LEMMA FailedRowStep ==
  ASSUME NEW m \in Messages, RowOK(rows[m]), Live(m),
         rows[m].expires <= clock \/ ~rows[m].sealed,
         rows'[m] = FailedRow(m)
  PROVE  RowOK(rows'[m]) /\ RowStep(m)
  <1>1. /\ DOMAIN rows'[m] = Columns /\ rows'[m].status = "failed"
        /\ rows'[m].attempts = rows[m].attempts
    BY DEF FailedRow, RowOK, Columns
  <1> QED BY <1>1 DEF RowOK, RowStep, Statuses

\* Claiming a due row leaves it live, with the attempts it had.
LEMMA ClaimedRowStep ==
  ASSUME NEW m \in Messages, RowOK(rows[m]), Due(m),
         rows'[m] = [rows[m] EXCEPT !.status = "processing", !.lease = clock + Lease]
  PROVE  RowOK(rows'[m]) /\ RowStep(m)
  <1>1. /\ DOMAIN rows'[m] = Columns /\ rows'[m].status = "processing"
        /\ rows'[m].attempts = rows[m].attempts
    BY DEF RowOK, Columns
  <1>2. Live(m) /\ ~Settled(m)
    BY DEF Due, Live, Settled
  <1> QED BY <1>1, <1>2 DEF RowOK, RowStep, Statuses, Live

\* A mark takes effect on a row being processed; the last failing attempt gives it up.
LEMMA DeliveredRowStep ==
  ASSUME NEW m \in Messages, RowOK(rows[m]), rows[m].status = "processing", m \in sent,
         rows'[m] = [rows[m] EXCEPT !.status = "delivered", !.attempts = @ + 1,
                                    !.lease = 0, !.updated = clock]
  PROVE  RowOK(rows'[m]) /\ RowStep(m)
  <1>1. /\ DOMAIN rows'[m] = Columns /\ rows'[m].status = "delivered"
        /\ rows'[m].attempts = rows[m].attempts + 1
    BY DEF RowOK, Columns
  <1> QED BY <1>1 DEF RowOK, RowStep, Statuses, Live

\* A failed attempt returns the row to the queue, unless it was the last or came too late.
LEMMA FailedAttemptStep ==
  ASSUME NEW m \in Messages, RowOK(rows[m]), rows[m].status = "processing",
         rows'[m] = [rows[m] EXCEPT !.status = IF GivesUp(m) THEN "failed" ELSE "pending",
                                    !.attempts = @ + 1,
                                    !.next = clock + Backoff(rows[m].attempts),
                                    !.lease = 0,
                                    !.updated = IF GivesUp(m) THEN clock ELSE @]
  PROVE  RowOK(rows'[m]) /\ RowStep(m)
  <1>1. /\ DOMAIN rows'[m] = Columns
        /\ rows'[m].status = IF GivesUp(m) THEN "failed" ELSE "pending"
        /\ rows'[m].attempts = rows[m].attempts + 1
    BY DEF RowOK, Columns
  <1>2. rows[m].attempts \in Nat /\ rows[m].attempts < MaxAttempts /\ MaxAttempts \in Nat
    BY OutboxAssumption DEF RowOK
  <1>3. Live(m) /\ ~Settled(m)
    BY DEF Live, Settled
  <1>4. CASE GivesUp(m)
    <2>1. rows[m].attempts + 1 = MaxAttempts \/ rows[m].expires <= clock
      BY <1>2, <1>4 DEF GivesUp
    <2> QED BY <1>1, <1>2, <1>3, <1>4, <2>1 DEF RowOK, RowStep, Statuses
  <1>5. CASE ~GivesUp(m)
    <2>1. rows[m].attempts + 1 < MaxAttempts
      BY <1>2, <1>5 DEF GivesUp
    <2> QED BY <1>1, <1>2, <1>3, <1>5, <2>1 DEF RowOK, RowStep, Statuses
  <1> QED BY <1>4, <1>5

-----------------------------------------------------------------------------
\* The empty queue satisfies the invariant.
LEMMA InitOInv == Init => OInv
  <1> SUFFICES ASSUME Init PROVE OInv
    OBVIOUS
  <1>1. \A m \in Messages : rows[m] = NoRow
    BY DEF Init
  <1>2. RowOK(NoRow)
    BY DEF NoRow, RowOK, Columns, Statuses
  <1> QED BY <1>1, <1>2 DEF Init, OInv

\* A step that leaves the rows alone takes every row nowhere.
LEMMA SameRows ==
  ASSUME OInv, rows' = rows
  PROVE  /\ rows' = [m \in Messages |-> rows'[m]]
         /\ \A m \in Messages : RowOK(rows'[m]) /\ RowStep(m)
  <1>1. \A m \in Messages : RowOK(rows[m]) /\ rows'[m] = rows[m]
    BY DEF OInv
  <1> QED BY <1>1, SameRow DEF OInv

\* So does one that writes a single row, for all the others.
LEMMA OneRow ==
  ASSUME OInv, NEW m \in Messages, NEW row, rows' = [rows EXCEPT ![m] = row],
         RowOK(row), RowStep(m)
  PROVE  /\ rows' = [x \in Messages |-> rows'[x]]
         /\ \A x \in Messages : RowOK(rows'[x]) /\ RowStep(x)
  <1>1. rows'[m] = row /\ \A x \in Messages : x # m => rows'[x] = rows[x]
    BY DEF OInv
  <1>2. rows' = [x \in Messages |-> rows'[x]]
    BY DEF OInv
  <1>3. \A x \in Messages : RowOK(rows[x])
    BY DEF OInv
  <1> QED BY <1>1, <1>2, <1>3, SameRow

(***************************************************************************)
(* No step of any worker, of maintenance or of the clock takes a row        *)
(* anywhere but where SettledStays allows.                                  *)
(***************************************************************************)
LEMMA RowsStep ==
  ASSUME OInv, [Next]_vars
  PROVE  /\ rows' = [m \in Messages |-> rows'[m]]
         /\ \A m \in Messages : RowOK(rows'[m]) /\ RowStep(m)
  <1> DEFINE Goal == /\ rows' = [m \in Messages |-> rows'[m]]
                     /\ \A m \in Messages : RowOK(rows'[m]) /\ RowStep(m)
  <1>0. \A m \in Messages : RowOK(rows[m])
    BY DEF OInv
  <1>a. ASSUME rows' = rows PROVE Goal
    BY <1>a, SameRows
  <1>1. ASSUME NEW m \in Messages, NEW lifetime \in Lifetimes, NEW sealed \in BOOLEAN,
               Enqueue(m, lifetime, sealed)
        PROVE  Goal
    <2> DEFINE row == [status |-> "pending", attempts |-> 0, next |-> clock, lease |-> 0,
                       expires |-> clock + lifetime, sealed |-> sealed, updated |-> 0]
    <2>1. RowOK(row)
      BY OutboxAssumption DEF RowOK, Columns, Statuses
    <2>2. rows' = [rows EXCEPT ![m] = row] /\ ~Settled(m)
      BY <1>1 DEF Enqueue, Settled
    <2>3. rows'[m].status = "pending"
      BY <2>2 DEF OInv
    <2> HIDE DEF row
    <2> QED BY <2>1, <2>2, <2>3, OneRow DEF RowStep
  <1>2. ASSUME NEW w \in Workers, ExpireMessages(w) PROVE Goal
    <2>1. \A m \in Messages : rows'[m] = IF HasExpired(m) THEN FailedRow(m) ELSE rows[m]
      BY <1>2 DEF ExpireMessages
    <2>2. \A m \in Messages : HasExpired(m) => Live(m) /\ rows[m].expires <= clock
      BY DEF HasExpired
    <2>3. rows' = [m \in Messages |-> rows'[m]]
      BY <1>2 DEF ExpireMessages
    <2> QED BY <1>0, <2>1, <2>2, <2>3, SameRow, FailedRowStep
  <1>3. ASSUME NEW w \in Workers, ClearUnsealed(w) PROVE Goal
    <2>1. \A m \in Messages :
            rows'[m] = IF Live(m) /\ ~rows[m].sealed THEN FailedRow(m) ELSE rows[m]
      BY <1>3 DEF ClearUnsealed
    <2>2. rows' = [m \in Messages |-> rows'[m]]
      BY <1>3 DEF ClearUnsealed
    <2> QED BY <1>0, <2>1, <2>2, SameRow, FailedRowStep
  <1>4. ASSUME NEW w \in Workers, Claim(w) PROVE Goal
    <2>1. PICK S \in SUBSET Messages :
            /\ Candidates(S)
            /\ rows' = [m \in Messages |->
                 IF m \in S THEN [rows[m] EXCEPT !.status = "processing", !.lease = clock + Lease]
                 ELSE rows[m]]
      BY <1>4 DEF Claim
    <2>2. \A m \in S : Due(m)
      BY <2>1 DEF Candidates
    <2>3. rows' = [m \in Messages |-> rows'[m]]
      BY <2>1
    <2> QED BY <1>0, <2>1, <2>2, <2>3, SameRow, ClaimedRowStep
  <1>5. ASSUME NEW w \in Workers, MarkDelivered(w) PROVE Goal
    <2> DEFINE m == item[w]
               row == [rows[m] EXCEPT !.status = "delivered", !.attempts = @ + 1,
                                      !.lease = 0, !.updated = clock]
    <2>1. m \in Messages /\ m \in sent /\ rows' = Marked(m, row)
      BY <1>5 DEF MarkDelivered, OInv
    <2>2. CASE rows[m].status # "processing"
      BY <1>a, <2>1, <2>2 DEF Marked
    <2>3. CASE rows[m].status = "processing"
      <3>1. rows' = [rows EXCEPT ![m] = row] /\ rows'[m] = row
        BY <2>1, <2>3 DEF Marked, OInv
      <3>2. RowOK(rows'[m]) /\ RowStep(m)
        BY <1>0, <2>1, <2>3, <3>1, DeliveredRowStep
      <3> HIDE DEF row
      <3> QED BY <2>1, <3>1, <3>2, OneRow
    <2> QED BY <2>2, <2>3
  <1>6. ASSUME NEW w \in Workers, MarkFailed(w) PROVE Goal
    <2> DEFINE m == item[w]
               row == [rows[m] EXCEPT !.status = IF GivesUp(m) THEN "failed" ELSE "pending",
                                      !.attempts = @ + 1,
                                      !.next = clock + Backoff(rows[m].attempts),
                                      !.lease = 0,
                                      !.updated = IF GivesUp(m) THEN clock ELSE @]
    <2>1. m \in Messages /\ rows' = Marked(m, row)
      BY <1>6 DEF MarkFailed, OInv
    <2>2. CASE rows[m].status # "processing"
      BY <1>a, <2>1, <2>2 DEF Marked
    <2>3. CASE rows[m].status = "processing"
      <3>1. rows' = [rows EXCEPT ![m] = row] /\ rows'[m] = row
        BY <2>1, <2>3 DEF Marked, OInv
      <3>2. RowOK(rows'[m]) /\ RowStep(m)
        BY <1>0, <2>1, <2>3, <3>1, FailedAttemptStep
      <3> HIDE DEF row
      <3> QED BY <2>1, <3>1, <3>2, OneRow
    <2> QED BY <2>2, <2>3
  <1>7. ASSUME NEW status \in {"delivered", "failed"}, Purge(status) PROVE Goal
    <2>1. rows' = [m \in Messages |->
            IF rows[m].status = status /\ rows[m].updated + PurgeAge < clock
            THEN [NoRow EXCEPT !.status = "purged"] ELSE rows[m]]
      BY <1>7 DEF Purge
    <2>2. /\ RowOK([NoRow EXCEPT !.status = "purged"])
          /\ [NoRow EXCEPT !.status = "purged"].status = "purged"
      BY DEF NoRow, RowOK, Columns, Statuses
    <2>3. \A m \in Messages : \/ rows'[m] = rows[m]
                              \/ /\ rows'[m] = [NoRow EXCEPT !.status = "purged"]
                                 /\ Settled(m)
      BY <2>1 DEF Settled
    <2>4. rows' = [m \in Messages |-> rows'[m]]
      BY <2>1
    <2>5. \A m \in Messages : rows'[m] # rows[m] => RowOK(rows'[m]) /\ RowStep(m)
      BY <2>2, <2>3 DEF RowStep
    <2> QED BY <1>0, <2>4, <2>5, SameRow
  <1>8. ASSUME NEW w \in Workers, Stop(w) \/ LoseMark(w) \/ EndBatch(w) PROVE rows' = rows
    BY <1>8 DEF Stop, LoseMark, EndBatch
  <1>9. ASSUME NEW w \in Workers, NEW m \in Messages, Deliver(w, m) \/ DeliverFails(w, m)
        PROVE  rows' = rows
    BY <1>9 DEF Deliver, DeliverFails
  <1>10. Tick \/ UNCHANGED vars => rows' = rows
    BY DEF Tick, vars
  <1> HIDE DEF Goal
  <1>11. Goal
    BY <1>a, <1>1, <1>2, <1>3, <1>4, <1>5, <1>6, <1>7, <1>8, <1>9, <1>10 DEF Next, Work
  <1> QED BY <1>11 DEF Goal

(***************************************************************************)
(* The workers' own state: a worker marks the message it has just handed to *)
(* the mail server, and records a delivery only of one it accepted.         *)
(***************************************************************************)
LEMMA StepOInv == OInv /\ [Next]_vars => OInv'
  <1> SUFFICES ASSUME OInv, [Next]_vars PROVE OInv'
    OBVIOUS
  <1> DEFINE WorkersOK ==
        /\ at \in [Workers -> {"idle", "clear", "claim", "deliver", "succeeded", "errored"}]
        /\ items \in [Workers -> SUBSET Messages]
        /\ item \in [Workers -> Messages \cup {NoMessage}]
        /\ \A w \in Workers : at[w] \in {"succeeded", "errored"} => item[w] \in Messages
        /\ \A w \in Workers : at[w] = "succeeded" => item[w] \in sent
  <1>0. WorkersOK
    BY DEF OInv
  <1>1. ASSUME NEW w \in Workers, ExpireMessages(w) \/ ClearUnsealed(w) \/ EndBatch(w)
        PROVE  WorkersOK'
    BY <1>0, <1>1 DEF ExpireMessages, ClearUnsealed, EndBatch
  <1>2. ASSUME NEW w \in Workers, Claim(w) PROVE WorkersOK'
    BY <1>0, <1>2 DEF Claim
  <1>3. ASSUME NEW w \in Workers, NEW m \in Messages, Deliver(w, m) PROVE WorkersOK'
    BY <1>0, <1>3 DEF Deliver
  <1>4. ASSUME NEW w \in Workers, NEW m \in Messages, DeliverFails(w, m) PROVE WorkersOK'
    BY <1>0, <1>4 DEF DeliverFails
  <1>5. ASSUME NEW w \in Workers, MarkDelivered(w) \/ MarkFailed(w) \/ LoseMark(w)
        PROVE  WorkersOK'
    BY <1>0, <1>5 DEF MarkDelivered, MarkFailed, LoseMark
  <1>6. ASSUME NEW w \in Workers, Stop(w) PROVE WorkersOK'
    BY <1>0, <1>6 DEF Stop
  <1>7. ASSUME UNCHANGED <<at, items, item, sent>> PROVE WorkersOK'
    BY <1>0, <1>7
  <1>8. ASSUME NEW m, NEW lifetime, NEW sealed, Enqueue(m, lifetime, sealed)
        PROVE  UNCHANGED <<at, items, item, sent>>
    BY <1>8 DEF Enqueue
  <1>9. ASSUME NEW status, Purge(status) PROVE UNCHANGED <<at, items, item, sent>>
    BY <1>9 DEF Purge
  <1>10. Tick \/ UNCHANGED vars => UNCHANGED <<at, items, item, sent>>
    BY DEF Tick, vars
  <1> HIDE DEF WorkersOK
  <1>11. WorkersOK'
    BY <1>1, <1>2, <1>3, <1>4, <1>5, <1>6, <1>7, <1>8, <1>9, <1>10 DEF Next, Work
  <1> QED BY <1>11, RowsStep DEF WorkersOK, OInv

(***************************************************************************)
(* What is settled was settled for a reason and stays settled: however      *)
(* workers stop, repeat each other's deliveries or mark late, a message is  *)
(* delivered only after the mail server took it, given up only for one of   *)
(* the three reasons, and never revived.                                    *)
(***************************************************************************)
THEOREM OutboxSettles == Spec => SettledStays
  <1>1. OInv /\ [Next]_vars => [\A m \in Messages : RowStep(m)]_vars
    BY RowsStep
  <1> QED BY <1>1, InitOInv, StepOInv, PTL DEF Spec, SettledStays, RowStep
=============================================================================
