------------------------- MODULE RequestNoncesProofs -------------------------
(***************************************************************************)
(* Proofs about RequestNonces, for any number of requests and calls and any *)
(* skew, drift and retention that meet RetentionAssumption.                 *)
(*                                                                          *)
(* A request is Closed when it can never be accepted again: either its      *)
(* nonce outlives its window, with the drift to spare, or every clock is    *)
(* past that window.  PurgeExpired turns the first reason into the second,  *)
(* which is what the margin in the retention is for.                        *)
(***************************************************************************)
EXTENDS RequestNonces, TLAPS

Over(r) == latest > stamp[r] + Skew + Drift

Closed(r) ==
  stamp[r] > 0 /\ (nonces[r] > stamp[r] + Skew + Drift \/ Over(r))

\* A call that failed remembers an expiry that closes its request.
CallsRemember ==
  \A c \in Calls : calls[c].busy =>
    /\ calls[c].request \in Requests
    /\ stamp[calls[c].request] > 0
    /\ calls[c].expires > stamp[calls[c].request] + Skew + Drift
    /\ calls[c].expires > calls[c].now

\* A stored nonce outlives the window of its request.
NoncesLast ==
  \A r \in Requests : nonces[r] > 0 => stamp[r] > 0 /\ nonces[r] > stamp[r] + Skew + Drift

IInv ==
  /\ TypeOK
  /\ clock <= latest /\ latest - Drift <= clock
  /\ CallsRemember
  /\ NoncesLast
  /\ \A r \in Requests : accepted[r] <= 1
  /\ \A r \in Requests : accepted[r] > 0 \/ r \in refused => Closed(r)

\* A request that verifies is not closed, and recording its nonce closes it.
LEMMA VerifiedIsOpen ==
  ASSUME IInv, NEW r \in Requests, verifyRequest(r)
  PROVE  /\ ~Closed(r)
         /\ accepted[r] = 0 /\ r \notin refused
         /\ Expires(clock) \in Nat
         /\ Expires(clock) > stamp[r] + Skew + Drift
         /\ Expires(clock) > clock
<1>1. /\ clock \in Nat /\ latest \in Nat /\ stamp[r] \in Nat /\ nonces[r] \in Nat
      /\ accepted[r] \in Nat
  BY DEF IInv, TypeOK
<1>2. Skew \in Nat /\ Retention \in Nat /\ Drift \in Nat /\ Retention > 2 * Skew + Drift
  BY RetentionAssumption
<1>3. /\ stamp[r] - clock <= Skew /\ clock - stamp[r] <= Skew /\ nonces[r] <= clock
  BY DEF verifyRequest, withinSkew, Fresh
<1>4. clock <= latest /\ latest - Drift <= clock
  BY DEF IInv
<1>5. ~Closed(r)
  BY <1>1, <1>2, <1>3, <1>4 DEF Closed, Over
<1>6. accepted[r] = 0 /\ r \notin refused
  BY <1>1, <1>5 DEF IInv
<1> QED
  BY <1>1, <1>2, <1>3, <1>5, <1>6 DEF Expires

\* Nothing is signed, stored or accepted at first.
LEMMA InitIInv == Init => IInv
<1> SUFFICES ASSUME Init PROVE IInv
  OBVIOUS
<1>1. Idle \in CallRows /\ Idle.busy = FALSE
  BY DEF Idle, CallRows
<1>2. TypeOK
  BY <1>1 DEF Init, TypeOK
<1>3. CallsRemember
  BY <1>1 DEF Init, CallsRemember
<1> QED
  BY <1>2, <1>3, RetentionAssumption DEF Init, IInv, NoncesLast

\* A transaction that records r's nonce and takes effect.
LEMMA AcceptIInv ==
  ASSUME IInv, NEW r \in Requests, verifyRequest(r),
         nonces' = [nonces EXCEPT ![r] = Expires(clock)],
         accepted' = [accepted EXCEPT ![r] = @ + 1],
         UNCHANGED <<clock, latest, stamp, refused>>,
         calls' \in [Calls -> CallRows],
         CallsRemember'
  PROVE  IInv'
<1>1. /\ accepted[r] = 0 /\ Expires(clock) \in Nat
      /\ Expires(clock) > stamp[r] + Skew + Drift /\ stamp[r] > 0
  BY VerifiedIsOpen DEF verifyRequest
<1>2. TypeOK'
  BY <1>1 DEF IInv, TypeOK
<1>3. \A q \in Requests : accepted'[q] <= 1
  BY <1>1 DEF IInv, TypeOK
<1>5. NoncesLast'
  BY <1>1 DEF IInv, TypeOK, NoncesLast
<1>4. \A q \in Requests : accepted'[q] > 0 \/ q \in refused' => Closed(q)'
  <2> SUFFICES ASSUME NEW q \in Requests, accepted'[q] > 0 \/ q \in refused'
               PROVE  Closed(q)'
    OBVIOUS
  <2>1. CASE q = r
    BY <2>1, <1>1 DEF IInv, TypeOK, Closed, Over
  <2>2. CASE q # r
    BY <2>2 DEF IInv, TypeOK, Closed, Over
  <2> QED
    BY <2>1, <2>2
<1> QED
  BY <1>2, <1>3, <1>4, <1>5 DEF IInv

\* A call that keeps the nonce of the transaction it has just run.
LEMMA SpentRemembered ==
  ASSUME IInv, NEW c \in Calls, NEW r \in Requests, verifyRequest(r),
         calls' = [calls EXCEPT ![c] = Spent(r)], UNCHANGED stamp
  PROVE  calls' \in [Calls -> CallRows] /\ CallsRemember'
<1>1. /\ Expires(clock) \in Nat /\ Expires(clock) > clock /\ clock \in Nat
      /\ Expires(clock) > stamp[r] + Skew + Drift /\ stamp[r] > 0
  BY VerifiedIsOpen DEF verifyRequest, IInv, TypeOK
<1>2. Spent(r) \in CallRows
  BY <1>1 DEF Spent, CallRows
<1>3. calls \in [Calls -> CallRows] /\ CallsRemember
  BY DEF IInv, TypeOK
<1>4. CallsRemember'
  <2> SUFFICES ASSUME NEW b \in Calls, calls'[b].busy
               PROVE  /\ calls'[b].request \in Requests
                      /\ stamp'[calls'[b].request] > 0
                      /\ calls'[b].expires > stamp'[calls'[b].request] + Skew + Drift
                      /\ calls'[b].expires > calls'[b].now
    BY DEF CallsRemember
  <2>1. CASE b = c
    BY <2>1, <1>1, <1>3 DEF Spent
  <2>2. CASE b # c
    BY <2>2, <1>3 DEF CallsRemember
  <2> QED
    BY <2>1, <2>2
<1> QED
  BY <1>2, <1>3, <1>4

\* Dropping a call leaves the others as they were.
LEMMA CallEnds ==
  ASSUME IInv, NEW c \in Calls, calls' = [calls EXCEPT ![c] = Idle], UNCHANGED stamp
  PROVE  calls' \in [Calls -> CallRows] /\ CallsRemember'
<1>1. Idle \in CallRows /\ ~Idle.busy
  BY DEF Idle, CallRows
<1>2. calls \in [Calls -> CallRows] /\ CallsRemember
  BY DEF IInv, TypeOK
<1> QED
  BY <1>1, <1>2 DEF CallsRemember

\* A nonce that goes up, or goes away when its time is over, closes what it closed.
LEMMA ClosedStays ==
  ASSUME IInv, NEW r \in Requests, Closed(r),
         latest' \in Nat, latest <= latest', UNCHANGED stamp,
         nonces'[r] \in Nat, nonces'[r] >= nonces[r] \/ nonces[r] <= latest'
  PROVE  Closed(r)'
<1>1. /\ latest \in Nat /\ stamp[r] \in Nat /\ nonces[r] \in Nat
      /\ Skew \in Nat /\ Drift \in Nat
  BY RetentionAssumption DEF IInv, TypeOK
<1> QED
  BY <1>1 DEF Closed, Over

\* The second transaction puts back a nonce that closes the request it refuses.
LEMMA RecoverIInv == ASSUME IInv, NEW c \in Calls, Recover(c) PROVE IInv'
<1> DEFINE s == calls[c]
<1>1. /\ s.request \in Requests /\ stamp[s.request] > 0
      /\ s.expires > stamp[s.request] + Skew + Drift /\ s.expires > s.now
      /\ s \in CallRows
  BY DEF IInv, Recover, CallsRemember, TypeOK
<1>2. s.now \in Nat /\ s.expires \in Nat
  BY <1>1 DEF CallRows
<1>3. /\ clock \in Nat /\ latest \in Nat /\ stamp \in [Requests -> Nat]
      /\ nonces \in [Requests -> Nat] /\ accepted \in [Requests -> Nat]
      /\ refused \in SUBSET Requests /\ Skew \in Nat /\ Drift \in Nat
  BY RetentionAssumption DEF IInv, TypeOK
<1>4. /\ nonces' = PutBack(s) /\ refused' = refused \cup {s.request}
      /\ calls' = [calls EXCEPT ![c] = Idle]
      /\ UNCHANGED <<clock, latest, stamp, accepted>>
  BY DEF Recover
<1>5. calls' \in [Calls -> CallRows] /\ CallsRemember'
  BY <1>4, CallEnds
<1> HIDE DEF s
<1>6. nonces' \in [Requests -> Nat]
  BY <1>1, <1>2, <1>3, <1>4 DEF PutBack
<1>7. TypeOK'
  BY <1>1, <1>3, <1>4, <1>5, <1>6 DEF TypeOK
<1>8. \A r \in Requests : nonces'[r] >= nonces[r]
  BY <1>1, <1>2, <1>3, <1>4 DEF PutBack, Fresh
<1>9. NoncesLast'
  BY <1>1, <1>2, <1>3, <1>4 DEF IInv, NoncesLast, PutBack
<1>10. nonces'[s.request] > 0
  BY <1>1, <1>2, <1>3, <1>4 DEF PutBack, Fresh
<1>11. ASSUME NEW r \in Requests, accepted'[r] > 0 \/ r \in refused' PROVE Closed(r)'
  <2>1. CASE r = s.request
    BY <2>1, <1>1, <1>9, <1>10 DEF NoncesLast, Closed
  <2>2. CASE r # s.request
    <3>1. Closed(r)
      BY <2>2, <1>4, <1>11 DEF IInv
    <3> QED
      BY <3>1, <1>3, <1>4, <1>6, <1>8, ClosedStays
  <2> QED
    BY <2>1, <2>2
<1> QED
  BY <1>4, <1>5, <1>7, <1>9, <1>11 DEF IInv

\* A step that accepts and refuses nothing, and lets no nonce go before its time.
LEMMA QuietStep ==
  ASSUME IInv, TypeOK', clock' <= latest', latest' - Drift <= clock', latest <= latest',
         CallsRemember', NoncesLast', UNCHANGED <<stamp, accepted, refused>>,
         \A r \in Requests : nonces'[r] >= nonces[r] \/ nonces[r] <= latest'
  PROVE  IInv'
<1>1. ASSUME NEW r \in Requests, accepted'[r] > 0 \/ r \in refused' PROVE Closed(r)'
  <2>1. Closed(r)
    BY <1>1 DEF IInv
  <2>2. latest' \in Nat /\ nonces'[r] \in Nat
    BY DEF TypeOK
  <2> QED
    BY <2>1, <2>2, ClosedStays
<1> QED
  BY <1>1 DEF IInv

\* Every step keeps the invariant.
LEMMA StepIInv == IInv /\ [Next]_vars => IInv'
<1> SUFFICES ASSUME IInv, [Next]_vars PROVE IInv'
  OBVIOUS
<1>0. /\ TypeOK /\ clock <= latest /\ latest - Drift <= clock /\ CallsRemember /\ NoncesLast
      /\ Skew \in Nat /\ Drift \in Nat /\ MaxTime \in Nat
      /\ clock \in Nat /\ latest \in Nat /\ stamp \in [Requests -> Nat]
      /\ nonces \in [Requests -> Nat] /\ calls \in [Calls -> CallRows]
  BY RetentionAssumption DEF IInv, TypeOK
<1>1. ASSUME NEW r \in Requests, Accept(r) PROVE IInv'
  <2>1. CallsRemember'
    BY <1>0, <1>1 DEF CallsRemember, Accept
  <2>2. calls' \in [Calls -> CallRows]
    BY <1>0, <1>1 DEF Accept
  <2> QED
    BY <1>1, <2>1, <2>2, AcceptIInv DEF Accept
<1>2. ASSUME NEW r \in Requests, NEW time \in 1..MaxTime, Sign(r, time) PROVE IInv'
  <2>1. stamp[r] = 0 /\ stamp' = [stamp EXCEPT ![r] = time]
        /\ UNCHANGED <<clock, latest, nonces, calls, accepted, refused>>
    BY <1>2 DEF Sign
  <2>2. TypeOK'
    BY <1>0, <2>1 DEF TypeOK
  <2>3. CallsRemember' /\ NoncesLast'
    BY <1>0, <2>1 DEF CallsRemember, NoncesLast
  <2>4. \A q \in Requests : Closed(q) => Closed(q)'
    BY <1>0, <2>1 DEF Closed, Over
  <2> QED
    BY <2>1, <2>2, <2>3, <2>4 DEF IInv
<1>3. ASSUME NEW c \in Calls, NEW r \in Requests, Fail(c, r) PROVE IInv'
  <2>1. calls' \in [Calls -> CallRows] /\ CallsRemember'
    BY <1>3, SpentRemembered DEF Fail
  <2>2. TypeOK' /\ NoncesLast'
    BY <1>0, <1>3, <2>1 DEF Fail, TypeOK, NoncesLast
  <2> QED
    BY <1>0, <1>3, <2>1, <2>2, QuietStep DEF Fail
<1>4. ASSUME NEW c \in Calls, NEW r \in Requests, LoseCommit(c, r) PROVE IInv'
  <2>1. calls' \in [Calls -> CallRows] /\ CallsRemember'
    BY <1>4, SpentRemembered DEF LoseCommit
  <2> QED
    BY <1>4, <2>1, AcceptIInv DEF LoseCommit
<1>5. ASSUME NEW c \in Calls, LoseRecovery(c) PROVE IInv'
  <2>1. calls' \in [Calls -> CallRows] /\ CallsRemember'
    BY <1>5, CallEnds DEF LoseRecovery
  <2>2. TypeOK' /\ NoncesLast'
    BY <1>0, <1>5, <2>1 DEF LoseRecovery, TypeOK, NoncesLast
  <2> QED
    BY <1>0, <1>5, <2>1, <2>2, QuietStep DEF LoseRecovery
<1>6. CASE PurgeExpired
  <2>1. /\ nonces' = LiveNonces
        /\ UNCHANGED <<clock, latest, stamp, calls, accepted, refused>>
    BY <1>6 DEF PurgeExpired
  <2>2. TypeOK' /\ NoncesLast' /\ CallsRemember'
    BY <1>0, <2>1 DEF LiveNonces, TypeOK, NoncesLast, CallsRemember
  <2>3. \A r \in Requests : nonces'[r] >= nonces[r] \/ nonces[r] <= latest'
    BY <1>0, <2>1 DEF LiveNonces
  <2> QED
    BY <1>0, <2>1, <2>2, <2>3, QuietStep
<1>7. ASSUME NEW time \in 1..MaxTime, ReadClock(time) PROVE IInv'
  <2>1. /\ clock' \in Nat /\ latest' \in Nat /\ latest <= latest'
        /\ clock' <= latest' /\ latest' - Drift <= clock'
        /\ UNCHANGED <<stamp, nonces, calls, accepted, refused>>
    BY <1>0, <1>7 DEF ReadClock
  <2>2. TypeOK' /\ NoncesLast' /\ CallsRemember'
    BY <1>0, <2>1 DEF TypeOK, NoncesLast, CallsRemember
  <2>3. \A r \in Requests : nonces'[r] >= nonces[r] \/ nonces[r] <= latest'
    BY <1>0, <2>1
  <2> QED
    BY <2>1, <2>2, <2>3, QuietStep
<1>8. CASE UNCHANGED vars
  <2>1. TypeOK' /\ NoncesLast' /\ CallsRemember'
    BY <1>0, <1>8 DEF vars, TypeOK, NoncesLast, CallsRemember
  <2> QED
    BY <1>0, <1>8, <2>1, QuietStep DEF vars
<1> QED
  BY <1>1, <1>2, <1>3, <1>4, <1>5, <1>6, <1>7, <1>8, RecoverIInv DEF Next

(***************************************************************************)
(* No signed request takes effect twice: verifyRequest and nonceKeeper keep *)
(* AcceptedOnce for every skew and drift the retention covers.              *)
(***************************************************************************)
THEOREM ReplaySafe == Spec => [](TypeOK /\ AcceptedOnce)
<1>1. IInv => TypeOK /\ AcceptedOnce
  BY DEF IInv, AcceptedOnce
<1> QED
  BY InitIInv, StepIInv, <1>1, PTL DEF Spec

(***************************************************************************)
(* A request whose failure was reported with its nonce put back stays       *)
(* without effect from then on.                                             *)
(***************************************************************************)
THEOREM RefusalFinal == Spec => RefusedStaysSpent
<1>1. IInv /\ [Next]_vars => [\A r \in refused : accepted'[r] = accepted[r]]_vars
  <2> SUFFICES ASSUME IInv, Next, NEW r \in refused PROVE accepted'[r] = accepted[r]
    BY DEF vars
  <2>1. r \in Requests /\ accepted \in [Requests -> Nat]
    BY DEF IInv, TypeOK
  <2>2. ~verifyRequest(r)
    BY <2>1, VerifiedIsOpen
  <2> QED
    BY <2>1, <2>2
    DEF Next, Accept, Sign, Fail, LoseCommit, Recover, LoseRecovery, PurgeExpired, ReadClock
<1> QED
  BY InitIInv, StepIInv, <1>1, PTL DEF Spec, RefusedStaysSpent
=============================================================================
