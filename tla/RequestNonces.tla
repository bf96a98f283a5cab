---------------------------- MODULE RequestNonces ----------------------------
(***************************************************************************)
(* Signed requests are accepted at most once (syncsvc: verifyRequest,       *)
(* nonce_keeper.go; syncproto/request.go).  A request carries the time its  *)
(* client stamped it with and a nonce; it may arrive any number of times,   *)
(* from retries, duplicates or several connections at once.                 *)
(*                                                                          *)
(* One scope is modelled (a vault and a device, or an owner): the same      *)
(* nonce in another scope is another request.  Each call runs a storage     *)
(* transaction; when it fails after the nonce was recorded, the nonce went  *)
(* with the rollback and a second transaction puts it back.  clock is the   *)
(* wall clock of the server that handles the next step; clocks of several   *)
(* servers, or one that is set back, lag the latest reading by Drift at     *)
(* most.                                                                    *)
(***************************************************************************)
EXTENDS Integers

CONSTANTS Requests,  \* signed requests, each with its own nonce
          NoRequest,
          Calls,     \* calls the servers handle at the same time
          Skew,      \* syncproto.RequestTimestampSkew
          Retention, \* syncproto.RequestNonceRetention
          Drift,     \* how far a server's clock may lag the latest reading
          MaxTime    \* bound of the clock

\* 2 * 300 + 60 seconds in the code: any lag below a minute is covered.
ASSUME RetentionAssumption ==
  /\ {Skew, Retention, Drift, MaxTime} \subseteq Nat
  /\ Retention > 2 * Skew + Drift

ASSUME NoRequestAssumption == NoRequest \notin Requests

VARIABLES clock,    \* s.now() of the next step
          latest,   \* the latest reading of any clock so far
          stamp,    \* time each request was stamped with; 0 before it is signed
          nonces,   \* expires_at of each stored nonce; 0 when there is none
          calls,    \* failed calls whose nonce is still to be put back
          accepted, \* how often each request took effect
          refused   \* requests answered with a failure after their nonce was put back

vars == <<clock, latest, stamp, nonces, calls, accepted, refused>>

Idle == [busy |-> FALSE, request |-> NoRequest, now |-> 0, expires |-> 0]

CallRows == [busy : BOOLEAN, request : Requests \cup {NoRequest}, now : Nat, expires : Nat]

(***************************************************************************)
(* Times are numbers; a call remembers the spentNonce of its transaction.   *)
(***************************************************************************)
TypeOK ==
  /\ clock \in Nat /\ latest \in Nat
  /\ stamp \in [Requests -> Nat]
  /\ nonces \in [Requests -> Nat]
  /\ calls \in [Calls -> CallRows]
  /\ accepted \in [Requests -> Nat]
  /\ refused \in SUBSET Requests

-----------------------------------------------------------------------------
withinSkew(r) == stamp[r] - clock <= Skew /\ clock - stamp[r] <= Skew

\* Mutant: the nonce is kept for one window instead of two.
ExpiresEarly(now) == now + Retention - Skew

Expires(now) == now + Retention

\* RecordNonce finds no nonce of r that is still live at now.
Fresh(r, now) == nonces[r] <= now

\* What the transaction of a call on r sees before it runs the handler.
verifyRequest(r) == stamp[r] > 0 /\ withinSkew(r) /\ Fresh(r, clock)

Sign(r, time) ==
  /\ stamp[r] = 0
  /\ stamp' = [stamp EXCEPT ![r] = time]
  /\ UNCHANGED <<clock, latest, nonces, calls, accepted, refused>>

\* The handler succeeds and its transaction, nonce included, commits.
Accept(r) ==
  /\ verifyRequest(r)
  /\ nonces' = [nonces EXCEPT ![r] = Expires(clock)]
  /\ accepted' = [accepted EXCEPT ![r] = @ + 1]
  /\ UNCHANGED <<clock, latest, stamp, calls, refused>>

Spent(r) == [busy |-> TRUE, request |-> r, now |-> clock, expires |-> Expires(clock)]

\* The handler fails after the signature verified: the transaction rolls back.
Fail(c, r) ==
  /\ ~calls[c].busy /\ verifyRequest(r)
  /\ calls' = [calls EXCEPT ![c] = Spent(r)]
  /\ UNCHANGED <<clock, latest, stamp, nonces, accepted, refused>>

\* The transaction commits but the call does not learn of it.
LoseCommit(c, r) ==
  /\ ~calls[c].busy /\ verifyRequest(r)
  /\ calls' = [calls EXCEPT ![c] = Spent(r)]
  /\ nonces' = [nonces EXCEPT ![r] = Expires(clock)]
  /\ accepted' = [accepted EXCEPT ![r] = @ + 1]
  /\ UNCHANGED <<clock, latest, stamp, refused>>

\* Mutant: the nonce is not put back.
ForgetSpent(spent) == nonces

PutBack(spent) ==
  IF Fresh(spent.request, spent.now)
  THEN [nonces EXCEPT ![spent.request] = spent.expires] ELSE nonces

\* nonceKeeper.Update's second transaction, and then the failure is returned.
Recover(c) ==
  /\ calls[c].busy
  /\ nonces' = PutBack(calls[c])
  /\ refused' = refused \cup {calls[c].request}
  /\ calls' = [calls EXCEPT ![c] = Idle]
  /\ UNCHANGED <<clock, latest, stamp, accepted>>

\* The second transaction fails and is logged, or the server stops before it.
LoseRecovery(c) ==
  /\ calls[c].busy
  /\ calls' = [calls EXCEPT ![c] = Idle]
  /\ UNCHANGED <<clock, latest, stamp, nonces, accepted, refused>>

LiveNonces == [r \in Requests |-> IF nonces[r] <= clock THEN 0 ELSE nonces[r]]

PurgeExpired ==
  /\ nonces' = LiveNonces
  /\ UNCHANGED <<clock, latest, stamp, calls, accepted, refused>>

\* Time passes, or the next step is handled by a clock that lags.
ReadClock(time) ==
  /\ time >= latest - Drift
  /\ clock' = time
  /\ latest' = IF time > latest THEN time ELSE latest
  /\ UNCHANGED <<stamp, nonces, calls, accepted, refused>>

-----------------------------------------------------------------------------
Init ==
  /\ clock = 1 /\ latest = 1
  /\ stamp = [r \in Requests |-> 0]
  /\ nonces = [r \in Requests |-> 0]
  /\ calls = [c \in Calls |-> Idle]
  /\ accepted = [r \in Requests |-> 0]
  /\ refused = {}

Next ==
  \/ \E r \in Requests : Accept(r) \/ \E time \in 1..MaxTime : Sign(r, time)
  \/ \E c \in Calls, r \in Requests : Fail(c, r) \/ LoseCommit(c, r)
  \/ \E c \in Calls : Recover(c) \/ LoseRecovery(c)
  \/ PurgeExpired
  \/ \E time \in 1..MaxTime : ReadClock(time)

Spec == Init /\ [][Next]_vars

-----------------------------------------------------------------------------
(***************************************************************************)
(* A signed request takes effect at most once, however often it arrives,    *)
(* whichever clock it meets and whatever PurgeExpired removed in between.   *)
(***************************************************************************)
AcceptedOnce == \A r \in Requests : accepted[r] <= 1

(***************************************************************************)
(* Once a client has been told that its request failed, and the nonce was   *)
(* put back, that request never takes effect: a copy that is still on its   *)
(* way is refused, so a client may sign the same operation anew.            *)
(***************************************************************************)
RefusedStaysSpent ==
  [][\A r \in refused : accepted'[r] = accepted[r]]_vars
=============================================================================
