---------------------------- MODULE UpdateChecks ----------------------------
(***************************************************************************)
(* Update checks of the self-hosted server (internal/selfhost/updates/      *)
(* service.go, sqlitestore/updates.go) over its audit log.                  *)
(*                                                                          *)
(* runCheck holds the service's mutex, so one check is under way at a time, *)
(* in four steps: read the settings, fetch, judge, record.  Owners change   *)
(* the setting and the operator's "updates reset-sequence", a process of    *)
(* its own, clears the sequences in between.                                *)
(*                                                                          *)
(* A feed is the key that signed it and its sequence.  The feed server is   *)
(* external: it may answer with any feed published so far, or not at all.   *)
(***************************************************************************)
EXTENDS AuditLog

CONSTANTS Keys,         \* signing keys the server trusts
          MaxSequence   \* bound of the feeds published

ASSUME UpdatesAssumption == Keys # {} /\ MaxSequence \in Nat

VARIABLES choice,     \* update_settings.enabled: unset, on or off
          sequences,  \* update_sequences, 0 for no row
          feed,       \* update_settings.last_feed
          lastError,  \* update_settings.last_error
          check,      \* the check under way
          newest      \* the highest sequence recorded since the last reset

updateVars == <<choice, sequences, feed, lastError, check, newest>>
vars == <<auditVars, updateVars>>

NoFeed == [key |-> "none", sequence |-> 0]
Feeds == [key : Keys, sequence : 1..MaxSequence]

\* codeOf: unreachable, invalid and expired feeds differ in their wording only.
Failures == {"unusable"}
NoCheck == [phase |-> "idle"]

Room == Len(log) < MaxRows
NoAudit == UNCHANGED log

-----------------------------------------------------------------------------
(* sqlitestore/updates.go *)

ConfigureUpdates(to) ==
  /\ choice' = to
  /\ IF to = choice THEN NoAudit ELSE appendAudit("updates.updated")
  /\ UNCHANGED <<sequences, feed, lastError, newest>>

\* Mutant: the first sequence seen from a key is kept.
RecordFirstSequence(doc) ==
  /\ sequences[doc.key] <= doc.sequence
  /\ sequences' = [sequences EXCEPT ![doc.key] = IF @ = 0 THEN doc.sequence ELSE @]
  /\ feed' = doc /\ lastError' = ""
  /\ newest' = [newest EXCEPT ![doc.key] = doc.sequence]

RecordUpdateFeed(doc) ==
  /\ sequences[doc.key] <= doc.sequence
  /\ sequences' = [sequences EXCEPT ![doc.key] = doc.sequence]
  /\ feed' = doc /\ lastError' = ""
  /\ newest' = [newest EXCEPT ![doc.key] = doc.sequence]

\* A rollback is audited once, until another outcome is recorded.
RecordUpdateFailure(code) ==
  /\ lastError' = code
  /\ IF code = "rollback" /\ lastError # code THEN appendAudit("updates.rollback_rejected") ELSE NoAudit
  /\ UNCHANGED <<sequences, feed, newest>>

ResetUpdateSequences ==
  /\ sequences' = [k \in Keys |-> 0]
  /\ newest' = [k \in Keys |-> 0]
  /\ lastError' = IF lastError = "rollback" THEN "" ELSE lastError
  /\ appendAudit("updates.sequences_reset")
  /\ UNCHANGED <<choice, feed, check>>

-----------------------------------------------------------------------------
(* service.go *)

\* patchUpdates and Configure; a check that turning them on starts is runCheck.
Configure ==
  /\ Room
  /\ \E to \in {"on", "off"} : ConfigureUpdates(to)
  /\ UNCHANGED <<check, verified, export, damage>>

\* Run, checkUpdates and Configure all start one; with the setting off it ends at once.
runCheck ==
  /\ check.phase = "idle" /\ choice = "on"
  /\ check' = [phase |-> "fetch", known |-> sequences]
  /\ UNCHANGED <<auditVars, choice, sequences, feed, lastError, newest>>

fetch ==
  /\ check.phase = "fetch"
  /\ \/ \E code \in Failures : check' = [phase |-> "fail", code |-> code]
     \/ \E doc \in Feeds :
          check' = IF doc.sequence < check.known[doc.key]
                   THEN [phase |-> "fail", code |-> "rollback"] ELSE [phase |-> "record", doc |-> doc]
  /\ UNCHANGED <<auditVars, choice, sequences, feed, lastError, newest>>

\* A conflict is treated as a rollback; only another server on the same database could
\* cause one.
record ==
  /\ check.phase = "record"
  /\ IF sequences[check.doc.key] <= check.doc.sequence
     THEN RecordUpdateFeed(check.doc) /\ check' = NoCheck
     ELSE check' = [phase |-> "fail", code |-> "rollback"] /\ UNCHANGED <<sequences, feed, lastError, newest>>
  /\ UNCHANGED <<auditVars, choice>>

failCheck ==
  /\ check.phase = "fail" /\ Room
  /\ RecordUpdateFailure(check.code)
  /\ check' = NoCheck
  /\ UNCHANGED <<choice, verified, export, damage>>

\* The server stops with a check under way, or the store refuses to record it.
stopCheck ==
  /\ check.phase # "idle"
  /\ check' = NoCheck
  /\ UNCHANGED <<auditVars, choice, sequences, feed, lastError, newest>>

resetSequence == Room /\ ResetUpdateSequences /\ UNCHANGED <<verified, export, damage>>

-----------------------------------------------------------------------------
Init ==
  /\ AuditInit
  /\ choice = "unset" /\ sequences = [k \in Keys |-> 0] /\ feed = NoFeed /\ lastError = ""
  /\ check = NoCheck /\ newest = [k \in Keys |-> 0]

Next ==
  \/ AuditNext /\ UNCHANGED updateVars
  \/ Configure \/ runCheck \/ fetch \/ record \/ failCheck \/ stopCheck \/ resetSequence

Spec == Init /\ [][Next]_vars

-----------------------------------------------------------------------------
(* Properties *)

\* The feed an owner is shown is never replaced by an older one of the same key, except
\* after the operator reset the sequences: not by a check that read the sequences
\* before a reset, and not by a mirror that answers with what it published earlier.
FeedMovesForward ==
  [][\A k \in Keys : feed' # feed /\ feed'.key = k => feed'.sequence >= newest[k]]_vars
=============================================================================
