---------------------------- MODULE MCInterrupted ----------------------------
(***************************************************************************)
(* The two jobs that must end well though the process may die in the middle *)
(* and start again: the delivery of account emails by the hosted servers    *)
(* and the restore of a self-hosted server's data.  They share no state and *)
(* run on different servers, so each is explored with the other at rest.    *)
(***************************************************************************)
EXTENDS Outbox, RestoreJournal

VARIABLE part  \* which of the two moves

InterruptedInit ==
  /\ part \in {"mail", "restore"}
  /\ Init /\ RestoreInit
  /\ part = "mail" => old = {} /\ Config \in new

MailStep(A) == part = "mail" /\ A /\ UNCHANGED <<restoreVars, part>>
RestoreStep(A) == part = "restore" /\ A /\ UNCHANGED <<vars, part>>

InterruptedNext == MailStep(Next) \/ RestoreStep(RestoreNext)

\* The fairness of FairSpec and of RestoreSpec.
InterruptedSpec ==
  /\ InterruptedInit /\ [][InterruptedNext]_<<vars, restoreVars, part>>
  /\ WF_<<vars, restoreVars, part>>(MailStep(Tick))
  /\ \A w \in Workers : WF_<<vars, restoreVars, part>>(MailStep(Work(w)))
  /\ WF_<<vars, restoreVars, part>>(RestoreStep(Step))
==============================================================================
