---------------------------- MODULE RestoreJournal ----------------------------
(***************************************************************************)
(* Replacing a self-hosted server's data by a backup                        *)
(* (internal/selfhost/ops/restore.go).  The old items move aside and the    *)
(* staged new ones move in, one rename at a time, under a journal that      *)
(* names the phase; whoever starts next, the server or another restore,     *)
(* reads the journal and rolls the swap back or completes it.               *)
(*                                                                          *)
(* Each rename, removal and journal write is one step: the process may die  *)
(* between any two, and any may return an error.  What the file system was  *)
(* told survives the process.  The archive is verified and staged when the  *)
(* swap begins; one swap is modelled, a later one starts from one of the    *)
(* same two states.                                                         *)
(***************************************************************************)
EXTENDS Integers, FiniteSets

CONSTANT MaxFaults  \* bound on crashes and I/O errors

ASSUME FaultBound == MaxFaults \in Nat

\* managedItems, by position: database, its wal and shm files, secrets, config.
DatabaseName == 1
managedItems == 1..5
Wal == 2
Shm == 3
Secrets == 4
Config == 5

VARIABLES data,     \* what each item of the data directory is: "none", "old", "new"
          aside,    \* items moved to restore-previous-*
          staging,  \* items still in .restore-new-*
          journal,  \* phase in .restore-journal, "none" when there is no journal
          old, new, \* the journal's two lists
          pc,       \* where the process that holds the instance lock is
          todo,     \* items its current loop has still to visit
          restoring,\* that process is Restore, which removes its staging on the way out
          faults

restoreVars == <<data, aside, staging, journal, old, new, pc, todo, restoring, faults>>

OldData == [x \in managedItems |-> IF x \in old THEN "old" ELSE "none"]
NewData == [x \in managedItems |-> IF x \in new THEN "new" ELSE "none"]

-----------------------------------------------------------------------------
\* The loops visit the items in the order of managedItems.
First(S) == CHOOSE x \in S : \A y \in S : x <= y

\* swap, as far as the first journal.
Begin ==
  /\ pc = "ready"
  /\ staging' = new
  /\ journal' = "moving-old"
  /\ pc' = "moving" /\ todo' = old /\ restoring' = TRUE
  /\ UNCHANGED <<data, aside, old, new, faults>>

\* The first journal reaches the directory, the sync after it fails: swap returns at once.
BeginFails ==
  /\ pc = "ready" /\ faults < MaxFaults
  /\ faults' = faults + 1
  /\ journal' = "moving-old"
  /\ pc' = "stopped"
  /\ UNCHANGED <<data, aside, staging, old, new, todo, restoring>>

MoveOld ==
  /\ pc = "moving" /\ todo # {}
  /\ LET x == First(todo) IN /\ data' = [data EXCEPT ![x] = "none"]
                             /\ aside' = aside \cup {x}
                             /\ todo' = todo \ {x}
  /\ UNCHANGED <<staging, journal, old, new, pc, restoring, faults>>

OldMoved ==
  /\ pc = "moving" /\ todo = {}
  /\ journal' = "installing-new"
  /\ pc' = "installing" /\ todo' = new
  /\ UNCHANGED <<data, aside, staging, old, new, restoring, faults>>

InstallNew ==
  /\ pc = "installing" /\ todo # {}
  /\ LET x == First(todo) IN /\ data' = [data EXCEPT ![x] = "new"]
                             /\ staging' = staging \ {x}
                             /\ todo' = todo \ {x}
  /\ UNCHANGED <<aside, journal, old, new, pc, restoring, faults>>

Commit ==
  /\ pc = "installing" /\ todo = {}
  /\ journal' = "committed"
  /\ pc' = "unstaging"
  /\ UNCHANGED <<data, aside, staging, old, new, todo, restoring, faults>>

\* Mutant: what was installed is not discarded.
ReturnOnly(phase) ==
  \/ phase = "committed" /\ pc' = "unstaging" /\ todo' = {}
  \/ phase # "committed" /\ pc' = "returning" /\ todo' = old

\* Where recoverLocked goes, given the phase it reads.
recoverLocked(phase) ==
  \/ phase = "committed" /\ pc' = "unstaging" /\ todo' = {}
  \/ phase = "installing-new" /\ pc' = "discarding" /\ todo' = new
  \/ phase = "moving-old" /\ pc' = "returning" /\ todo' = old

\* The server, or the next Restore, starts on what an earlier process left behind.
Recover ==
  /\ pc = "stopped" /\ journal # "none"
  /\ recoverLocked(journal)
  /\ restoring' = FALSE
  /\ UNCHANGED <<data, aside, staging, journal, old, new, faults>>

Discard ==
  /\ pc = "discarding"
  /\ \/ /\ todo # {}
        /\ LET x == First(todo)
           IN  /\ data' = IF x \in staging THEN data ELSE [data EXCEPT ![x] = "none"]
               /\ todo' = todo \ {x}
        /\ UNCHANGED pc
     \/ /\ todo = {}
        /\ pc' = "returning" /\ todo' = old
        /\ UNCHANGED data
  /\ UNCHANGED <<aside, staging, journal, old, new, restoring, faults>>

ReturnOld ==
  /\ pc = "returning"
  /\ \/ /\ todo # {}
        /\ LET x == First(todo)
           IN  /\ IF x \in aside /\ data[x] = "none"
                  THEN data' = [data EXCEPT ![x] = "old"] /\ aside' = aside \ {x}
                  ELSE UNCHANGED <<data, aside>>
               /\ todo' = todo \ {x}
        /\ UNCHANGED pc
     \/ /\ todo = {}
        /\ pc' = "unstaging"
        /\ UNCHANGED <<data, aside, todo>>
  /\ UNCHANGED <<staging, journal, old, new, restoring, faults>>

\* Mutant: RemoveAll where the code has Remove takes the previous data too.
UnstageAll ==
  /\ pc = "unstaging"
  /\ staging' = {} /\ aside' = {}
  /\ pc' = "closing"
  /\ UNCHANGED <<data, journal, old, new, todo, restoring, faults>>

\* The end of a roll-back and cleanupCommitted alike: the staging directory goes, then
\* the journal.
Unstage ==
  /\ pc = "unstaging"
  /\ staging' = {}
  /\ pc' = "closing"
  /\ UNCHANGED <<data, aside, journal, old, new, todo, restoring, faults>>

\* Mutant: the journal is left behind.
KeepJournal ==
  /\ pc = "closing"
  /\ pc' = "stopped"
  /\ UNCHANGED <<data, aside, staging, journal, old, new, todo, restoring, faults>>

Close ==
  /\ pc = "closing"
  /\ journal' = "none"
  /\ pc' = "stopped"
  /\ UNCHANGED <<data, aside, staging, old, new, todo, restoring, faults>>

Running == pc \notin {"ready", "stopped"}

Crash ==
  /\ Running /\ faults < MaxFaults
  /\ faults' = faults + 1
  /\ pc' = "stopped" /\ todo' = {}
  /\ UNCHANGED <<data, aside, staging, journal, old, new, restoring>>

\* An error in swap: finish rolls back by the journal on disk.  When the error is in
\* writing the next journal, that may be the next one already.
SwapFails ==
  /\ pc \in {"moving", "installing"} /\ faults < MaxFaults
  /\ faults' = faults + 1
  /\ \/ UNCHANGED journal
     \/ todo = {} /\ journal' = IF pc = "moving" THEN "installing-new" ELSE "committed"
  /\ recoverLocked(journal')
  /\ UNCHANGED <<data, aside, staging, old, new, restoring>>

\* An error in recoverLocked or cleanupCommitted is returned, and a Restore removes its
\* staging directory as it returns.
RecoveryFails ==
  /\ pc \in {"discarding", "returning", "unstaging", "closing"} /\ faults < MaxFaults
  /\ faults' = faults + 1
  /\ staging' = IF restoring THEN {} ELSE staging
  /\ pc' = "stopped" /\ todo' = {}
  /\ UNCHANGED <<data, aside, journal, old, new, restoring>>

-----------------------------------------------------------------------------
\* A data directory is new, or that of a stopped server, whose last transactions may
\* still be in the wal; a backup has a database, secrets and perhaps a config.
RestoreInit ==
  /\ old \in {{}} \cup {{DatabaseName, Secrets} \cup extra :
                        extra \in SUBSET {Wal, Shm, Config}}
  /\ new \in {{DatabaseName, Secrets}, {DatabaseName, Secrets, Config}}
  /\ data = OldData
  /\ aside = {} /\ staging = {} /\ journal = "none"
  /\ pc = "ready" /\ todo = {} /\ restoring = FALSE
  /\ faults = 0

Step ==
  \/ MoveOld \/ OldMoved \/ InstallNew \/ Commit
  \/ Recover \/ Discard \/ ReturnOld \/ Unstage \/ Close

RestoreNext == Begin \/ BeginFails \/ Step \/ Crash \/ SwapFails \/ RecoveryFails

\* A process that holds the lock runs on, and the service manager restarts the server.
RestoreSpec == RestoreInit /\ [][RestoreNext]_restoreVars /\ WF_restoreVars(Step)

-----------------------------------------------------------------------------
RestoreEnded == pc = "stopped" /\ journal = "none"

(***************************************************************************)
(* A restore that was interrupted and recovered leaves the old data or the  *)
(* new data, never a mixture and never less (restore_test.go,               *)
(* TestInterruptedRestoreLeavesOldOrNewData).                               *)
(***************************************************************************)
LeavesOldOrNewData == RestoreEnded => data \in {OldData, NewData}

(***************************************************************************)
(* Whatever step the swap or its recovery is at, each item of the old data  *)
(* is in place or aside; once the new data is in, all of it is aside.       *)
(***************************************************************************)
OldDataKept ==
  /\ \A x \in old : data[x] = "old" \/ x \in aside
  /\ RestoreEnded /\ data = NewData => aside = old

(***************************************************************************)
(* A restore interrupted by a crash finishes itself once something starts:  *)
(* the journal does not stay.                                               *)
(***************************************************************************)
Finishes == journal # "none" ~> RestoreEnded
===============================================================================
