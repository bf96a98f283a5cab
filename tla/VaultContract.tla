--------------------------- MODULE VaultContract ---------------------------
(***************************************************************************)
(* What the sync service promises its clients: one register per owner.      *)
(* Members write it one revision at a time, and a reader always gets the    *)
(* last accepted write.  One device joins at a time and nothing else        *)
(* changes; taking one out, or rotating, starts a new epoch and leaves the  *)
(* contents alone.  The service is SyncVault.                               *)
(***************************************************************************)
EXTENDS Naturals

CONSTANTS DeviceIDs, Nobody, MaxRevision

VARIABLES live,      \* the vault exists
          members,   \* the devices that may write
          epoch,     \* rises when a key has to change
          revision,  \* writes accepted
          latest     \* the write a reader is given

contract == <<live, members, epoch, revision, latest>>

Nothing == [writer |-> Nobody, epoch |-> 0]

Init == live = FALSE /\ members = {} /\ epoch = 0 /\ revision = 0 /\ latest = Nothing

Create == \E d \in DeviceIDs :
  /\ ~live
  /\ live' = TRUE /\ members' = {d} /\ epoch' = 1
  /\ UNCHANGED <<revision, latest>>

Join == \E d \in DeviceIDs \ members :
  /\ live /\ members # {}
  /\ members' = members \cup {d}
  /\ UNCHANGED <<live, epoch, revision, latest>>

Rekey == \E gone \in {{}} \cup {{d} : d \in members} :
  /\ live /\ members # {}
  /\ members' = members \ gone
  /\ epoch' = epoch + 1
  /\ UNCHANGED <<live, revision, latest>>

Write == \E d \in members :
  /\ live /\ revision < MaxRevision
  /\ revision' = revision + 1
  /\ latest' = [writer |-> d, epoch |-> epoch]
  /\ UNCHANGED <<live, members, epoch>>

Delete ==
  /\ live
  /\ live' = FALSE /\ members' = {} /\ epoch' = 0 /\ revision' = 0 /\ latest' = Nothing

Next == Create \/ Join \/ Rekey \/ Write \/ Delete

Spec == Init /\ [][Next]_contract
=============================================================================
