----------------------------- MODULE MCSelfHost -----------------------------
(***************************************************************************)
(* SelfHostServer from two starting points: a new server, and one in use    *)
(* with two owners who signed in at the last step and one member.           *)
(***************************************************************************)
EXTENDS SelfHostServer, TLC

Symmetry == Permutations(Clients)

InUse ==
  LET owner == [state |-> "active", hash |-> 1, counter |-> 1, removedAt |-> Never]
      session(o) == [owner |-> o, hash |-> 1, expires |-> 1 + SessionTTL, recent |-> 1]
  IN  /\ owners = [o \in OwnerIds |-> IF o <= 2 THEN owner ELSE NoOwner]
      /\ members = [m \in MemberIds |-> IF m = 1 THEN [state |-> "listed", removedAt |-> Never] ELSE NoMember]
      /\ tokens = [t \in TokenIds |-> NoToken]
      /\ sessions = [s \in SessionIds |-> IF s <= 2 THEN session(s) ELSE NoSession]
      /\ pairings = [p \in PairingIds |-> NoPairing] /\ devices = [d \in DeviceIds |-> NoDevice]
      /\ linking = TRUE /\ syncing = FALSE
      /\ seq = 0 /\ now = 1 /\ accepted = {<<1, 1, 1>>, <<2, 1, 1>>} /\ replayed = {}
      /\ req = [c \in Clients |-> Idle]

MCInit == Init \/ InUse

MCSpec == MCInit /\ [][Next]_vars
=============================================================================
