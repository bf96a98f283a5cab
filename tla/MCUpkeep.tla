------------------------------ MODULE MCUpkeep ------------------------------
(***************************************************************************)
(* What servers do on their own and operators do around them: the audit log *)
(* and the update checks of a self-hosted server, the backups, migrations   *)
(* and restores of its data directory, and the hosted servers' maintenance  *)
(* of their audit log.  The three parts read and write disjoint state, so a *)
(* behaviour of all is an interleaving of one of each: each is explored     *)
(* with the others at rest.                                                 *)
(***************************************************************************)
EXTENDS UpdateChecks, InstanceOps, HostedAudit

VARIABLE part  \* which of the three moves

UpkeepInit == Init /\ OpsInit /\ ChainInit /\ part \in {"server", "directory", "hosted"}

UpkeepNext ==
  \/ part = "server" /\ Next /\ UNCHANGED <<opsVars, chainVars, part>>
  \/ part = "directory" /\ OpsNext /\ UNCHANGED <<vars, chainVars, part>>
  \/ part = "hosted" /\ ChainNext /\ UNCHANGED <<vars, opsVars, part>>

UpkeepSpec == UpkeepInit /\ [][UpkeepNext]_<<vars, opsVars, chainVars, part>>
=============================================================================
