----------------------------- MODULE MCSyncVault -----------------------------
(***************************************************************************)
(* SyncVault for TLC.  Device ids and tokens are interchangeable.           *)
(***************************************************************************)
EXTENDS SyncVault, TLC

IdentitySymmetry == Permutations(DeviceIDs) \cup Permutations(Tokens)
==============================================================================
