-------------------------- MODULE MCSyncMembership --------------------------
(***************************************************************************)
(* SyncMembership for TLC.  Device ids and tokens are interchangeable.      *)
(***************************************************************************)
EXTENDS SyncMembership, TLC

IdentitySymmetry == Permutations(DeviceIDs) \cup Permutations(Tokens)
=============================================================================
