--------------------------- MODULE MCSignedInputs ---------------------------
(***************************************************************************)
(* The two signed inputs of the sync API, for TLC: the device list that     *)
(* clients replay (DeviceListReplay) and the requests that spend a nonce    *)
(* (RequestNonces).  They share no state, so each is explored while the     *)
(* other is where it started.  Device ids, calls and requests are           *)
(* interchangeable.                                                         *)
(***************************************************************************)
EXTENDS RequestNonces, TLC

CONSTANTS DeviceIDs, OldKeys, NewKeys, NoKey, MaxDevicesPerVault, MaxIndex

VARIABLE stored

List == INSTANCE DeviceListReplay

InitBoth == Init /\ List!Init

NextBoth ==
  \/ stored = <<>> /\ Next /\ UNCHANGED stored
  \/ Init /\ List!Next /\ UNCHANGED vars

SpecBoth == InitBoth /\ [][NextBoth]_<<vars, stored>>

(***************************************************************************)
(* Replaying a device list and reading it as a whole agree, of every list   *)
(* reached.  Once a request is under way the list is the empty one, of      *)
(* which the initial state has said it.                                     *)
(***************************************************************************)
ReplayAgrees == Init => List!ReplayAgrees

(***************************************************************************)
(* Extend accepts exactly the entries that follow from the chain, at every  *)
(* list reached.                                                            *)
(***************************************************************************)
ExtendAgrees == Init => List!ExtendAgrees

InputSymmetry == Permutations(DeviceIDs) \cup Permutations(Calls) \cup Permutations(Requests)
=============================================================================
