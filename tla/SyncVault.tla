------------------------------ MODULE SyncVault ------------------------------
(***************************************************************************)
(* The whole sync service (internal/syncsvc/service.go): SyncMembership     *)
(* together with the vault's contents.  Upload is a compare-and-set on the  *)
(* current revision that also evicts ciphertexts to stay within the byte    *)
(* budget, drops those of an older epoch and prunes old headers; Remove and *)
(* the two resets reach into the contents too.                              *)
(*                                                                          *)
(* A header is who signed it, against which list index and epoch; a         *)
(* ciphertext is its size.  A header's PreviousDigest is the revision       *)
(* before it: there is one header per revision.  A checkpoint is what a     *)
(* device says it has seen; its ObservedAt is a request timestamp.          *)
(***************************************************************************)
EXTENDS SyncMembership
LOCAL INSTANCE Functions

CONSTANTS Sizes,           \* ciphertext lengths
          ByteBudget,      \* Config.ByteBudget
          HeaderRetention, \* Config.HeaderRetention
          MaxRevision      \* the largest revision checkedNext may return

ASSUME ContentBounds == /\ Sizes \subseteq Nat \ {0}
                        /\ ByteBudget \in Nat \ {0}
                        /\ HeaderRetention \in Nat \ {0}
                        /\ MaxRevision \in Nat

VARIABLES revision,    \* Vault.CurrentRevision
          headers,     \* stored headers, by revision
          ciphertexts, \* size of each stored ciphertext, by revision
          checkpoints  \* each device's checkpoint

contentVars == <<revision, headers, ciphertexts, checkpoints>>
vars == <<vault, entries, devices, pairings, packages, held,
          revision, headers, ciphertexts, checkpoints>>

NoCheckpoint == [index |-> 0, revision |-> 0]

-----------------------------------------------------------------------------
Bytes(S) == FoldFunctionOnSet(+, 0, ciphertexts, S)

\* The ciphertexts from revision cut on leave room for incoming more bytes.
Fits(cut, incoming) ==
  Bytes({r \in DOMAIN ciphertexts : r >= cut}) + incoming <= ByteBudget

\* Mutant: eviction stops one revision early.
makeLessRoom(incoming, cut) ==
  /\ cut = 1 \/ cut \in 1..(revision - 1)
  /\ Fits(cut, incoming)
  /\ \A c \in 1..(cut - 1) : ~Fits(c, incoming)

\* makeRoom deletes the oldest ciphertexts, those before cut, and no more than it must;
\* it gives up (ErrQuota) rather than delete the current revision's.
makeRoom(incoming, cut) ==
  /\ cut = 1 \/ cut \in 1..revision
  /\ Fits(cut, incoming)
  /\ \A c \in 1..(cut - 1) : ~Fits(c, incoming)

LatestHeader == headers[CHOOSE r \in DOMAIN headers : \A s \in DOMAIN headers : s <= r]

VerifyHeader(h) ==
  /\ h.index <= Len(entries)
  /\ EpochAt(entries, h.index) = h.epoch
  /\ revision > 0 => /\ LatestHeader.index <= h.index
                     /\ LatestHeader.epoch <= h.epoch
  /\ MemberAt(entries, h.device, h.index)

\* Mutants: ciphertexts of the old epoch stay; the new one goes with them.
KeptAcrossEpochs(rev, cut, epoch) == {rev} \cup {r \in DOMAIN ciphertexts : r >= cut}

KeptBeforeNext(rev, cut, epoch) ==
  IF revision > 0 /\ LatestHeader.epoch < epoch THEN {}
  ELSE {rev} \cup {r \in DOMAIN ciphertexts : r >= cut}

\* The ciphertexts left by makeRoom and, on the first upload of an epoch, by
\* DeleteCiphertextsBefore.
KeptCiphertexts(rev, cut, epoch) ==
  IF revision > 0 /\ LatestHeader.epoch < epoch THEN {rev}
  ELSE {rev} \cup {r \in DOMAIN ciphertexts : r >= cut}

KeptHeaders(rev) == {rev} \cup {r \in DOMAIN headers : r > rev - HeaderRetention}

Upload(t, d, rev, index, epoch, size) ==
  LET h == [device |-> d, index |-> index, epoch |-> epoch]
  IN  /\ requireActivated(t, d)
      /\ revision < MaxRevision /\ rev = revision + 1
      /\ epoch = vault.epoch /\ index = vault.head
      /\ revision > 0 => DOMAIN headers # {}
      /\ VerifyHeader(h)
      /\ \E cut \in 1..rev :
           /\ makeRoom(size, cut)
           /\ ciphertexts' = [r \in KeptCiphertexts(rev, cut, epoch) |->
                                IF r = rev THEN size ELSE ciphertexts[r]]
      /\ headers' = [r \in KeptHeaders(rev) |-> IF r = rev THEN h ELSE headers[r]]
      /\ revision' = rev
      /\ UNCHANGED <<vault, entries, devices, pairings, packages, held, checkpoints>>

CheckpointFollows(d, index, rev) ==
  index >= checkpoints[d].index /\ rev >= checkpoints[d].revision

PutCheckpoint(t, d, index, rev) ==
  /\ requireActivated(t, d)
  /\ index > 0 /\ rev >= 0
  /\ CheckpointFollows(d, index, rev)
  /\ checkpoints' = [checkpoints EXCEPT ![d] = [index |-> index, revision |-> rev]]
  /\ UNCHANGED <<vault, entries, devices, pairings, packages, held,
                 revision, headers, ciphertexts>>

\* What Remove does to the contents.
DeleteCheckpoint(d) ==
  /\ checkpoints' = [checkpoints EXCEPT ![d] = NoCheckpoint]
  /\ UNCHANGED <<revision, headers, ciphertexts>>
\* What DeleteVault takes with the vault.
DeleteContents ==
  /\ revision' = 0
  /\ headers' = <<>>
  /\ ciphertexts' = <<>>
  /\ checkpoints' = [d \in DeviceIDs |-> NoCheckpoint]

-----------------------------------------------------------------------------
VaultInit ==
  /\ Init
  /\ revision = 0
  /\ headers = <<>>
  /\ ciphertexts = <<>>
  /\ checkpoints = [d \in DeviceIDs |-> NoCheckpoint]

\* The membership calls that leave the contents alone.
MemberCall ==
  \/ \E t \in Tokens, d \in DeviceIDs :
       \/ \E k \in Keys : CreateVault(t, d, k)
       \/ Pair(t, d)
       \/ \E a \in DeviceIDs : Amend(t, a, d)
       \/ TakeKey(t, d)
  \/ \E d \in DeviceIDs : PairingLapses(d)
  \/ Maintain

VaultNext ==
  \/ MemberCall /\ UNCHANGED contentVars
  \/ \E t \in Tokens, d \in DeviceIDs :
       \/ \E rev \in Signable(revision), size \in Sizes,
             index \in Signable(vault.head - 1), epoch \in Signable(vault.epoch - 1) :
            Upload(t, d, rev, index, epoch, size)
       \/ \E index \in Signable(vault.head - 1), rev \in Signable(revision - 1) :
            PutCheckpoint(t, d, index, rev)
       \/ \E a \in DeviceIDs : Expel(t, a, d) /\ DeleteCheckpoint(d)
       \/ \E epoch \in Signable(vault.epoch - 1) : Reset(t, d, epoch) /\ DeleteContents
  \/ AdminReset /\ DeleteContents

VaultSpec == VaultInit /\ [][VaultNext]_vars

-----------------------------------------------------------------------------
\* What Snapshot answers: the current revision's header, if it and its ciphertext are there.
Snapshot ==
  IF revision \in DOMAIN headers \cap DOMAIN ciphertexts
  THEN [writer |-> headers[revision].device, epoch |-> headers[revision].epoch]
  ELSE [writer |-> NoToken, epoch |-> 0]

(***************************************************************************)
(* To its clients the service is the register of VaultContract: evictions,  *)
(* pruning, packages, pairings and checkpoints never show through it.       *)
(***************************************************************************)
Contract == INSTANCE VaultContract WITH
  Nobody <- NoToken, live <- vault.exists, members <- Approved, epoch <- vault.epoch,
  revision <- revision, latest <- Snapshot

ImplementsContract == Contract!Spec

(***************************************************************************)
(* Eviction keeps the stored ciphertexts within the byte budget and never   *)
(* paints the vault into a corner: an upload that fits beside the current   *)
(* ciphertext is never refused for lack of room.                            *)
(***************************************************************************)
RoomForNext ==
  /\ Bytes(DOMAIN ciphertexts) <= ByteBudget
  /\ \A size \in Sizes :
       (IF revision = 0 THEN 0 ELSE ciphertexts[revision]) + size <= ByteBudget
         => \E cut \in 1..(revision + 1) : makeRoom(size, cut)

(***************************************************************************)
(* A client that verifies what is kept against today's list succeeds,       *)
(* however the list has grown since.  The last HeaderRetention headers are  *)
(* there without a gap; each signer was a member at the index its header    *)
(* names, with that index's epoch; neither index nor epoch goes backwards   *)
(* along the chain; no ciphertext is of an epoch before the newest          *)
(* header's; and only members have checkpoints.                             *)
(***************************************************************************)
ContentsVerify ==
  /\ DOMAIN headers = {r \in 1..revision : r > revision - HeaderRetention}
  /\ \A r \in DOMAIN headers :
       LET h == headers[r]
       IN  /\ h.index \in 1..Len(entries)
           /\ EpochAt(entries, h.index) = h.epoch
           /\ MemberAt(entries, h.device, h.index)
           /\ r + 1 \in DOMAIN headers => /\ h.index <= headers[r+1].index
                                          /\ h.epoch <= headers[r+1].epoch
           /\ r \in DOMAIN ciphertexts => h.epoch = LatestHeader.epoch
  /\ \A d \in DeviceIDs : checkpoints[d] # NoCheckpoint => d \in Approved
=============================================================================
