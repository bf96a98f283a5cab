--------------------------- MODULE SyncVaultProofs --------------------------
(***************************************************************************)
(* The whole sync service, for every set of devices, tokens, keys and sizes *)
(* and every bound: its membership stays sound, its contents verify, and to *)
(* its clients it is the register of VaultContract.                         *)
(*                                                                          *)
(* VInv is the inductive invariant: the one of SyncMembership, ContentsVerify *)
(* and Stored, what the tables of contents look like.  No call reaches the  *)
(* contents of a vault that is not there, and the list the headers were     *)
(* verified against only grows while there is one.                          *)
(***************************************************************************)
EXTENDS SyncVault, SyncMembershipProofs

HeaderRows == [device : DeviceIDs, index : Nat, epoch : Nat]

\* Ciphertexts are of revisions written, the newest among them; without a vault nothing is.
Stored ==
  /\ revision \in Nat
  /\ \A r \in DOMAIN headers : headers[r] \in HeaderRows
  /\ DOMAIN ciphertexts \subseteq 1..revision
  /\ revision > 0 => revision \in DOMAIN ciphertexts
  /\ DOMAIN checkpoints = DeviceIDs
  /\ ~vault.exists => revision = 0

VInv == IInv /\ Stored /\ ContentsVerify

-----------------------------------------------------------------------------
\* Every call is, to the membership tables, a call of SyncMembership or none.
LEMMA VaultStepsAreMemberSteps == [VaultNext]_vars => [Next]_memberVars
  <1> SUFFICES ASSUME [VaultNext]_vars PROVE [Next]_memberVars
    OBVIOUS
  <1>1. CASE MemberCall
    BY <1>1 DEF MemberCall, Next
  <1>2. ASSUME NEW t \in Tokens, NEW d \in DeviceIDs, NEW a \in DeviceIDs, Expel(t, a, d)
        PROVE  Next
    BY <1>2 DEF Next
  <1>3. ASSUME NEW t \in Tokens, NEW d \in DeviceIDs, NEW epoch \in Signable(vault.epoch - 1),
               Reset(t, d, epoch)
        PROVE  Next
    BY <1>3 DEF Next
  <1>4. CASE AdminReset
    BY <1>4 DEF Next
  <1>5. ASSUME NEW t, NEW d, NEW rev, NEW index, NEW epoch, NEW size,
               Upload(t, d, rev, index, epoch, size)
        PROVE  UNCHANGED memberVars
    BY <1>5 DEF Upload, memberVars
  <1>6. ASSUME NEW t, NEW d, NEW index, NEW rev, PutCheckpoint(t, d, index, rev)
        PROVE  UNCHANGED memberVars
    BY <1>6 DEF PutCheckpoint, memberVars
  <1>7. CASE UNCHANGED vars
    BY <1>7 DEF vars, memberVars
  <1> QED
    BY <1>1, <1>2, <1>3, <1>4, <1>5, <1>6, <1>7 DEF VaultNext

\* The newest header is the one of the current revision.
LEMMA LatestIsCurrent ==
  ASSUME Stored, ContentsVerify, revision > 0
  PROVE  revision \in DOMAIN headers /\ LatestHeader = headers[revision]
  <1>1. revision \in DOMAIN headers /\ \A s \in DOMAIN headers : s \in 1..revision
    BY ContentBounds DEF Stored, ContentsVerify
  <1>2. \A r \in DOMAIN headers : (\A s \in DOMAIN headers : s <= r) => r = revision
    BY <1>1 DEF Stored
  <1>3. \A s \in DOMAIN headers : s <= revision
    BY <1>1 DEF Stored
  <1> QED BY <1>1, <1>2, <1>3 DEF LatestHeader

(***************************************************************************)
(* A call that leaves the contents alone and, of the list, at most appends  *)
(* to it, keeps the contents verifiable if those with checkpoints stay      *)
(* members.                                                                 *)
(***************************************************************************)
LEMMA ContentsKept ==
  ASSUME VInv, UNCHANGED <<revision, headers, ciphertexts>>,
         vault.exists => vault'.exists,
         entries' = entries \/ \E e \in Entries : entries' = Append(entries, e),
         DOMAIN checkpoints' = DeviceIDs,
         \A d \in DeviceIDs : checkpoints'[d] # NoCheckpoint => d \in Approved'
  PROVE  Stored' /\ ContentsVerify'
  <1>1. \A n \in 1..Len(entries) :
          /\ n \in 1..Len(entries')
          /\ EpochAt(entries', n) = EpochAt(entries, n)
          /\ \A d : MemberAt(entries', d, n) <=> MemberAt(entries, d, n)
    <2>1. CASE entries' = entries
      BY <2>1
    <2>2. ASSUME NEW e \in Entries, entries' = Append(entries, e)
          PROVE  \A n \in 1..Len(entries) :
                   /\ n \in 1..Len(entries')
                   /\ EpochAt(entries', n) = EpochAt(entries, n)
                   /\ \A d : MemberAt(entries', d, n) <=> MemberAt(entries, d, n)
      BY <2>2, AppendFacts, MemberAtAppend DEF EpochAt, VInv, IInv, TypeOK
    <2> QED BY <2>1, <2>2
  <1>2. LatestHeader' = LatestHeader
    BY DEF LatestHeader
  <1>3. ContentsVerify'
    BY <1>1, <1>2 DEF VInv, ContentsVerify
  <1>4. Stored'
    BY DEF VInv, Stored
  <1> QED BY <1>3, <1>4

-----------------------------------------------------------------------------
(***************************************************************************)
(* Upload keeps the contents verifiable: its header names the list's last   *)
(* index and epoch, follows the newest header, and a new epoch's first      *)
(* upload takes the older epoch's ciphertexts with it.                      *)
(***************************************************************************)
LEMMA UploadContents ==
  ASSUME VInv, NEW t \in Tokens, NEW d \in DeviceIDs, NEW rev, NEW index, NEW epoch,
         NEW size, Upload(t, d, rev, index, epoch, size)
  PROVE  Stored' /\ ContentsVerify'
  <1> DEFINE h == [device |-> d, index |-> index, epoch |-> epoch]
  <1>0. /\ TypeOK /\ TablesMatchList /\ Stored /\ ContentsVerify
        /\ revision \in Nat /\ Len(entries) \in Nat /\ HeaderRetention \in Nat \ {0}
    BY ContentBounds DEF VInv, IInv, Stored, TypeOK
  <1>1. PICK cut \in 1..rev :
          ciphertexts' = [r \in KeptCiphertexts(rev, cut, epoch) |->
                            IF r = rev THEN size ELSE ciphertexts[r]]
    BY DEF Upload
  <1>2. /\ vault.exists /\ d \in Approved /\ rev = revision + 1
        /\ epoch = vault.epoch /\ index = vault.head /\ VerifyHeader(h)
        /\ headers' = [r \in KeptHeaders(rev) |-> IF r = rev THEN h ELSE headers[r]]
        /\ revision' = rev
        /\ UNCHANGED <<vault, entries, devices, checkpoints>>
    BY DEF Upload, requireActivated, requireApproved
  <1>3. index \in 1..Len(entries) /\ epoch \in Nat /\ Approved' = Approved
    <2>1. index = Len(entries) /\ entries # <<>>
      BY <1>0, <1>2 DEF TablesMatchList
    <2> QED BY <1>0, <1>2, <2>1, VaultType DEF TypeOK, Approved
  <1>4. DOMAIN headers' = {r \in 1..rev : r > rev - HeaderRetention}
    <2>1. DOMAIN headers' = {rev} \cup {r \in DOMAIN headers : r > rev - HeaderRetention}
      BY <1>2 DEF KeptHeaders
    <2>2. DOMAIN headers = {r \in 1..revision : r > revision - HeaderRetention}
      BY <1>0 DEF ContentsVerify
    <2> QED BY <1>0, <1>2, <2>1, <2>2
  <1>5. /\ headers'[rev] = h
        /\ \A r \in DOMAIN headers' : r # rev => r \in DOMAIN headers /\ headers'[r] = headers[r]
    BY <1>2 DEF KeptHeaders
  <1>6. h \in HeaderRows
    BY <1>0, <1>3 DEF HeaderRows
  <1>7. DOMAIN ciphertexts' = KeptCiphertexts(rev, cut, epoch)
    BY <1>1
  <1>8. Stored'
    <2>1. \A r \in DOMAIN headers' : headers'[r] \in HeaderRows
      BY <1>0, <1>5, <1>6 DEF Stored
    <2>2. rev \in DOMAIN ciphertexts' /\ DOMAIN ciphertexts' \subseteq {rev} \cup DOMAIN ciphertexts
      BY <1>7 DEF KeptCiphertexts
    <2> QED BY <1>0, <1>2, <2>1, <2>2 DEF Stored
  <1>9. revision > 0 => /\ revision \in DOMAIN headers /\ LatestHeader = headers[revision]
                        /\ headers[revision].index <= index /\ headers[revision].epoch <= epoch
    BY <1>0, <1>2, LatestIsCurrent DEF VerifyHeader
  <1>10. LatestHeader' = h
    <2>1. rev \in DOMAIN headers' /\ \A r \in DOMAIN headers' : r \in 1..rev
      BY <1>0, <1>2, <1>4
    <2>2. \A r \in DOMAIN headers' : (\A s \in DOMAIN headers' : s <= r) => r = rev
      BY <1>0, <1>2, <2>1
    <2>3. \A s \in DOMAIN headers' : s <= rev
      BY <1>0, <1>2, <2>1
    <2>4. LatestHeader' = headers'[CHOOSE r \in DOMAIN headers' : \A s \in DOMAIN headers' : s <= r]
      BY DEF LatestHeader
    <2>5. (CHOOSE r \in DOMAIN headers' : \A s \in DOMAIN headers' : s <= r) = rev
      BY <2>1, <2>2, <2>3
    <2> QED BY <1>5, <2>4, <2>5
  <1>11. ASSUME NEW r \in DOMAIN headers'
         PROVE  /\ headers'[r].index \in 1..Len(entries')
                /\ EpochAt(entries', headers'[r].index) = headers'[r].epoch
                /\ MemberAt(entries', headers'[r].device, headers'[r].index)
                /\ r + 1 \in DOMAIN headers' => /\ headers'[r].index <= headers'[r+1].index
                                                /\ headers'[r].epoch <= headers'[r+1].epoch
                /\ r \in DOMAIN ciphertexts' => headers'[r].epoch = (LatestHeader').epoch
    <2>1. CASE r = rev
      <3>1. headers'[r] = h /\ r + 1 \notin DOMAIN headers'
        BY <1>0, <1>2, <1>4, <1>5, <2>1
      <3>2. EpochAt(entries, index) = epoch /\ MemberAt(entries, d, index)
        BY <1>2 DEF VerifyHeader
      <3> QED BY <1>2, <1>3, <1>10, <3>1, <3>2
    <2>2. CASE r # rev
      <3>1. /\ r \in DOMAIN headers /\ headers'[r] = headers[r] /\ r \in 1..revision
        BY <1>0, <1>2, <1>4, <1>5, <2>2
      <3>2. /\ headers[r].index \in 1..Len(entries)
            /\ EpochAt(entries, headers[r].index) = headers[r].epoch
            /\ MemberAt(entries, headers[r].device, headers[r].index)
        BY <1>0, <3>1 DEF ContentsVerify
      <3>3. r + 1 \in DOMAIN headers' => /\ headers'[r].index <= headers'[r+1].index
                                         /\ headers'[r].epoch <= headers'[r+1].epoch
        <4>1. CASE r = revision
          BY <1>0, <1>2, <1>5, <1>9, <3>1, <4>1
        <4>2. CASE r # revision
          <5>1. r + 1 # rev
            BY <1>0, <1>2, <3>1, <4>2
          <5> QED BY <1>0, <1>5, <3>1, <5>1 DEF ContentsVerify
        <4> QED BY <4>1, <4>2
      <3>4. r \in DOMAIN ciphertexts' => headers'[r].epoch = (LatestHeader').epoch
        <4> SUFFICES ASSUME r \in DOMAIN ciphertexts' PROVE headers[r].epoch = epoch
          BY <1>10, <3>1
        <4>1. r \in DOMAIN ciphertexts /\ ~(LatestHeader.epoch < epoch) /\ revision > 0
          BY <1>0, <1>7, <2>2, <3>1 DEF KeptCiphertexts
        <4>2. headers[r].epoch = LatestHeader.epoch
          BY <1>0, <3>1, <4>1 DEF ContentsVerify
        <4>3. headers[revision].epoch \in Nat
          BY <1>0, <1>9, <4>1 DEF Stored, HeaderRows
        <4> QED BY <1>3, <1>9, <4>1, <4>2, <4>3
      <3> QED BY <1>2, <3>1, <3>2, <3>3, <3>4
    <2> QED BY <2>1, <2>2
  <1>12. \A x \in DeviceIDs : checkpoints'[x] # NoCheckpoint => x \in Approved'
    BY <1>0, <1>2, <1>3 DEF ContentsVerify
  <1> QED BY <1>2, <1>4, <1>8, <1>11, <1>12 DEF ContentsVerify

-----------------------------------------------------------------------------
\* The empty service satisfies the invariant.
LEMMA InitVInv == VaultInit => VInv
  <1> SUFFICES ASSUME VaultInit PROVE VInv
    OBVIOUS
  <1>1. IInv
    BY InitIInv DEF VaultInit
  <1>2. DOMAIN headers = {} /\ DOMAIN ciphertexts = {} /\ revision = 0
    BY DEF VaultInit
  <1>3. Stored
    BY <1>2 DEF VaultInit, Stored
  <1>4. ContentsVerify
    BY <1>2, ContentBounds DEF VaultInit, ContentsVerify
  <1> QED BY <1>1, <1>3, <1>4 DEF VInv

\* A deleted vault leaves no contents, of which everything holds.
LEMMA DeletedContents == DeleteContents => Stored' /\ ContentsVerify'
  <1> SUFFICES ASSUME DeleteContents PROVE Stored' /\ ContentsVerify'
    OBVIOUS
  <1>1. DOMAIN headers' = {} /\ DOMAIN ciphertexts' = {} /\ revision' = 0
    BY DEF DeleteContents
  <1>2. Stored'
    BY <1>1 DEF DeleteContents, Stored
  <1>3. ContentsVerify'
    BY <1>1, ContentBounds DEF DeleteContents, ContentsVerify
  <1> QED BY <1>2, <1>3

\* One device founds the vault, or joins, or all move to the next epoch, or nothing shows.
MemberMove ==
  \/ UNCHANGED <<vault.exists, vault.epoch, Approved>>
  \/ \E d \in DeviceIDs :
       /\ ~vault.exists /\ vault'.exists = TRUE
       /\ vault'.epoch = 1 /\ Approved' = {d}
  \/ \E d \in DeviceIDs \ Approved :
       /\ vault.exists /\ Approved # {} /\ vault'.exists = TRUE
       /\ vault'.epoch = vault.epoch /\ Approved' = Approved \cup {d}
  \/ /\ vault.exists /\ Approved # {} /\ vault'.exists = TRUE
     /\ vault'.epoch = vault.epoch + 1 /\ Approved' = Approved

(***************************************************************************)
(* A membership call that leaves the contents alone: the list only grows    *)
(* and nobody stops being a member.                                         *)
(***************************************************************************)
LEMMA MemberCallEffect ==
  ASSUME IInv, MemberCall
  PROVE  /\ Grows /\ (vault.exists => vault'.exists) /\ Approved \subseteq Approved'
         /\ MemberMove
  <1> DEFINE Goal == /\ Grows /\ (vault.exists => vault'.exists) /\ Approved \subseteq Approved'
                     /\ MemberMove
  <1>1. ASSUME NEW t \in Tokens, NEW d \in DeviceIDs, NEW k \in Keys, CreateVault(t, d, k)
        PROVE  Goal
    BY <1>1, CreateVaultEffect DEF MemberMove
  <1>2. ASSUME NEW t \in Tokens, NEW a \in DeviceIDs, NEW index, NEW d \in DeviceIDs,
               NEW k \in Keys, Approve(t, a, index, d, k)
        PROVE  Goal
    BY <1>2, ApproveEffect DEF MemberMove
  <1>3. ASSUME NEW t \in Tokens, NEW a \in DeviceIDs, NEW index, NEW epoch, NEW to,
               Rotate(t, a, index, epoch, to)
        PROVE  Goal
    <2>1. /\ Grows /\ vault.exists /\ a \in Approved /\ vault'.exists = TRUE
          /\ vault'.epoch = vault.epoch + 1 /\ Approved' = Approved
      BY <1>3, RekeyEffect DEF Rotate
    <2> QED BY <2>1 DEF MemberMove
  <1>4. ASSUME NEW t \in Tokens, NEW a \in DeviceIDs, NEW index, NEW k \in Keys,
               UpgradeKey(t, a, index, k)
        PROVE  Goal
    BY <1>4, UpgradeKeyEffect DEF MemberMove
  <1>5. ASSUME \/ \E t \in Tokens, d \in DeviceIDs : Pair(t, d) \/ TakeKey(t, d)
               \/ \E d \in DeviceIDs : PairingLapses(d)
               \/ Maintain
        PROVE  Goal
    BY <1>5, QuietEffect DEF MemberMove
  <1> HIDE DEF Goal
  <1>6. Goal
    BY <1>1, <1>2, <1>3, <1>4, <1>5 DEF MemberCall, Amend
  <1> QED BY <1>6 DEF Goal

(***************************************************************************)
(* Every call, to the membership tables or to the contents, keeps the       *)
(* invariant.                                                               *)
(***************************************************************************)
LEMMA StepVInv == VInv /\ [VaultNext]_vars => VInv'
  <1> SUFFICES ASSUME VInv, [VaultNext]_vars PROVE VInv'
    OBVIOUS
  <1>1. IInv'
    BY StepIInv, VaultStepsAreMemberSteps DEF VInv
  <1>2. CASE MemberCall /\ UNCHANGED contentVars
    <2>1. Grows /\ (vault.exists => vault'.exists) /\ Approved \subseteq Approved'
      BY <1>2, MemberCallEffect DEF VInv
    <2>2. \A d \in DeviceIDs : checkpoints'[d] # NoCheckpoint => d \in Approved'
      BY <1>2, <2>1 DEF contentVars, VInv, ContentsVerify
    <2> QED BY <1>1, <1>2, <2>1, <2>2, ContentsKept DEF contentVars, VInv, Stored, Grows
  <1>3. ASSUME NEW t \in Tokens, NEW d \in DeviceIDs, NEW rev, NEW index, NEW epoch, NEW size,
               Upload(t, d, rev, index, epoch, size)
        PROVE  VInv'
    BY <1>1, <1>3, UploadContents DEF VInv
  <1>4. ASSUME NEW t \in Tokens, NEW d \in DeviceIDs, NEW index, NEW rev,
               PutCheckpoint(t, d, index, rev)
        PROVE  VInv'
    <2>1. d \in Approved /\ Approved' = Approved
      BY <1>4 DEF PutCheckpoint, requireActivated, requireApproved, Approved
    <2>2. \A x \in DeviceIDs : x # d => checkpoints'[x] = checkpoints[x]
      BY <1>4 DEF PutCheckpoint, VInv, Stored
    <2>3. \A x \in DeviceIDs : checkpoints'[x] # NoCheckpoint => x \in Approved'
      BY <2>1, <2>2 DEF VInv, ContentsVerify
    <2> QED BY <1>1, <1>4, <2>3, ContentsKept DEF PutCheckpoint, VInv, Stored
  <1>5. ASSUME NEW t \in Tokens, NEW a \in DeviceIDs, NEW d \in DeviceIDs,
               Expel(t, a, d), DeleteCheckpoint(d)
        PROVE  VInv'
    <2>1. /\ Grows /\ vault'.exists /\ Approved' = Approved \ {d}
      BY <1>5, RekeyEffect DEF Expel, Remove, VInv
    <2>2. \A x \in DeviceIDs : checkpoints'[x] = IF x = d THEN NoCheckpoint ELSE checkpoints[x]
      BY <1>5 DEF DeleteCheckpoint, VInv, Stored
    <2>3. \A x \in DeviceIDs : checkpoints'[x] # NoCheckpoint => x \in Approved'
      BY <2>1, <2>2 DEF VInv, ContentsVerify
    <2> QED BY <1>1, <1>5, <2>1, <2>3, ContentsKept DEF DeleteCheckpoint, VInv, Stored, Grows
  <1>6. CASE DeleteContents
    BY <1>1, <1>6, DeletedContents DEF VInv
  <1>7. CASE UNCHANGED vars
    <2>1. Approved' = Approved
      BY <1>7 DEF vars, Approved
    <2> QED BY <1>1, <1>7, <2>1, ContentsKept DEF vars, VInv, Stored, ContentsVerify
  <1> QED BY <1>2, <1>3, <1>4, <1>5, <1>6, <1>7 DEF VaultNext

(***************************************************************************)
(* Whatever members join, leave and rotate between uploads, the kept        *)
(* headers and ciphertexts verify against the list as it is now; and the    *)
(* membership invariants hold of the whole service, not only of its         *)
(* membership half.                                                         *)
(***************************************************************************)
THEOREM ContentsSafe ==
  VaultSpec => [](TypeOK /\ TablesMatchList /\ MembershipSound /\ ContentsVerify)
  <1>1. VInv => IInv /\ ContentsVerify
    BY DEF VInv
  <1>2. VaultInit => Counted
    BY InitCounted DEF VaultInit
  <1>3. VInv /\ Counted /\ [VaultNext]_vars => Counted'
    BY <1>1, StepCounted, VaultStepsAreMemberSteps
  <1> QED BY <1>1, <1>2, <1>3, InitVInv, StepVInv, CountedIsSound, PTL DEF VaultSpec

-----------------------------------------------------------------------------
(***************************************************************************)
(* The refinement: a call that leaves the contents alone leaves what        *)
(* Snapshot answers, and each call is one step of the register or none.     *)
(***************************************************************************)
LEMMA SnapshotKept == UNCHANGED <<revision, headers, ciphertexts>> => Snapshot' = Snapshot
  BY DEF Snapshot

\* Nothing has been written to a vault at revision 0, so there is nothing to answer.
LEMMA SnapshotOfNothing == ContentsVerify /\ revision = 0 => Snapshot = Contract!Nothing
  <1> SUFFICES ASSUME ContentsVerify, revision = 0 PROVE revision \notin DOMAIN headers
    BY DEF Snapshot, Contract!Nothing
  <1> QED BY DEF ContentsVerify

\* An upload is a Write by the device that made it, under the current epoch.
LEMMA UploadIsWrite ==
  ASSUME VInv, NEW t \in Tokens, NEW d \in DeviceIDs, NEW rev, NEW index, NEW epoch,
         NEW size, Upload(t, d, rev, index, epoch, size)
  PROVE  Contract!Write
  <1>1. /\ vault.exists /\ d \in Approved /\ rev = revision + 1 /\ revision < MaxRevision
        /\ epoch = vault.epoch /\ revision' = rev /\ UNCHANGED <<vault, devices>>
        /\ headers' = [r \in KeptHeaders(rev) |->
                         IF r = rev THEN [device |-> d, index |-> index, epoch |-> epoch]
                         ELSE headers[r]]
    BY DEF Upload, requireActivated, requireApproved
  <1>2. rev \in DOMAIN headers' /\ headers'[rev].device = d /\ headers'[rev].epoch = epoch
    BY <1>1 DEF KeptHeaders
  <1>3. rev \in DOMAIN ciphertexts'
    BY DEF Upload, KeptCiphertexts
  <1>4. Snapshot' = [writer |-> d, epoch |-> vault.epoch]
    BY <1>1, <1>2, <1>3 DEF Snapshot
  <1>5. Approved' = Approved
    BY <1>1 DEF Approved
  <1> QED BY <1>1, <1>4, <1>5 DEF Contract!Write

\* A deletion empties the register.
LEMMA DeletionIsDelete ==
  ASSUME VInv, vault.exists, DeleteVault, DeleteContents
  PROVE  Contract!Delete
  <1>1. Approved' = {} /\ vault'.exists = FALSE /\ vault'.epoch = 0 /\ revision' = 0
    BY DEF DeleteVault, DeleteContents, Approved, NoVault, NoDevice
  <1>2. Snapshot' = Contract!Nothing
    BY DEF DeleteContents, Snapshot, Contract!Nothing
  <1> QED BY <1>1, <1>2 DEF Contract!Delete

\* Remove is a Rekey that takes one member out.
LEMMA ExpelIsRekey ==
  ASSUME VInv, NEW t \in Tokens, NEW a \in DeviceIDs, NEW d \in DeviceIDs,
         Expel(t, a, d), DeleteCheckpoint(d)
  PROVE  Contract!Rekey
  <1>1. /\ vault.exists /\ a \in Approved /\ d \in Approved /\ vault'.exists = TRUE
        /\ vault'.epoch = vault.epoch + 1 /\ Approved' = Approved \ {d}
    BY RekeyEffect DEF Expel, Remove, VInv
  <1>2. {d} \in {{}} \cup {{x} : x \in Approved}
    BY <1>1
  <1>3. revision' = revision /\ Snapshot' = Snapshot
    BY SnapshotKept DEF DeleteCheckpoint
  <1> QED BY <1>1, <1>2, <1>3 DEF Contract!Rekey

\* The other membership calls are a Create, a Join, a Rekey that keeps everyone, or nothing.
LEMMA MemberCallRefines ==
  ASSUME VInv, MemberCall, UNCHANGED contentVars
  PROVE  [Contract!Next]_(Contract!contract)
  <1>1. MemberMove
    BY MemberCallEffect DEF VInv
  <1>2. revision' = revision /\ Snapshot' = Snapshot
    BY SnapshotKept DEF contentVars
  <1>3. CASE UNCHANGED <<vault.exists, vault.epoch, Approved>>
    BY <1>2, <1>3 DEF Contract!contract
  <1>4. ASSUME NEW d \in DeviceIDs, ~vault.exists, vault'.exists = TRUE,
               vault'.epoch = 1, Approved' = {d}
        PROVE  Contract!Create
    BY <1>2, <1>4 DEF Contract!Create
  <1>5. ASSUME NEW d \in DeviceIDs \ Approved, vault.exists, Approved # {}, vault'.exists = TRUE,
               vault'.epoch = vault.epoch, Approved' = Approved \cup {d}
        PROVE  Contract!Join
    BY <1>2, <1>5 DEF Contract!Join
  <1>6. ASSUME vault.exists, Approved # {}, vault'.exists = TRUE,
               vault'.epoch = vault.epoch + 1, Approved' = Approved
        PROVE  Contract!Rekey
    BY <1>2, <1>6 DEF Contract!Rekey
  <1> QED BY <1>1, <1>3, <1>4, <1>5, <1>6 DEF MemberMove, Contract!Next

(***************************************************************************)
(* The service implements the register: every behaviour of SyncVault, with  *)
(* evictions, pruning, packages, pairings and checkpoints hidden, is one of *)
(* VaultContract.                                                           *)
(***************************************************************************)
THEOREM ServiceIsRegister == VaultSpec => ImplementsContract
  <1>1. VaultInit => Contract!Init
    <2> SUFFICES ASSUME VaultInit PROVE Contract!Init
      OBVIOUS
    <2>1. Approved = {} /\ vault.exists = FALSE /\ vault.epoch = 0 /\ revision = 0
      BY DEF VaultInit, Init, Approved, NoVault, NoDevice
    <2>2. Snapshot = Contract!Nothing
      BY <2>1, InitVInv, SnapshotOfNothing DEF VInv
    <2> QED BY <2>1, <2>2 DEF Contract!Init
  <1>2. VInv /\ [VaultNext]_vars => [Contract!Next]_(Contract!contract)
    <2> SUFFICES ASSUME VInv, [VaultNext]_vars PROVE [Contract!Next]_(Contract!contract)
      OBVIOUS
    <2>1. CASE MemberCall /\ UNCHANGED contentVars
      BY <2>1, MemberCallRefines
    <2>2. ASSUME NEW t \in Tokens, NEW d \in DeviceIDs, NEW rev, NEW index, NEW epoch, NEW size,
                 Upload(t, d, rev, index, epoch, size)
          PROVE  Contract!Next
      BY <2>2, UploadIsWrite DEF Contract!Next
    <2>3. ASSUME NEW t \in Tokens, NEW d \in DeviceIDs, NEW index, NEW rev,
                 PutCheckpoint(t, d, index, rev)
          PROVE  UNCHANGED Contract!contract
      <3>1. UNCHANGED <<vault, devices, revision, headers, ciphertexts>>
        BY <2>3 DEF PutCheckpoint
      <3> QED BY <3>1, SnapshotKept DEF Contract!contract, Approved
    <2>4. ASSUME NEW t \in Tokens, NEW a \in DeviceIDs, NEW d \in DeviceIDs,
                 Expel(t, a, d), DeleteCheckpoint(d)
          PROVE  Contract!Next
      BY <2>4, ExpelIsRekey DEF Contract!Next
    <2>5. ASSUME NEW t \in Tokens, NEW d \in DeviceIDs, NEW epoch, Reset(t, d, epoch),
                 DeleteContents
          PROVE  Contract!Next
      BY <2>5, DeletionIsDelete DEF Reset, requireApproved, Contract!Next
    <2>6. CASE AdminReset /\ DeleteContents
      BY <2>6, DeletionIsDelete DEF AdminReset, Contract!Next
    <2>7. CASE UNCHANGED vars
      BY <2>7, SnapshotKept DEF vars, Contract!contract, Approved
    <2> QED BY <2>1, <2>2, <2>3, <2>4, <2>5, <2>6, <2>7 DEF VaultNext
  <1> QED BY <1>1, <1>2, InitVInv, StepVInv, PTL DEF VaultSpec, ImplementsContract, Contract!Spec
=============================================================================
