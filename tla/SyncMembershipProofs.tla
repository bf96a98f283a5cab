------------------------ MODULE SyncMembershipProofs ------------------------
(***************************************************************************)
(* The membership invariants of SyncMembership hold for every set of        *)
(* devices, tokens and keys and every bound, and its history is final.      *)
(***************************************************************************)
EXTENDS MembershipInvariant, FiniteSetTheorems

(***************************************************************************)
(* Every call, from any client and in any order, keeps the invariant.       *)
(***************************************************************************)
LEMMA StepIInv == IInv /\ [Next]_memberVars => IInv'
  <1> SUFFICES ASSUME IInv, [Next]_memberVars PROVE IInv'
    OBVIOUS
  <1>1. ASSUME NEW t \in Tokens, NEW d \in DeviceIDs, NEW k \in Keys, CreateVault(t, d, k)
        PROVE  IInv'
    BY <1>1, CreateVaultIInv
  <1>2. ASSUME NEW t \in Tokens, NEW d \in DeviceIDs, Pair(t, d) PROVE IInv'
    BY <1>2, PairIInv
  <1>3. ASSUME NEW t \in Tokens, NEW a \in DeviceIDs, NEW d \in DeviceIDs, Amend(t, a, d)
        PROVE  IInv'
    <2>1. PICK index \in Signable(vault.head) :
            \/ \E k \in Keys : Approve(t, a, index, d, k)
            \/ \E epoch \in Signable(vault.epoch), to \in SUBSET DeviceIDs :
                 d = a /\ Rotate(t, a, index, epoch, to)
            \/ \E k \in Keys : d = a /\ UpgradeKey(t, a, index, k)
      BY <1>3 DEF Amend
    <2>2. ASSUME NEW k \in Keys, Approve(t, a, index, d, k) PROVE IInv'
      BY <2>2, ApproveIInv
    <2>3. ASSUME NEW epoch, NEW to, Rotate(t, a, index, epoch, to) PROVE IInv'
      BY <2>3, RekeyIInv DEF Rotate
    <2>4. ASSUME NEW k \in Keys, UpgradeKey(t, a, index, k) PROVE IInv'
      BY <2>4, UpgradeKeyIInv
    <2> QED BY <2>1, <2>2, <2>3, <2>4
  <1>4. ASSUME NEW t \in Tokens, NEW a \in DeviceIDs, NEW d \in DeviceIDs, Expel(t, a, d)
        PROVE  IInv'
    BY <1>4, RekeyIInv DEF Expel, Remove
  <1>5. ASSUME NEW t \in Tokens, NEW d \in DeviceIDs, TakeKey(t, d) PROVE IInv'
    BY <1>5, KeyPackageIInv, ActivateIInv DEF TakeKey
  <1>6. ASSUME NEW t, NEW d, NEW epoch, Reset(t, d, epoch) PROVE IInv'
    BY <1>6, DeleteVaultIInv DEF Reset
  <1>7. ASSUME NEW d \in DeviceIDs, PairingLapses(d) PROVE IInv'
    BY <1>7, PairingLapsesIInv
  <1>8. CASE AdminReset
    BY <1>8, DeleteVaultIInv DEF AdminReset
  <1>9. CASE Maintain
    BY <1>9, MaintainIInv
  <1>10. CASE UNCHANGED memberVars
    <2>1. Pending' = Pending
      BY <1>10 DEF memberVars, Pending
    <2>2. OneIdentityPerToken'
      BY <1>10, <2>1 DEF memberVars, IInv, OneIdentityPerToken, Approved
    <2> QED BY <1>10, <2>1, <2>2, PairingTableOnly DEF memberVars, IInv, TypeOK, Support
  <1> QED BY <1>1, <1>2, <1>3, <1>4, <1>5, <1>6, <1>7, <1>8, <1>9, <1>10 DEF Next

-----------------------------------------------------------------------------
(***************************************************************************)
(* What each membership handler does to the four columns clients see: the   *)
(* list, the vault's existence, its epoch and its members.                  *)
(***************************************************************************)
Grows == entries' = entries \/ \E e \in Entries : entries' = Append(entries, e)

\* CreateVault starts a vault of one member where there was none.
LEMMA CreateVaultEffect ==
  ASSUME IInv, NEW t \in Tokens, NEW d \in DeviceIDs, NEW k \in Keys, CreateVault(t, d, k)
  PROVE  /\ Grows /\ ~vault.exists /\ Approved = {}
         /\ vault'.exists = TRUE /\ vault'.epoch = 1 /\ Approved' = {d}
  <1>1. TypeOK /\ TablesMatchList
    BY DEF IInv
  <1>2. entries = <<>> /\ \A x \in DeviceIDs : ~Seen(entries, x)
    BY <1>1 DEF CreateVault, TablesMatchList, Seen
  <1>3. \A x \in DeviceIDs : devices[x].state = "none"
    BY <1>1, <1>2 DEF TablesMatchList
  <1>4. [kind |-> "create", signer |-> d, subject |-> d, key |-> k, epochAfter |-> 1] \in Entries
    BY DEF Entries
  <1> QED BY <1>1, <1>3, <1>4 DEF CreateVault, Grows, Approved, TypeOK

\* Approve lets one more device in, within the epoch.
LEMMA ApproveEffect ==
  ASSUME IInv, NEW t \in Tokens, NEW a \in DeviceIDs, NEW index, NEW d \in DeviceIDs,
         NEW k \in Keys, Approve(t, a, index, d, k)
  PROVE  /\ Grows /\ vault.exists /\ a \in Approved /\ d \notin Approved
         /\ vault'.exists = TRUE /\ vault'.epoch = vault.epoch
         /\ Approved' = Approved \cup {d}
  <1>1. TypeOK /\ TablesMatchList /\ OneIdentityPerToken
    BY DEF IInv
  <1>2. [kind |-> "add", signer |-> a, subject |-> d, key |-> k,
         epochAfter |-> vault.epoch] \in Entries
    BY <1>1, VaultType DEF Entries
  <1>3. vault.exists /\ a \in Approved /\ devices[d].state = "none"
    BY <1>1 DEF Approve, requireActivated, requireApproved, OneIdentityPerToken, Pending
  <1>4. vault'.exists = TRUE /\ vault'.epoch = vault.epoch
    BY <1>1, <1>3 DEF Approve, TypeOK, VaultRows
  <1> QED BY <1>1, <1>2, <1>3, <1>4 DEF Approve, Grows, Approved, TypeOK

\* UpgradeKey changes no member.
LEMMA UpgradeKeyEffect ==
  ASSUME IInv, NEW t \in Tokens, NEW a \in DeviceIDs, NEW index, NEW k \in Keys,
         UpgradeKey(t, a, index, k)
  PROVE  /\ Grows /\ vault'.exists = vault.exists /\ vault'.epoch = vault.epoch
         /\ Approved' = Approved
  <1>1. TypeOK
    BY DEF IInv
  <1>2. [kind |-> "key", signer |-> a, subject |-> a, key |-> k,
         epochAfter |-> vault.epoch] \in Entries
    BY <1>1, VaultType DEF Entries
  <1>3. vault'.exists = vault.exists /\ vault'.epoch = vault.epoch
    BY <1>1 DEF UpgradeKey, TypeOK, VaultRows
  <1>4. \A x \in DeviceIDs : devices'[x].state = devices[x].state
    BY <1>1 DEF UpgradeKey, TypeOK, DeviceRows
  <1> QED BY <1>2, <1>3, <1>4 DEF UpgradeKey, Grows, Approved

\* Remove and Rotate start the next epoch, without the device removed, if any.
LEMMA RekeyEffect ==
  ASSUME IInv, NEW t \in Tokens, NEW a \in DeviceIDs, NEW index,
         NEW kind \in {"remove", "rotate"}, NEW subject \in DeviceIDs, NEW epochAfter,
         NEW recipients, rekey(t, a, index, kind, subject, epochAfter, recipients)
  PROVE  /\ Grows /\ vault.exists /\ a \in Approved
         /\ vault'.exists = TRUE /\ vault'.epoch = vault.epoch + 1
         /\ kind = "remove" => subject \in Approved
         /\ Approved' = Approved \ (IF kind = "remove" THEN {subject} ELSE {})
  <1> DEFINE e == [kind |-> kind, signer |-> a, subject |-> subject, key |-> NoKey,
                   epochAfter |-> epochAfter]
  <1>0. TypeOK /\ TablesMatchList
    BY DEF IInv
  <1>1. /\ vault.exists /\ a \in Approved /\ Extends(entries, index, e)
        /\ entries' = Append(entries, e) /\ vault'.exists = TRUE /\ vault'.epoch = epochAfter
        /\ index = Len(entries) + 1 /\ entries # <<>>
        /\ devices' = [d \in DeviceIDs |-> RekeyedRow(d, a, e)]
    BY <1>0 DEF rekey, requireActivated, requireApproved, TablesMatchList
  <1>2. index # 1 /\ vault.epoch \in Nat
    BY <1>0, <1>1, VaultType DEF TypeOK
  <1>3. extendRemove(entries, e) \/ extendRotate(entries, e)
    BY <1>1, <1>2 DEF Extends, extendAdd, extendKey
  <1>4. epochAfter = vault.epoch + 1 /\ (kind = "remove" => subject \in Approved)
    BY <1>0, <1>3 DEF extendRemove, extendRotate, TablesMatchList, Approved
  <1>5. e \in Entries
    BY <1>2, <1>4 DEF Entries
  <1>6. \A x \in DeviceIDs : devices'[x].state =
          IF kind = "remove" /\ x = subject THEN "revoked" ELSE devices[x].state
    BY <1>0, <1>1 DEF RekeyedRow, TypeOK, DeviceRows
  <1>7. Approved' = Approved \ (IF kind = "remove" THEN {subject} ELSE {})
    BY <1>6 DEF Approved
  <1>8. Grows
    BY <1>1, <1>5 DEF Grows
  <1> HIDE DEF e
  <1> QED BY <1>1, <1>4, <1>7, <1>8

\* Pairing, taking a key and the passing of time change nothing clients see.
LEMMA QuietEffect ==
  ASSUME IInv,
         \/ \E t \in Tokens, d \in DeviceIDs : Pair(t, d) \/ TakeKey(t, d)
         \/ \E d \in DeviceIDs : PairingLapses(d)
         \/ Maintain
  PROVE  /\ Grows /\ UNCHANGED vault /\ Approved' = Approved
  <1>1. ASSUME UNCHANGED <<vault, entries, devices>>
        PROVE  Grows /\ UNCHANGED vault /\ Approved' = Approved
    BY <1>1 DEF Grows, Approved
  <1>2. ASSUME NEW t, NEW d \in DeviceIDs, Activate(t, d, held[d])
        PROVE  Grows /\ UNCHANGED vault /\ Approved' = Approved
    <2>1. \A x \in DeviceIDs : devices'[x].state = devices[x].state
      BY <1>2 DEF Activate, IInv, TypeOK, DeviceRows
    <2> QED BY <1>2, <2>1 DEF Activate, Grows, Approved
  <1>3. ASSUME NEW t, NEW d \in DeviceIDs, Pair(t, d) PROVE UNCHANGED <<vault, entries, devices>>
    BY <1>3 DEF Pair, BeginPairing, AnswerPairing, ConfirmPairing, CancelPairing
  <1>4. ASSUME NEW t, NEW d \in DeviceIDs, KeyPackage(t, d)
        PROVE  UNCHANGED <<vault, entries, devices>>
    BY <1>4 DEF KeyPackage
  <1>5. ASSUME NEW d, PairingLapses(d) PROVE UNCHANGED <<vault, entries, devices>>
    BY <1>5 DEF PairingLapses
  <1>6. ASSUME Maintain PROVE UNCHANGED <<vault, entries, devices>>
    BY <1>6 DEF Maintain
  <1> QED BY <1>1, <1>2, <1>3, <1>4, <1>5, <1>6 DEF TakeKey

-----------------------------------------------------------------------------
(***************************************************************************)
(* The limits are counts, so what they need besides IInv is that there is   *)
(* something to count: the two tables stay finite, whatever DeviceIDs is.   *)
(***************************************************************************)
Counted == IsFiniteSet(Approved) /\ IsFiniteSet(Pending) /\ WithinLimits

\* A smaller set, and one element more, of a set within a limit.
LEMMA LimitFacts ==
  ASSUME NEW S, IsFiniteSet(S), NEW limit \in Nat
  PROVE  /\ \A T \in SUBSET S : Cardinality(S) <= limit =>
                                  IsFiniteSet(T) /\ Cardinality(T) <= limit
         /\ \A x : Cardinality(S) < limit =>
                     IsFiniteSet(S \cup {x}) /\ Cardinality(S \cup {x}) <= limit
  <1>1. Cardinality(S) \in Nat
    BY FS_CardinalityType
  <1>2. ASSUME NEW T \in SUBSET S, Cardinality(S) <= limit
        PROVE  IsFiniteSet(T) /\ Cardinality(T) <= limit
    <2>1. IsFiniteSet(T) /\ Cardinality(T) <= Cardinality(S)
      BY FS_Subset
    <2>2. Cardinality(T) \in Nat
      BY <2>1, FS_CardinalityType
    <2> QED BY <1>1, <1>2, <2>1, <2>2
  <1>3. ASSUME NEW x, Cardinality(S) < limit
        PROVE  IsFiniteSet(S \cup {x}) /\ Cardinality(S \cup {x}) <= limit
    <2>1. /\ IsFiniteSet(S \cup {x})
          /\ Cardinality(S \cup {x}) = IF x \in S THEN Cardinality(S) ELSE Cardinality(S) + 1
      BY FS_AddElement
    <2> QED BY <1>1, <1>3, <2>1
  <1> QED BY <1>2, <1>3

\* Empty tables are within the limits.
LEMMA NothingCounted ==
  /\ Approved = {} /\ Pending = {} => Counted
  /\ Approved' = {} /\ Pending' = {} => Counted'
  BY FS_EmptySet, ListBounds, PairingBound DEF Counted, WithinLimits

\* A step that makes no table larger stays within the limits.
LEMMA FewerCounted ==
  ASSUME Counted, Approved' \subseteq Approved, Pending' \subseteq Pending
  PROVE  Counted'
  <1>1. IsFiniteSet(Approved') /\ Cardinality(Approved') <= MaxDevicesPerVault
    BY LimitFacts, ListBounds DEF Counted, WithinLimits
  <1>2. IsFiniteSet(Pending') /\ Cardinality(Pending') <= MaxPendingPairings
    BY LimitFacts, PairingBound DEF Counted, WithinLimits
  <1> QED BY <1>1, <1>2 DEF Counted, WithinLimits

(***************************************************************************)
(* BeginPairing counts the pairings it leaves before it adds one.           *)
(***************************************************************************)
LEMMA BeginPairingCounted ==
  ASSUME IInv, Counted, NEW t \in Tokens, NEW d \in DeviceIDs, NEW k \in Keys,
         BeginPairing(t, d, k)
  PROVE  Counted'
  <1> DEFINE live == PurgeExpired(DropEarlier(t))
             left == {x \in DeviceIDs : live[x].state # "none"}
  <1>1. left \subseteq Pending
    BY DEF PurgeExpired, DropEarlier, Pending, NoPairing
  <1>2. Pending' = left \cup {d}
    BY DEF BeginPairing, Pending, PurgeExpired
  <1>3. Cardinality(left) < MaxPendingPairings
    BY DEF BeginPairing, RoomToPair
  <1>4. IsFiniteSet(left)
    BY <1>1, FS_Subset DEF Counted
  <1>5. Approved' = Approved
    BY DEF BeginPairing, Approved
  <1> HIDE DEF left
  <1>6. IsFiniteSet(Pending') /\ Cardinality(Pending') <= MaxPendingPairings
    BY <1>2, <1>3, <1>4, LimitFacts, PairingBound
  <1> QED BY <1>5, <1>6 DEF Counted, WithinLimits

\* Approve turns a pairing into a member while the list has room for one.
LEMMA ApproveCounted ==
  ASSUME IInv, Counted, NEW t \in Tokens, NEW a \in DeviceIDs, NEW index,
         NEW d \in DeviceIDs, NEW k \in Keys, Approve(t, a, index, d, k)
  PROVE  Counted'
  <1> DEFINE e == [kind |-> "add", signer |-> a, subject |-> d, key |-> k,
                   epochAfter |-> vault.epoch]
  <1>0. TypeOK /\ TablesMatchList
    BY DEF IInv
  <1>1. Approved = Current(entries)
    BY <1>0 DEF TablesMatchList, Approved, Current
  <1>2. Extends(entries, index, e) /\ index = Len(entries) + 1 /\ entries # <<>>
    BY <1>0 DEF Approve, requireActivated, requireApproved, TablesMatchList
  <1>3. index # 1
    BY <1>0, <1>2 DEF TypeOK
  <1>4. extendAdd(entries, e)
    BY <1>2, <1>3 DEF Extends, extendRemove, extendKey, extendRotate
  <1>5. Cardinality(Approved) < MaxDevicesPerVault
    BY <1>1, <1>4 DEF extendAdd
  <1>6. Approved' = Approved \cup {d}
    BY ApproveEffect
  <1>7. Pending' \subseteq Pending
    BY <1>0 DEF Approve, DeletePairing, Pending, NoPairing, TypeOK
  <1>8. IsFiniteSet(Approved') /\ Cardinality(Approved') <= MaxDevicesPerVault
    BY <1>5, <1>6, LimitFacts, ListBounds DEF Counted
  <1>9. IsFiniteSet(Pending') /\ Cardinality(Pending') <= MaxPendingPairings
    BY <1>7, LimitFacts, PairingBound DEF Counted, WithinLimits
  <1> QED BY <1>8, <1>9 DEF Counted, WithinLimits

\* CreateVault's one member is within the limit, which is at least one.
LEMMA CreateVaultCounted ==
  ASSUME IInv, Counted, NEW t \in Tokens, NEW d \in DeviceIDs, NEW k \in Keys,
         CreateVault(t, d, k)
  PROVE  Counted'
  <1>1. Approved' = {} \cup {d} /\ Pending' = Pending
    BY CreateVaultEffect DEF CreateVault, Pending
  <1>2. IsFiniteSet({}) /\ Cardinality({}) < MaxDevicesPerVault
    BY FS_EmptySet, ListBounds
  <1>3. IsFiniteSet(Approved') /\ Cardinality(Approved') <= MaxDevicesPerVault
    BY <1>1, <1>2, LimitFacts, ListBounds
  <1> QED BY <1>1, <1>3 DEF Counted, WithinLimits

\* Every call keeps both tables within their limits.
LEMMA StepCounted == IInv /\ Counted /\ [Next]_memberVars => Counted'
  <1> SUFFICES ASSUME IInv, Counted, [Next]_memberVars PROVE Counted'
    OBVIOUS
  <1>0. TypeOK
    BY DEF IInv
  <1>1. ASSUME NEW t \in Tokens, NEW d \in DeviceIDs, Pair(t, d) PROVE Counted'
    <2>1. ASSUME NEW k \in Keys, BeginPairing(t, d, k) PROVE Counted'
      BY <2>1, BeginPairingCounted
    <2>2. ASSUME NEW a, AnswerPairing(t, a, d) PROVE Pending' \subseteq Pending
      BY <2>2, <1>0 DEF AnswerPairing, Pending, TypeOK
    <2>3. ASSUME ConfirmPairing(t, d) PROVE Pending' \subseteq Pending
      BY <2>3, <1>0 DEF ConfirmPairing, Pending, TypeOK
    <2>4. ASSUME CancelPairing(t, d) PROVE Pending' \subseteq Pending
      BY <2>4, <1>0 DEF CancelPairing, DeletePairing, Pending, NoPairing, TypeOK
    <2>5. Approved' = Approved
      BY <1>1, QuietEffect
    <2> QED BY <1>1, <2>1, <2>2, <2>3, <2>4, <2>5, FewerCounted DEF Pair
  <1>2. ASSUME NEW t \in Tokens, NEW a \in DeviceIDs, NEW index,
               NEW kind \in {"remove", "rotate"}, NEW subject \in DeviceIDs, NEW epochAfter,
               NEW recipients, rekey(t, a, index, kind, subject, epochAfter, recipients)
        PROVE  Counted'
    <2>1. Approved' \subseteq Approved
      BY <1>2, RekeyEffect
    <2>2. Pending' = {}
      BY <1>2 DEF rekey, Pending, NoPairing
    <2> QED BY <2>1, <2>2, FewerCounted
  <1>3. ASSUME NEW t \in Tokens, NEW a \in DeviceIDs, NEW index, NEW k \in Keys,
               UpgradeKey(t, a, index, k)
        PROVE  Counted'
    <2>1. Approved' = Approved /\ Pending' = Pending
      BY <1>3, UpgradeKeyEffect DEF UpgradeKey, Pending
    <2> QED BY <2>1, FewerCounted
  <1>4. ASSUME NEW t \in Tokens, NEW d \in DeviceIDs, TakeKey(t, d) PROVE Counted'
    <2>1. Approved' = Approved /\ Pending' = Pending
      BY <1>4, QuietEffect DEF TakeKey, KeyPackage, Activate, Pending
    <2> QED BY <2>1, FewerCounted
  <1>5. ASSUME NEW d \in DeviceIDs, PairingLapses(d) PROVE Counted'
    <2>1. Approved' = Approved
      BY <1>5, QuietEffect
    <2>2. Pending' \subseteq Pending
      BY <1>0, <1>5 DEF PairingLapses, Pending, TypeOK
    <2> QED BY <2>1, <2>2, FewerCounted
  <1>6. CASE Maintain
    <2>1. Approved' = Approved
      BY <1>6, QuietEffect
    <2>2. Pending' \subseteq Pending
      BY <1>6 DEF Maintain, PurgeExpired, Pending, NoPairing
    <2> QED BY <2>1, <2>2, FewerCounted
  <1>7. CASE DeleteVault
    <2>1. Approved' = {} /\ Pending' = {}
      BY <1>7 DEF DeleteVault, Approved, Pending, NoDevice, NoPairing
    <2> QED BY <2>1, NothingCounted
  <1>8. CASE UNCHANGED memberVars
    <2>1. Approved' = Approved /\ Pending' = Pending
      BY <1>8 DEF memberVars, Approved, Pending
    <2> QED BY <2>1, FewerCounted
  <1>9. CASE Next
    BY <1>9, <1>1, <1>2, <1>3, <1>4, <1>5, <1>6, <1>7, CreateVaultCounted, ApproveCounted
       DEF Next, Amend, Expel, Remove, Rotate, Reset, AdminReset
  <1> QED BY <1>8, <1>9

\* The service starts with empty tables, which are within the limits.
LEMMA InitCounted == Init => Counted
  <1> SUFFICES ASSUME Init PROVE Approved = {} /\ Pending = {}
    BY NothingCounted
  <1> QED BY DEF Init, Approved, Pending, NoDevice, NoPairing

\* What the two inductive invariants amount to for a member.
LEMMA CountedIsSound == IInv /\ Counted => TypeOK /\ TablesMatchList /\ MembershipSound
  BY DEF IInv, KeysReachMembers, Counted, MembershipSound

(***************************************************************************)
(* Membership is safe: in every behaviour of the service the tables agree   *)
(* with the signed list, every member has or can take the current key,      *)
(* nobody else gets it, a token is one identity, and neither members nor    *)
(* pairings exceed their limit.                                             *)
(***************************************************************************)
THEOREM MembershipSafe == Spec => [](TypeOK /\ TablesMatchList /\ MembershipSound)
  BY InitIInv, StepIInv, InitCounted, StepCounted, CountedIsSound, PTL DEF Spec

(***************************************************************************)
(* A handler that appends an entry, does not lower the epoch and writes no  *)
(* revoked device's row keeps the history final.                            *)
(***************************************************************************)
LEMMA AppendIsFinal ==
  ASSUME TypeOK, NEW e \in Entries, entries' = Append(entries, e),
         vault.epoch <= vault'.epoch,
         \A d \in DeviceIDs : devices[d].state = "revoked" => devices'[d] = devices[d]
  PROVE  HistoryStep
  BY AppendFacts DEF TypeOK, HistoryStep

(***************************************************************************)
(* While a vault lives its list only grows, its epoch never falls, and a    *)
(* revoked device's row is never written again.                             *)
(***************************************************************************)
THEOREM HistoryFinal == Spec => HistoryIsFinal
  <1>1. ASSUME IInv, [Next]_memberVars PROVE [HistoryStep]_memberVars
    <2>0. /\ TypeOK /\ TablesMatchList /\ OneIdentityPerToken /\ Support
          /\ vault.epoch \in Nat /\ Len(entries) \in Nat
      BY <1>1, VaultType DEF IInv, TypeOK
    <2>1. CASE UNCHANGED <<vault, entries, devices>>
      BY <2>0, <2>1 DEF HistoryStep
    <2>2. CASE DeleteVault
      BY <2>2 DEF HistoryStep, DeleteVault, NoVault
    <2>3. ASSUME NEW t \in Tokens, NEW d \in DeviceIDs, NEW k \in Keys, CreateVault(t, d, k)
          PROVE  HistoryStep
      <3>1. entries = <<>> /\ vault.epoch = 0 /\ \A x \in DeviceIDs : ~Seen(entries, x)
        BY <2>0, <2>3 DEF CreateVault, TablesMatchList, Epoch, Seen
      <3>2. vault'.epoch = 1 /\ \A x \in DeviceIDs : devices[x].state = "none"
        BY <2>0, <2>3, <3>1 DEF CreateVault, TablesMatchList
      <3> QED BY <2>0, <2>3, <3>1, <3>2 DEF HistoryStep, CreateVault
    <2>4. ASSUME NEW t \in Tokens, NEW a \in DeviceIDs, NEW index, NEW d \in DeviceIDs,
                 NEW k \in Keys, Approve(t, a, index, d, k)
          PROVE  HistoryStep
      <3> DEFINE e == [kind |-> "add", signer |-> a, subject |-> d, key |-> k,
                       epochAfter |-> vault.epoch]
      <3>1. e \in Entries /\ entries' = Append(entries, e)
        BY <2>0, <2>4 DEF Approve, Entries
      <3>2. devices[d].state = "none"
        BY <2>0, <2>4 DEF Approve, OneIdentityPerToken, Pending
      <3>3. \A x \in DeviceIDs : x # d => devices'[x] = devices[x]
        BY <2>0, <2>4 DEF Approve, TypeOK
      <3>4. vault'.epoch = vault.epoch
        BY <2>0, <2>4 DEF Approve, TypeOK, VaultRows
      <3> HIDE DEF e
      <3> QED BY <2>0, <3>1, <3>2, <3>3, <3>4, AppendIsFinal
    <2>5. ASSUME NEW t \in Tokens, NEW a \in DeviceIDs, NEW index, NEW k \in Keys,
                 UpgradeKey(t, a, index, k)
          PROVE  HistoryStep
      <3> DEFINE e == [kind |-> "key", signer |-> a, subject |-> a, key |-> k,
                       epochAfter |-> vault.epoch]
      <3>1. e \in Entries /\ entries' = Append(entries, e)
        BY <2>0, <2>5 DEF UpgradeKey, Entries
      <3>2. devices[a].state = "approved"
        BY <2>5 DEF UpgradeKey, requireActivated, requireApproved, Approved
      <3>3. \A x \in DeviceIDs : x # a => devices'[x] = devices[x]
        BY <2>0, <2>5 DEF UpgradeKey, TypeOK
      <3>4. vault'.epoch = vault.epoch
        BY <2>0, <2>5 DEF UpgradeKey, TypeOK, VaultRows
      <3> HIDE DEF e
      <3> QED BY <2>0, <3>1, <3>2, <3>3, <3>4, AppendIsFinal
    <2>6. ASSUME NEW t \in Tokens, NEW a \in DeviceIDs, NEW index,
                 NEW kind \in {"remove", "rotate"}, NEW subject \in DeviceIDs, NEW epochAfter,
                 NEW recipients, rekey(t, a, index, kind, subject, epochAfter, recipients)
          PROVE  HistoryStep
      <3> DEFINE e == [kind |-> kind, signer |-> a, subject |-> subject, key |-> NoKey,
                       epochAfter |-> epochAfter]
      <3>1. /\ Extends(entries, index, e) /\ entries' = Append(entries, e)
            /\ vault'.epoch = epochAfter /\ index = Len(entries) + 1 /\ entries # <<>>
            /\ devices[a].state = "approved"
        BY <2>0, <2>6, Zenon DEF rekey, requireActivated, requireApproved, Approved, TablesMatchList
      <3>2. index # 1
        BY <2>0, <3>1 DEF TypeOK
      <3>3. extendRemove(entries, e) \/ extendRotate(entries, e)
        BY <3>1, <3>2 DEF Extends, extendAdd, extendKey
      <3>4. epochAfter = vault.epoch + 1 /\ (kind = "remove" => devices[subject].state = "approved")
        BY <2>0, <3>3 DEF extendRemove, extendRotate, TablesMatchList
      <3>5. e \in Entries
        BY <2>0, <3>4 DEF Entries
      <3>6. \A x \in DeviceIDs : x # a /\ (kind = "remove" => x # subject) => devices'[x] = devices[x]
        BY <2>6 DEF rekey, RekeyedRow
      <3> HIDE DEF e
      <3>7. \A x \in DeviceIDs : devices[x].state = "revoked" => devices'[x] = devices[x]
        BY <3>1, <3>4, <3>6
      <3> QED BY <2>0, <3>1, <3>4, <3>5, <3>7, AppendIsFinal
    <2>7. ASSUME NEW t \in Tokens, NEW d \in DeviceIDs, Activate(t, d, held[d])
          PROVE  HistoryStep
      BY <2>0, <2>7 DEF HistoryStep, Activate, requireApproved, Approved, TypeOK
    <2>8. ASSUME NEW t \in Tokens, NEW d \in DeviceIDs, Pair(t, d)
          PROVE  UNCHANGED <<vault, entries, devices>>
      BY <2>8 DEF Pair, BeginPairing, AnswerPairing, ConfirmPairing, CancelPairing
    <2>9. CASE UNCHANGED memberVars
      BY <2>9
    <2>10. CASE Next
      BY <2>10, <2>1, <2>2, <2>3, <2>4, <2>5, <2>6, <2>7, <2>8
         DEF Next, Amend, Expel, Remove, Rotate, TakeKey, KeyPackage, Reset, AdminReset,
             PairingLapses, Maintain
    <2> QED BY <1>1, <2>9, <2>10
  <1> QED BY <1>1, InitIInv, StepIInv, PTL DEF Spec, HistoryIsFinal
=============================================================================
