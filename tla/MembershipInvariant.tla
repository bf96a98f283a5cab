------------------------ MODULE MembershipInvariant -------------------------
(***************************************************************************)
(* The inductive invariant of SyncMembership, and that each handler of the  *)
(* service keeps it.                                                        *)
(*                                                                          *)
(* IInv is the safety invariants the runs check, which lean on one another, *)
(* and Support: what they rest on that no client sees.  There is one lemma  *)
(* per handler, with one step per conjunct the handler can disturb.         *)
(***************************************************************************)
EXTENDS SyncMembership, DeviceListProofs

\* Without a vault nothing is pending; only ids the list has used were removed; a waiting
\* package is a member's and of the current epoch; nobody is ahead of that epoch.
Support ==
  /\ ~vault.exists => Pending = {}
  /\ \A i \in 1..Len(entries) :
       entries[i].kind = "remove" => Seen(entries, entries[i].subject)
  /\ \A d \in DeviceIDs : packages[d] # NoPackage =>
       /\ d \in Approved
       /\ packages[d].epoch = vault.epoch
       /\ packages[d].entry \in 1..Len(entries)
  /\ \A d \in DeviceIDs : held[d].epoch <= vault.epoch
  /\ \A d \in Approved : devices[d].activated <= vault.epoch

KeysReachMembers ==
  /\ NoMemberStranded
  /\ WaitingPackageOpens
  /\ ActivatedHoldsKey
  /\ RemovedHoldsOldKeys

IInv ==
  /\ TypeOK
  /\ TablesMatchList
  /\ KeysReachMembers
  /\ OneIdentityPerToken
  /\ Support

-----------------------------------------------------------------------------
(***************************************************************************)
(* Rows keep their columns when one column is written.                      *)
(***************************************************************************)
LEMMA BlankRows ==
  /\ NoVault \in VaultRows /\ NoDevice \in DeviceRows
  /\ NoPairing \in PairingRows /\ NoPackage \in PackageRows
  BY DEF NoVault, NoDevice, NoPairing, NoPackage, VaultRows, DeviceRows, PairingRows, PackageRows

\* The subject of a signed entry is a device.
LEMMA SubjectType ==
  TypeOK => \A i \in 1..Len(entries) : entries[i].subject \in DeviceIDs
  <1> SUFFICES ASSUME TypeOK, NEW i \in 1..Len(entries) PROVE entries[i].subject \in DeviceIDs
    OBVIOUS
  <1>1. entries[i] \in Entries
    BY DEF TypeOK
  <1> QED BY <1>1 DEF Entries

\* The vault row holds a flag and two counters.
LEMMA VaultType ==
  TypeOK => vault.exists \in BOOLEAN /\ vault.head \in Nat /\ vault.epoch \in Nat
  BY DEF TypeOK, VaultRows

\* The columns of a device row that the service updates keep it a device row.
LEMMA DeviceRowWrites ==
  ASSUME NEW row \in DeviceRows
  PROVE  /\ [row EXCEPT !.state = "revoked"] \in DeviceRows
         /\ \A n \in Nat : [row EXCEPT !.activated = n] \in DeviceRows
         /\ \A k \in Keys : [row EXCEPT !.key = k] \in DeviceRows
  BY DEF DeviceRows

\* So do those of a pairing row.
LEMMA PairingRowWrites ==
  ASSUME NEW row \in PairingRows
  PROVE  /\ [row EXCEPT !.state = "answered"] \in PairingRows
         /\ [row EXCEPT !.state = "confirmed"] \in PairingRows
         /\ [row EXCEPT !.expired = TRUE] \in PairingRows
  BY Zenon DEF PairingRows

(***************************************************************************)
(* The empty tables, before CreateVault and after DeleteVault, satisfy the  *)
(* invariant.                                                               *)
(***************************************************************************)
LEMMA InitIInv == Init => IInv
  <1> SUFFICES ASSUME Init PROVE IInv
    OBVIOUS
  <1> USE DEF Init, NoVault, NoDevice, NoPairing, NoPackage
  <1>1. TypeOK
    BY BlankRows DEF TypeOK
  <1>2. Approved = {} /\ Pending = {} /\ Len(entries) = 0
    BY DEF Approved, Pending
  <1>3. TablesMatchList
    BY <1>2 DEF TablesMatchList, Epoch, Current, MemberAt, Seen
  <1>4. KeysReachMembers
    BY <1>2 DEF KeysReachMembers, NoMemberStranded, WaitingPackageOpens, ActivatedHoldsKey,
                RemovedHoldsOldKeys
  <1>5. OneIdentityPerToken
    BY <1>2 DEF OneIdentityPerToken
  <1>6. Support
    BY <1>2 DEF Support
  <1> QED BY <1>1, <1>3, <1>4, <1>5, <1>6 DEF IInv

\* Deleting the vault leaves empty tables, of which everything holds.
LEMMA DeleteVaultIInv == DeleteVault => IInv'
  <1> SUFFICES ASSUME DeleteVault PROVE IInv'
    OBVIOUS
  <1> USE DEF DeleteVault, NoVault, NoDevice, NoPairing, NoPackage
  <1>1. TypeOK'
    BY BlankRows DEF TypeOK
  <1>2. Approved' = {} /\ Pending' = {} /\ Len(entries') = 0
    BY DEF Approved, Pending
  <1>3. TablesMatchList'
    BY <1>2 DEF TablesMatchList, Epoch, Current, MemberAt, Seen
  <1>4. KeysReachMembers'
    BY <1>2 DEF KeysReachMembers, NoMemberStranded, WaitingPackageOpens, ActivatedHoldsKey,
                RemovedHoldsOldKeys
  <1>5. OneIdentityPerToken'
    BY <1>2 DEF OneIdentityPerToken
  <1>6. Support'
    BY <1>2 DEF Support
  <1> QED BY <1>1, <1>3, <1>4, <1>5, <1>6 DEF IInv

(***************************************************************************)
(* The pairing handlers touch the pairing table only: they keep the         *)
(* invariant if the table keeps its columns, stays empty without a vault,   *)
(* and still gives no token a second identity.                              *)
(***************************************************************************)
LEMMA PairingTableOnly ==
  ASSUME IInv, UNCHANGED <<vault, entries, devices, packages, held>>,
         pairings' \in [DeviceIDs -> PairingRows],
         ~vault.exists => Pending' = {},
         OneIdentityPerToken'
  PROVE  IInv'
  <1> USE DEF IInv
  <1>1. TypeOK'
    BY DEF TypeOK
  <1>2. Approved' = Approved
    BY DEF Approved
  <1>3. TablesMatchList'
    BY DEF TablesMatchList
  <1>4. KeysReachMembers'
    BY <1>2 DEF KeysReachMembers, NoMemberStranded, WaitingPackageOpens, ActivatedHoldsKey,
                RemovedHoldsOldKeys
  <1>5. Support'
    BY <1>2 DEF Support
  <1> QED BY <1>1, <1>3, <1>4, <1>5

(***************************************************************************)
(* Answering, confirming, cancelling, lapsing and purging only drop         *)
(* pairings or move them along: tokens stay where they are.                 *)
(***************************************************************************)
LEMMA PairingsNarrow ==
  ASSUME IInv, UNCHANGED <<vault, entries, devices, packages, held>>,
         pairings' \in [DeviceIDs -> PairingRows],
         \A d \in DeviceIDs : \/ pairings'[d].state = "none"
                              \/ /\ pairings[d].state # "none"
                                 /\ pairings'[d].token = pairings[d].token
  PROVE  IInv'
  <1>1. Pending' \subseteq Pending
    BY DEF Pending
  <1>2. \A d \in Pending' : pairings'[d].token = pairings[d].token
    BY DEF Pending
  <1>3. Approved' = Approved
    BY DEF Approved
  <1>4. OneIdentityPerToken'
    BY <1>1, <1>2, <1>3 DEF IInv, OneIdentityPerToken, Approved, Pending
  <1>5. ~vault.exists => Pending' = {}
    BY <1>1 DEF IInv, Support
  <1> QED BY <1>4, <1>5, PairingTableOnly

(***************************************************************************)
(* BeginPairing first drops the caller's earlier pairing and refuses a      *)
(* member's token, so the offer is the token's only identity.               *)
(***************************************************************************)
LEMMA BeginPairingIInv ==
  ASSUME IInv, NEW t \in Tokens, NEW d \in DeviceIDs, NEW k \in Keys, BeginPairing(t, d, k)
  PROVE  IInv'
  <1> DEFINE live == PurgeExpired(DropEarlier(t))
  <1>1. TypeOK
    BY DEF IInv
  <1>2. \A x \in DeviceIDs : live[x] = NoPairing \/ (live[x] = pairings[x] /\ pairings[x].token # t)
    BY DEF PurgeExpired, DropEarlier
  <1>3. /\ pairings' = [live EXCEPT ![d] =
             [state |-> "offered", token |-> t, key |-> k, expired |-> FALSE]]
        /\ UNCHANGED <<vault, entries, devices, packages, held>>
        /\ vault.exists /\ devices[d].state = "none"
        /\ ~ \E x \in Approved : devices[x].token = t
    BY DEF BeginPairing
  <1>4. live \in [DeviceIDs -> PairingRows]
    BY <1>1, BlankRows DEF PurgeExpired, DropEarlier, TypeOK
  <1>5. live = [x \in DeviceIDs |-> live[x]]
    BY DEF PurgeExpired, DropEarlier
  <1> HIDE DEF live
  <1>6. pairings' \in [DeviceIDs -> PairingRows]
    <2>1. [state |-> "offered", token |-> t, key |-> k, expired |-> FALSE] \in PairingRows
      BY DEF PairingRows
    <2> QED BY <1>3, <1>4, <2>1
  <1>7. /\ pairings'[d].token = t
        /\ \A x \in Pending' : x # d => x \in Pending /\ pairings'[x].token = pairings[x].token
                                                      /\ pairings[x].token # t
    BY <1>2, <1>3, <1>5 DEF Pending, NoPairing
  <1>8. OneIdentityPerToken'
    <2>1. Approved' = Approved /\ devices' = devices
      BY <1>3 DEF Approved
    <2> QED BY <1>3, <1>7, <2>1 DEF IInv, OneIdentityPerToken, Approved, Pending
  <1> QED BY <1>3, <1>6, <1>8, PairingTableOnly

\* Answering or confirming a pairing keeps the invariant.
LEMMA PairingMoves ==
  ASSUME IInv, NEW d \in DeviceIDs, NEW s \in {"answered", "confirmed"},
         pairings' = [pairings EXCEPT ![d].state = s], pairings[d].state # "none",
         UNCHANGED <<vault, entries, devices, packages, held>>
  PROVE  IInv'
  <1>1. TypeOK
    BY DEF IInv
  <1>2. pairings' \in [DeviceIDs -> PairingRows]
    BY <1>1, PairingRowWrites, Zenon DEF TypeOK
  <1>3. \A x \in DeviceIDs : /\ pairings'[x].token = pairings[x].token
                             /\ x # d => pairings'[x] = pairings[x]
    BY <1>1 DEF TypeOK, PairingRows
  <1> QED BY <1>2, <1>3, PairingsNarrow

\* Each step of the pairing handshake keeps the invariant.
LEMMA PairIInv ==
  ASSUME IInv, NEW t \in Tokens, NEW d \in DeviceIDs, Pair(t, d)
  PROVE  IInv'
  <1>0. TypeOK
    BY DEF IInv
  <1>1. ASSUME NEW k \in Keys, BeginPairing(t, d, k) PROVE IInv'
    BY <1>1, BeginPairingIInv
  <1>2. ASSUME NEW a \in DeviceIDs, AnswerPairing(t, a, d) PROVE IInv'
    <2>1. /\ pairings' = [pairings EXCEPT ![d].state = "answered"]
          /\ pairings[d].state = "offered"
          /\ UNCHANGED <<vault, entries, devices, packages, held>>
      BY <1>2 DEF AnswerPairing
    <2> QED BY <2>1, PairingMoves, Zenon
  <1>3. CASE ConfirmPairing(t, d)
    <2>1. /\ pairings' = [pairings EXCEPT ![d].state = "confirmed"]
          /\ pairings[d].state = "answered"
          /\ UNCHANGED <<vault, entries, devices, packages, held>>
      BY <1>3 DEF ConfirmPairing
    <2> QED BY <2>1, PairingMoves, Zenon
  <1>4. CASE CancelPairing(t, d)
    <2>1. /\ pairings' = [pairings EXCEPT ![d] = NoPairing]
          /\ UNCHANGED <<vault, entries, devices, packages, held>>
      BY <1>4 DEF CancelPairing, DeletePairing
    <2>2. pairings' \in [DeviceIDs -> PairingRows]
      BY <1>0, <2>1, BlankRows DEF TypeOK
    <2>3. \A x \in DeviceIDs : pairings'[x].state = "none" \/ pairings'[x] = pairings[x]
      BY <1>0, <2>1 DEF TypeOK, NoPairing
    <2> QED BY <2>1, <2>2, <2>3, PairingsNarrow
  <1> QED BY <1>1, <1>2, <1>3, <1>4 DEF Pair

\* So does a pairing's time running out.
LEMMA PairingLapsesIInv ==
  ASSUME IInv, NEW d \in DeviceIDs, PairingLapses(d)
  PROVE  IInv'
  <1>1. /\ pairings' = [pairings EXCEPT ![d].expired = TRUE]
        /\ pairings[d].state # "none"
        /\ UNCHANGED <<vault, entries, devices, packages, held>>
    BY DEF PairingLapses, Pending
  <1>2. TypeOK
    BY DEF IInv
  <1>3. pairings' \in [DeviceIDs -> PairingRows]
    BY <1>1, <1>2, PairingRowWrites, Zenon DEF TypeOK
  <1>4. \A x \in DeviceIDs : /\ pairings'[x].state = pairings[x].state
                             /\ pairings'[x].token = pairings[x].token
    BY <1>1, <1>2 DEF TypeOK, PairingRows
  <1> QED BY <1>1, <1>3, <1>4, PairingsNarrow

\* Purging lapsed pairings keeps the invariant.
LEMMA MaintainIInv ==
  ASSUME IInv, Maintain
  PROVE  IInv'
  <1>1. /\ pairings' = [d \in DeviceIDs |-> IF pairings[d].expired THEN NoPairing ELSE pairings[d]]
        /\ UNCHANGED <<vault, entries, devices, packages, held>>
    BY DEF Maintain, PurgeExpired
  <1>2. pairings' \in [DeviceIDs -> PairingRows]
    BY <1>1, BlankRows DEF IInv, TypeOK
  <1>3. \A d \in DeviceIDs : pairings'[d].state = "none" \/ pairings'[d] = pairings[d]
    BY <1>1 DEF NoPairing
  <1> QED BY <1>1, <1>2, <1>3, PairingsNarrow

(***************************************************************************)
(* KeyPackage and Activate: the package a member finds is of the current    *)
(* epoch, and Activate insists that it is the one the client opened.        *)
(***************************************************************************)
LEMMA KeyPackageIInv ==
  ASSUME IInv, NEW t \in Tokens, NEW d \in DeviceIDs, KeyPackage(t, d)
  PROVE  IInv'
  <1>0. TypeOK /\ TablesMatchList /\ KeysReachMembers /\ OneIdentityPerToken /\ Support
    BY DEF IInv
  <1>a. /\ d \in Approved /\ packages[d] # NoPackage
        /\ held' = [held EXCEPT ![d] = packages[d]]
        /\ UNCHANGED <<vault, entries, devices, pairings, packages>>
    BY DEF KeyPackage, requireApproved
  <1>1. TypeOK'
    BY <1>0, <1>a DEF TypeOK
  <1>2. Approved' = Approved /\ Pending' = Pending
    BY <1>a DEF Approved, Pending
  <1>3. packages[d].epoch = vault.epoch
    BY <1>0, <1>a DEF Support
  <1>4. /\ held'[d] = packages[d]
        /\ \A x \in DeviceIDs : x # d => held'[x] = held[x]
    BY <1>0, <1>a DEF TypeOK
  <1>5. TablesMatchList'
    BY <1>0, <1>a DEF TablesMatchList
  <1>6. KeysReachMembers'
    <2>1. NoMemberStranded' /\ WaitingPackageOpens'
      BY <1>0, <1>a, <1>2 DEF KeysReachMembers, NoMemberStranded, WaitingPackageOpens
    <2>2. ActivatedHoldsKey'
      BY <1>0, <1>a, <1>2, <1>3, <1>4 DEF KeysReachMembers, ActivatedHoldsKey, Approved
    <2>3. ASSUME NEW i \in 1..Len(entries), entries[i].kind = "remove"
          PROVE  entries[i].subject # d
      BY <1>0, <1>a, <2>3 DEF TablesMatchList, Approved, Current, MemberAt, Removes
    <2>4. \A i \in 1..Len(entries) : entries[i].subject \in DeviceIDs
      BY <1>0, SubjectType
    <2>5. RemovedHoldsOldKeys'
      BY <1>0, <1>a, <1>4, <2>3, <2>4 DEF KeysReachMembers, RemovedHoldsOldKeys
    <2> QED BY <2>1, <2>2, <2>5 DEF KeysReachMembers
  <1>7. OneIdentityPerToken'
    BY <1>0, <1>a, <1>2 DEF OneIdentityPerToken
  <1>8. Support'
    BY <1>0, <1>a, <1>2, <1>3, <1>4, VaultType DEF Support
  <1> QED BY <1>1, <1>5, <1>6, <1>7, <1>8 DEF IInv

\* Activation records the epoch of the very package the device opened.
LEMMA ActivateIInv ==
  ASSUME IInv, NEW t \in Tokens, NEW d \in DeviceIDs, Activate(t, d, held[d])
  PROVE  IInv'
  <1>0. TypeOK /\ TablesMatchList /\ KeysReachMembers /\ OneIdentityPerToken /\ Support
    BY DEF IInv
  <1>a. /\ d \in Approved /\ packages[d] = held[d] /\ packages[d].epoch = vault.epoch
        /\ devices' = [devices EXCEPT ![d].activated = vault.epoch]
        /\ UNCHANGED <<vault, entries, pairings, packages, held>>
    BY DEF Activate, PackageTaken, requireApproved
  <1>1. TypeOK'
    BY <1>0, <1>a, VaultType, DeviceRowWrites, Zenon DEF TypeOK
  <1>2. /\ d \in Approved /\ devices'[d].activated = vault.epoch
        /\ \A x \in DeviceIDs : /\ devices'[x].state = devices[x].state
                                /\ devices'[x].token = devices[x].token
                                /\ devices'[x].key = devices[x].key
                                /\ devices'[x].added = devices[x].added
                                /\ x # d => devices'[x].activated = devices[x].activated
    BY <1>0, <1>a DEF TypeOK, DeviceRows
  <1>3. Approved' = Approved /\ Pending' = Pending
    BY <1>0, <1>a, <1>2 DEF Approved, Pending
  <1>4. TablesMatchList'
    BY <1>0, <1>a, <1>2 DEF TablesMatchList
  <1>5. KeysReachMembers'
    BY <1>0, <1>a, <1>2, <1>3 DEF KeysReachMembers, NoMemberStranded, WaitingPackageOpens,
                      ActivatedHoldsKey, RemovedHoldsOldKeys, Approved
  <1>6. OneIdentityPerToken'
    BY <1>0, <1>a, <1>2, <1>3 DEF OneIdentityPerToken, Approved, Pending
  <1>7. Support'
    BY <1>0, <1>a, <1>2, <1>3, VaultType DEF Support, Approved
  <1> QED BY <1>1, <1>4, <1>5, <1>6, <1>7 DEF IInv

-----------------------------------------------------------------------------
\* Only ids the list has used were removed: the conjunct of Support about the list.
RemovalsSeen ==
  \A i \in 1..Len(entries) : entries[i].kind = "remove" => Seen(entries, entries[i].subject)

(***************************************************************************)
(* The handlers that append an entry keep tables and list in agreement if   *)
(* they write to the device table what the entry says: the row it adds, the *)
(* state it removes, the key it sets.                                       *)
(***************************************************************************)
LEMMA AppendMatches ==
  ASSUME TypeOK, TablesMatchList, RemovalsSeen,
         NEW e \in Entries, entries' = Append(entries, e),
         vault'.head = Len(entries) + 1, vault'.epoch = e.epochAfter, vault'.exists = TRUE,
         \A x \in DeviceIDs : Adds(e, x) => ~Seen(entries, x),
         \A x \in DeviceIDs : Removes(e, x) => devices[x].state = "approved",
         \A x \in DeviceIDs :
           /\ devices'[x].state = "approved" <=>
                (devices[x].state = "approved" \/ Adds(e, x)) /\ ~Removes(e, x)
           /\ devices'[x].state # "none" <=> devices[x].state # "none" \/ Adds(e, x)
           /\ devices'[x].key = IF SetsKey(e, x) THEN e.key ELSE devices[x].key
           /\ devices'[x].added = IF Adds(e, x) THEN Len(entries) + 1 ELSE devices[x].added
  PROVE  TablesMatchList' /\ RemovalsSeen'
  <1>0. /\ entries \in Seq(Entries) /\ entries' # <<>> /\ Len(entries) \in Nat
        /\ Len(entries') = Len(entries) + 1 /\ entries'[Len(entries) + 1] = e
        /\ \A i \in 1..Len(entries) : entries'[i] = entries[i]
    BY AppendFacts DEF TypeOK
  <1>1. Epoch(entries') = e.epochAfter
    BY <1>0, EpochAppend
  <1>2. ASSUME NEW x \in DeviceIDs
        PROVE  /\ devices'[x].state = "approved" <=> x \in Current(entries')
               /\ devices'[x].state # "none" <=> Seen(entries', x)
               /\ devices'[x].state # "none" => /\ HasKey(entries', x, devices'[x].key)
                                                /\ devices'[x].added \in 1..Len(entries')
                                                /\ Adds(entries'[devices'[x].added], x)
    <2>1. Adds(e, x) => \A i \in 1..Len(entries) : ~Removes(entries[i], x)
      BY DEF RemovalsSeen, Removes
    <2>2. x \in Current(entries') <=> (x \in Current(entries) \/ Adds(e, x)) /\ ~Removes(e, x)
      BY <1>0, <2>1, CurrentAppend
    <2>3. Seen(entries', x) <=> Seen(entries, x) \/ Adds(e, x)
      BY <1>0, SeenAppend
    <2>4. devices'[x].state # "none" => HasKey(entries', x, devices'[x].key)
      <3>1. CASE SetsKey(e, x)
        BY <1>0, <3>1, HasKeyAppend
      <3>2. CASE ~SetsKey(e, x)
        <4>1. ~Adds(e, x)
          BY <3>2 DEF SetsKey, Adds
        <4> QED BY <1>0, <3>2, <4>1, HasKeyAppend DEF TablesMatchList
      <3> QED BY <3>1, <3>2
    <2>5. devices'[x].state # "none" => /\ devices'[x].added \in 1..Len(entries')
                                        /\ Adds(entries'[devices'[x].added], x)
      <3>1. CASE Adds(e, x)
        BY <1>0, <3>1
      <3>2. CASE ~Adds(e, x)
        BY <1>0, <3>2 DEF TablesMatchList
      <3> QED BY <3>1, <3>2
    <2> QED BY <2>2, <2>3, <2>4, <2>5 DEF TablesMatchList
  <1>3. TablesMatchList'
    BY <1>0, <1>1, <1>2 DEF TablesMatchList
  <1>4. RemovalsSeen'
    <2> SUFFICES ASSUME NEW i \in 1..Len(entries'), entries'[i].kind = "remove"
                 PROVE  Seen(entries', entries'[i].subject)
      BY DEF RemovalsSeen
    <2>1. CASE i \in 1..Len(entries)
      BY <1>0, <2>1, SeenAppend DEF RemovalsSeen
    <2>2. CASE i = Len(entries) + 1
      <3>1. e.subject \in DeviceIDs
        BY DEF Entries
      <3>2. Removes(e, e.subject)
        BY <1>0, <2>2 DEF Removes
      <3>3. Seen(entries, e.subject)
        BY <3>1, <3>2 DEF TablesMatchList
      <3> QED BY <1>0, <2>2, <3>3, SeenAppend
    <2> QED BY <1>0, <2>1, <2>2
  <1> QED BY <1>3, <1>4

(***************************************************************************)
(* CreateVault starts from empty tables.                                    *)
(***************************************************************************)
LEMMA CreateVaultIInv ==
  ASSUME IInv, NEW t \in Tokens, NEW d \in DeviceIDs, NEW k \in Keys, CreateVault(t, d, k)
  PROVE  IInv'
  <1> DEFINE e == [kind |-> "create", signer |-> d, subject |-> d, key |-> k, epochAfter |-> 1]
             row == [state |-> "approved", token |-> t, key |-> k, added |-> 1, activated |-> 1]
  <1>0. TypeOK /\ TablesMatchList /\ RemovalsSeen /\ Support
    BY DEF IInv, Support, RemovalsSeen
  <1>1. /\ ~vault.exists /\ vault' = [exists |-> TRUE, head |-> 1, epoch |-> 1]
        /\ entries' = Append(entries, e) /\ devices' = [devices EXCEPT ![d] = row]
        /\ held' = [held EXCEPT ![d] = [epoch |-> 1, entry |-> 1]]
        /\ UNCHANGED <<pairings, packages>>
    BY DEF CreateVault
  <1>2. /\ entries = <<>> /\ Len(entries) = 0 /\ vault.epoch = 0 /\ Pending = {}
        /\ \A x \in DeviceIDs : devices[x].state = "none"
    <2>1. entries = <<>> /\ Pending = {}
      BY <1>0, <1>1 DEF TablesMatchList, Support
    <2> QED BY <1>0, <2>1 DEF TablesMatchList, Seen, Epoch
  <1>3. Approved = {} /\ \A x \in DeviceIDs : packages[x] = NoPackage
    BY <1>0, <1>2 DEF Approved, Support
  <1>4. e \in Entries /\ row \in DeviceRows
    BY DEF Entries, DeviceRows
  <1>5. TypeOK'
    <2>1. entries' \in Seq(Entries)
      BY <1>0, <1>1, <1>4, AppendFacts DEF TypeOK
    <2>2. vault' \in VaultRows /\ [epoch |-> 1, entry |-> 1] \in PackageRows
      BY <1>1 DEF VaultRows, PackageRows
    <2> QED BY <1>0, <1>1, <1>4, <2>1, <2>2 DEF TypeOK
  <1>6. devices'[d] = row /\ \A x \in DeviceIDs : x # d => devices'[x] = devices[x]
    BY <1>0, <1>1 DEF TypeOK
  <1>7. Approved' = {d} /\ Pending' = {}
    BY <1>1, <1>2, <1>6 DEF Approved, Pending
  <1>8. TablesMatchList' /\ RemovalsSeen'
    <2>1. /\ \A x \in DeviceIDs : Adds(e, x) <=> x = d
          /\ \A x \in DeviceIDs : SetsKey(e, x) <=> x = d
          /\ \A x \in DeviceIDs : ~Removes(e, x)
      BY DEF Adds, SetsKey, Removes
    <2>2. ~Seen(entries, d)
      BY <1>2 DEF Seen
    <2> QED BY <1>0, <1>1, <1>2, <1>4, <1>6, <2>1, <2>2, AppendMatches
  <1>9. Len(entries') = 1 /\ entries'[1] = e
    BY <1>0, <1>1, <1>2, <1>4, AppendFacts DEF TypeOK
  <1>10. /\ held'[d] = [epoch |-> 1, entry |-> 1]
         /\ \A x \in DeviceIDs : x # d => held'[x] = held[x]
    BY <1>0, <1>1 DEF TypeOK
  <1>11. KeysReachMembers'
    BY <1>1, <1>6, <1>7, <1>9, <1>10
       DEF KeysReachMembers, NoMemberStranded, WaitingPackageOpens, ActivatedHoldsKey,
           RemovedHoldsOldKeys
  <1>12. OneIdentityPerToken'
    BY <1>7 DEF OneIdentityPerToken
  <1>13. Support'
    <2>1. \A x \in DeviceIDs : held'[x].epoch <= vault'.epoch
      <3>1. \A x \in DeviceIDs : held[x].epoch <= 0
        BY <1>0, <1>2 DEF Support
      <3>2. \A x \in DeviceIDs : held[x].epoch \in Nat
        BY <1>0 DEF TypeOK, PackageRows
      <3> QED BY <1>1, <1>10, <3>1, <3>2
    <2> QED BY <1>1, <1>3, <1>6, <1>7, <1>8, <2>1 DEF Support, RemovalsSeen
  <1> QED BY <1>5, <1>8, <1>11, <1>12, <1>13 DEF IInv

-----------------------------------------------------------------------------
(***************************************************************************)
(* Approve adds a device the list has never seen, under the token of its    *)
(* confirmed pairing, with a package for the current epoch.                 *)
(***************************************************************************)
LEMMA ApproveIInv ==
  ASSUME IInv, NEW t \in Tokens, NEW a \in DeviceIDs, NEW index, NEW d \in DeviceIDs,
         NEW k \in Keys, Approve(t, a, index, d, k)
  PROVE  IInv'
  <1> DEFINE e == [kind |-> "add", signer |-> a, subject |-> d, key |-> k,
                   epochAfter |-> vault.epoch]
             row == [state |-> "approved", token |-> pairings[d].token, key |-> k,
                     added |-> index, activated |-> 0]
             pkg == [epoch |-> vault.epoch, entry |-> index]
  <1>0. /\ TypeOK /\ TablesMatchList /\ RemovalsSeen /\ Support /\ KeysReachMembers
        /\ OneIdentityPerToken
    BY DEF IInv, Support, RemovalsSeen
  <1>1. /\ vault.exists /\ pairings[d].state = "confirmed" /\ index = vault.head + 1
        /\ entries' = Append(entries, e) /\ devices' = [devices EXCEPT ![d] = row]
        /\ packages' = [packages EXCEPT ![d] = pkg]
        /\ pairings' = [pairings EXCEPT ![d] = NoPairing]
        /\ vault' = [vault EXCEPT !.head = index] /\ UNCHANGED held
    BY DEF Approve, PutKeyPackage, DeletePairing, requireActivated, requireApproved
  <1>2. /\ index = Len(entries) + 1 /\ Len(entries) \in Nat /\ vault.epoch \in Nat
        /\ vault' = [exists |-> TRUE, head |-> index, epoch |-> vault.epoch]
    BY <1>0, <1>1, VaultType, Zenon DEF TablesMatchList, TypeOK, VaultRows
  <1>3. ~Seen(entries, d) /\ devices[d].state = "none" /\ d \in Pending
    BY <1>0, <1>1 DEF TablesMatchList, OneIdentityPerToken, Pending
  <1>4. e \in Entries /\ row \in DeviceRows /\ pkg \in PackageRows
    <2>1. pairings[d].token \in Tokens \cup {NoToken}
      BY <1>0 DEF TypeOK, PairingRows
    <2> QED BY <1>2, <2>1 DEF Entries, DeviceRows, PackageRows
  <1>5. TypeOK'
    <2>1. entries' \in Seq(Entries)
      BY <1>0, <1>1, <1>4, AppendFacts DEF TypeOK
    <2>2. vault' \in VaultRows
      BY <1>2 DEF VaultRows
    <2> QED BY <1>0, <1>1, <1>4, <2>1, <2>2, BlankRows DEF TypeOK
  <1>6. /\ devices'[d] = row /\ packages'[d] = pkg /\ pairings'[d] = NoPairing
        /\ \A x \in DeviceIDs : x # d => /\ devices'[x] = devices[x]
                                         /\ packages'[x] = packages[x]
                                         /\ pairings'[x] = pairings[x]
    BY <1>0, <1>1 DEF TypeOK
  <1>7. Approved' = Approved \cup {d} /\ Pending' = Pending \ {d} /\ d \notin Approved
    BY <1>3, <1>6 DEF Approved, Pending, NoPairing
  <1>8. TablesMatchList' /\ RemovalsSeen'
    <2>1. /\ \A x \in DeviceIDs : Adds(e, x) <=> x = d
          /\ \A x \in DeviceIDs : SetsKey(e, x) <=> x = d
          /\ \A x \in DeviceIDs : ~Removes(e, x)
      BY DEF Adds, SetsKey, Removes
    <2>2. \A x \in DeviceIDs :
            /\ devices'[x].state = "approved" <=>
                 (devices[x].state = "approved" \/ Adds(e, x)) /\ ~Removes(e, x)
            /\ devices'[x].state # "none" <=> devices[x].state # "none" \/ Adds(e, x)
            /\ devices'[x].key = IF SetsKey(e, x) THEN e.key ELSE devices[x].key
            /\ devices'[x].added = IF Adds(e, x) THEN Len(entries) + 1 ELSE devices[x].added
      <3> SUFFICES ASSUME NEW x \in DeviceIDs
                   PROVE  /\ devices'[x].state = "approved" <=>
                               (devices[x].state = "approved" \/ Adds(e, x)) /\ ~Removes(e, x)
                          /\ devices'[x].state # "none" <=> devices[x].state # "none" \/ Adds(e, x)
                          /\ devices'[x].key = IF SetsKey(e, x) THEN e.key ELSE devices[x].key
                          /\ devices'[x].added = IF Adds(e, x) THEN Len(entries) + 1
                                                 ELSE devices[x].added
        OBVIOUS
      <3>1. CASE x = d
        <4>1. /\ devices'[x].state = "approved" /\ devices'[x].key = e.key
              /\ devices'[x].added = Len(entries) + 1
          BY <1>2, <1>6, <3>1
        <4>2. Adds(e, x) /\ SetsKey(e, x) /\ ~Removes(e, x)
          BY <2>1, <3>1
        <4> HIDE DEF e, row, pkg
        <4> QED BY <4>1, <4>2
      <3>2. CASE x # d
        <4>1. devices'[x] = devices[x]
          BY <1>6, <3>2
        <4>2. ~Adds(e, x) /\ ~SetsKey(e, x) /\ ~Removes(e, x)
          BY <2>1, <3>2
        <4> HIDE DEF e, row, pkg
        <4> QED BY <4>1, <4>2
      <3> QED BY <3>1, <3>2
    <2>3. vault'.head = Len(entries) + 1 /\ vault'.epoch = e.epochAfter /\ vault'.exists = TRUE
      BY <1>2
    <2> HIDE DEF e
    <2> QED BY <1>0, <1>1, <1>3, <1>4, <2>1, <2>2, <2>3, AppendMatches, Zenon
  <1>9. /\ Len(entries') = Len(entries) + 1 /\ entries'[Len(entries) + 1] = e
        /\ \A i \in 1..Len(entries) : entries'[i] = entries[i]
    BY <1>0, <1>1, <1>4, AppendFacts DEF TypeOK
  <1>10. KeysReachMembers'
    <2>1. NoMemberStranded'
      BY <1>0, <1>2, <1>6, <1>7 DEF KeysReachMembers, NoMemberStranded, Approved
    <2>2. WaitingPackageOpens'
      <3> SUFFICES ASSUME NEW x \in Approved', devices'[x].activated # vault'.epoch,
                          NEW i \in (packages'[x].entry + 1)..Len(entries')
                   PROVE  ~SetsKey(entries'[i], x)
        BY DEF WaitingPackageOpens
      <3>1. CASE x = d
        BY <1>2, <1>6, <1>9, <3>1
      <3>2. CASE x # d
        <4>1. x \in Approved /\ x \in DeviceIDs /\ packages'[x] = packages[x]
          BY <1>6, <1>7, <3>2 DEF Approved
        <4>2. devices[x].activated # vault.epoch /\ packages[x].entry \in Nat
          BY <1>0, <1>2, <1>6, <3>2, <4>1, Zenon DEF TypeOK, PackageRows
        <4>3. ~SetsKey(e, x)
          BY <3>2 DEF SetsKey
        <4> QED BY <1>0, <1>2, <1>9, <4>1, <4>2, <4>3 DEF KeysReachMembers, WaitingPackageOpens
      <3> QED BY <3>1, <3>2
    <2>3. ActivatedHoldsKey'
      <3>1. vault.epoch # 0
        BY <1>1 DEF Approve, Extends, Validate
      <3> QED BY <1>0, <1>1, <1>2, <1>6, <1>7, <3>1 DEF KeysReachMembers, ActivatedHoldsKey, Approved
    <2>4. RemovedHoldsOldKeys'
      <3> SUFFICES ASSUME NEW i \in 1..Len(entries'), entries'[i].kind = "remove",
                          entries'[i].signer # entries'[i].subject
                   PROVE  /\ held'[entries'[i].subject].epoch < entries'[i].epochAfter
                          /\ packages'[entries'[i].subject] = NoPackage
        BY DEF RemovedHoldsOldKeys
      <3>1. i \in 1..Len(entries) /\ entries'[i] = entries[i]
        BY <1>2, <1>9
      <3>2. entries[i].subject # d /\ entries[i].subject \in DeviceIDs
        BY <1>0, <1>3, <3>1, SubjectType DEF RemovalsSeen
      <3>3. /\ held' = held
            /\ packages'[entries[i].subject] = packages[entries[i].subject]
        BY <1>1, <1>6, <3>2
      <3> HIDE DEF e, row, pkg
      <3>4. /\ held[entries[i].subject].epoch < entries[i].epochAfter
            /\ packages[entries[i].subject] = NoPackage
        BY <1>0, <3>1 DEF KeysReachMembers, RemovedHoldsOldKeys
      <3> QED BY <3>1, <3>3, <3>4
    <2> QED BY <2>1, <2>2, <2>3, <2>4 DEF KeysReachMembers
  <1>11. OneIdentityPerToken'
    <2>1. devices'[d].token = pairings[d].token
      BY <1>6
    <2> HIDE DEF e, row, pkg
    <2>2. \A x \in Approved' : x = d \/ (x \in Approved /\ devices'[x] = devices[x])
      BY <1>6, <1>7 DEF Approved
    <2>3. \A y \in Pending' : /\ y \in Pending /\ y # d
                              /\ pairings'[y] = pairings[y] /\ devices'[y] = devices[y]
      BY <1>6, <1>7 DEF Pending
    <2>4. \A x, y \in Approved' : devices'[x].token = devices'[y].token => x = y
      BY <1>0, <1>3, <2>1, <2>2 DEF OneIdentityPerToken
    <2>5. \A x \in Approved', y \in Pending' : devices'[x].token # pairings'[y].token
      BY <1>0, <1>3, <2>1, <2>2, <2>3 DEF OneIdentityPerToken
    <2>6. /\ \A x, y \in Pending' : pairings'[x].token = pairings'[y].token => x = y
          /\ \A y \in Pending' : devices'[y].state = "none"
      BY <1>0, <2>3 DEF OneIdentityPerToken
    <2> QED BY <2>4, <2>5, <2>6 DEF OneIdentityPerToken
  <1>12. Support'
    <2>1. \A x \in DeviceIDs : packages'[x] # NoPackage =>
            /\ x \in Approved' /\ packages'[x].epoch = vault'.epoch
            /\ packages'[x].entry \in 1..Len(entries')
      BY <1>0, <1>2, <1>6, <1>7, <1>9 DEF Support
    <2>2. \A x \in Approved' : devices'[x].activated <= vault'.epoch
      <3> TAKE x \in Approved'
      <3>1. vault'.epoch = vault.epoch /\ vault.epoch \in Nat
        BY <1>2
      <3>2. CASE x = d
        <4>1. devices'[x].activated = 0
          BY <1>6, <3>2
        <4> HIDE DEF e, row, pkg
        <4> QED BY <3>1, <4>1
      <3>3. CASE x # d
        <4> HIDE DEF e, row, pkg
        <4>1. x \in Approved /\ devices'[x] = devices[x]
          BY <1>6, <1>7, <3>3 DEF Approved
        <4> QED BY <1>0, <3>1, <4>1 DEF Support
      <3> QED BY <3>2, <3>3
    <2> QED BY <1>0, <1>1, <1>2, <1>8, <2>1, <2>2 DEF Support, RemovalsSeen
  <1> QED BY <1>5, <1>8, <1>10, <1>11, <1>12 DEF IInv

(***************************************************************************)
(* UpgradeKey is for a device that has activated, so no package waits for   *)
(* the key it gives up.                                                     *)
(***************************************************************************)
LEMMA UpgradeKeyIInv ==
  ASSUME IInv, NEW t \in Tokens, NEW a \in DeviceIDs, NEW index, NEW k \in Keys,
         UpgradeKey(t, a, index, k)
  PROVE  IInv'
  <1> DEFINE e == [kind |-> "key", signer |-> a, subject |-> a, key |-> k,
                   epochAfter |-> vault.epoch]
  <1>0. /\ TypeOK /\ TablesMatchList /\ RemovalsSeen /\ Support /\ KeysReachMembers
        /\ OneIdentityPerToken
    BY DEF IInv, Support, RemovalsSeen
  <1>1. /\ vault.exists /\ a \in Approved /\ devices[a].activated = vault.epoch
        /\ index = vault.head + 1 /\ entries' = Append(entries, e)
        /\ devices' = [devices EXCEPT ![a].key = k] /\ vault' = [vault EXCEPT !.head = index]
        /\ UNCHANGED <<pairings, packages, held>>
    BY DEF UpgradeKey, requireActivated, requireApproved
  <1>2. /\ index = Len(entries) + 1 /\ Len(entries) \in Nat /\ vault.epoch \in Nat
        /\ vault' = [exists |-> TRUE, head |-> index, epoch |-> vault.epoch]
    BY <1>0, <1>1, VaultType, Zenon DEF TablesMatchList, TypeOK, VaultRows
  <1>3. e \in Entries
    BY <1>2 DEF Entries
  <1>4. TypeOK'
    <2>1. entries' \in Seq(Entries)
      BY <1>0, <1>1, <1>3, AppendFacts DEF TypeOK
    <2>2. vault' \in VaultRows
      BY <1>2 DEF VaultRows
    <2>3. devices' \in [DeviceIDs -> DeviceRows]
      BY <1>0, <1>1, DeviceRowWrites, Zenon DEF TypeOK
    <2> QED BY <1>0, <1>1, <2>1, <2>2, <2>3 DEF TypeOK
  <1>5. /\ devices'[a].key = k
        /\ \A x \in DeviceIDs : /\ devices'[x].state = devices[x].state
                                /\ devices'[x].token = devices[x].token
                                /\ devices'[x].added = devices[x].added
                                /\ devices'[x].activated = devices[x].activated
                                /\ x # a => devices'[x] = devices[x]
    BY <1>0, <1>1 DEF TypeOK, DeviceRows
  <1>6. Approved' = Approved /\ Pending' = Pending
    BY <1>1, <1>5 DEF Approved, Pending
  <1>7. TablesMatchList' /\ RemovalsSeen'
    <2>1. /\ \A x \in DeviceIDs : ~Adds(e, x) /\ ~Removes(e, x)
          /\ \A x \in DeviceIDs : SetsKey(e, x) <=> x = a
      BY DEF Adds, SetsKey, Removes
    <2>2. \A x \in DeviceIDs :
            /\ devices'[x].state = "approved" <=>
                 (devices[x].state = "approved" \/ Adds(e, x)) /\ ~Removes(e, x)
            /\ devices'[x].state # "none" <=> devices[x].state # "none" \/ Adds(e, x)
            /\ devices'[x].key = IF SetsKey(e, x) THEN e.key ELSE devices[x].key
            /\ devices'[x].added = IF Adds(e, x) THEN Len(entries) + 1 ELSE devices[x].added
      BY <1>5, <2>1
    <2>3. vault'.head = Len(entries) + 1 /\ vault'.epoch = e.epochAfter /\ vault'.exists = TRUE
      BY <1>2
    <2> HIDE DEF e
    <2> QED BY <1>0, <1>1, <1>3, <2>1, <2>2, <2>3, AppendMatches, Zenon
  <1>8. /\ Len(entries') = Len(entries) + 1 /\ entries'[Len(entries) + 1] = e
        /\ \A i \in 1..Len(entries) : entries'[i] = entries[i]
    BY <1>0, <1>1, <1>3, AppendFacts DEF TypeOK
  <1>9. KeysReachMembers'
    <2>1. NoMemberStranded' /\ ActivatedHoldsKey'
      BY <1>0, <1>1, <1>2, <1>5, <1>6
         DEF KeysReachMembers, NoMemberStranded, ActivatedHoldsKey, Approved
    <2>2. WaitingPackageOpens'
      <3> SUFFICES ASSUME NEW x \in Approved, devices[x].activated # vault.epoch,
                          NEW i \in (packages[x].entry + 1)..Len(entries')
                   PROVE  ~SetsKey(entries'[i], x)
        BY <1>1, <1>2, <1>5, <1>6, Zenon DEF WaitingPackageOpens, Approved
      <3>1. x # a /\ x \in DeviceIDs
        BY <1>1 DEF Approved
      <3>2. packages[x].entry \in Nat /\ ~SetsKey(e, x)
        BY <1>0, <3>1 DEF TypeOK, PackageRows, SetsKey
      <3> HIDE DEF e
      <3>3. CASE i = Len(entries) + 1
        BY <1>8, <3>2, <3>3
      <3>4. CASE i # Len(entries) + 1
        <4>1. i \in (packages[x].entry + 1)..Len(entries) /\ entries'[i] = entries[i]
          BY <1>2, <1>8, <3>2, <3>4
        <4> QED BY <1>0, <4>1 DEF KeysReachMembers, WaitingPackageOpens
      <3> QED BY <3>3, <3>4
    <2>3. RemovedHoldsOldKeys'
      BY <1>0, <1>1, <1>2, <1>8 DEF KeysReachMembers, RemovedHoldsOldKeys
    <2> QED BY <2>1, <2>2, <2>3 DEF KeysReachMembers
  <1>10. OneIdentityPerToken'
    BY <1>0, <1>1, <1>5, <1>6 DEF OneIdentityPerToken, Approved, Pending
  <1>11. Support'
    BY <1>0, <1>1, <1>2, <1>5, <1>6, <1>7, <1>8 DEF Support, RemovalsSeen, Approved
  <1> QED BY <1>4, <1>7, <1>9, <1>10, <1>11 DEF IInv

-----------------------------------------------------------------------------
(***************************************************************************)
(* Remove and Rotate: the epoch moves on, and the packages go to exactly    *)
(* the members the extended list is left with, less the one who made them.  *)
(***************************************************************************)
LEMMA RekeyIInv ==
  ASSUME IInv, NEW t \in Tokens, NEW a \in DeviceIDs, NEW index,
         NEW kind \in {"remove", "rotate"}, NEW subject \in DeviceIDs, NEW epochAfter,
         NEW recipients, rekey(t, a, index, kind, subject, epochAfter, recipients)
  PROVE  IInv'
  <1> DEFINE e == [kind |-> kind, signer |-> a, subject |-> subject, key |-> NoKey,
                   epochAfter |-> epochAfter]
             removed == IF kind = "remove" THEN {subject} ELSE {}
             pkg == [epoch |-> epochAfter, entry |-> index]
  <1>0. /\ TypeOK /\ TablesMatchList /\ RemovalsSeen /\ Support /\ KeysReachMembers
        /\ OneIdentityPerToken
    BY Zenon DEF IInv, Support, RemovalsSeen
  <1>1. /\ vault.exists /\ a \in Approved /\ devices[a].activated = vault.epoch
        /\ index = vault.head + 1 /\ Extends(entries, index, e)
        /\ recipients = Current(Append(entries, e)) \ {a}
        /\ packages' = [d \in DeviceIDs |-> IF d \in recipients THEN pkg ELSE NoPackage]
        /\ entries' = Append(entries, e)
        /\ devices' = [d \in DeviceIDs |->
             IF d \in removed THEN [devices[d] EXCEPT !.state = "revoked"]
             ELSE IF d = a THEN [devices[d] EXCEPT !.activated = epochAfter]
             ELSE devices[d]]
        /\ pairings' = [d \in DeviceIDs |-> NoPairing]
        /\ vault' = [exists |-> TRUE, head |-> index, epoch |-> epochAfter]
        /\ held' = [held EXCEPT ![a] = pkg]
    BY DEF rekey, RekeyedRow, PackagesComplete, requireActivated, requireApproved
  <1>2. index = Len(entries) + 1 /\ Len(entries) \in Nat /\ vault.epoch \in Nat /\ index # 1
    <2>1. entries # <<>> /\ index = Len(entries) + 1
      BY <1>0, <1>1 DEF TablesMatchList
    <2> QED BY <1>0, <2>1, VaultType DEF TypeOK
  <1>3. epochAfter = vault.epoch + 1 /\ (kind = "remove" => subject \in Approved)
    <2>1. extendRemove(entries, e) \/ extendRotate(entries, e)
      BY <1>1, <1>2 DEF Extends, extendAdd, extendKey
    <2>2. epochAfter = Epoch(entries) + 1 /\ (kind = "remove" => subject \in Current(entries))
      BY <2>1 DEF extendRemove, extendRotate
    <2> QED BY <1>0, <2>2 DEF TablesMatchList, Approved
  <1>4. vault' = [exists |-> TRUE, head |-> index, epoch |-> epochAfter] /\ epochAfter \in Nat
    BY <1>1, <1>2, <1>3
  <1>5. e \in Entries /\ pkg \in PackageRows
    BY <1>2, <1>4 DEF Entries, PackageRows
  <1>6. TypeOK'
    <2>1. entries' \in Seq(Entries)
      BY <1>0, <1>1, <1>5, AppendFacts DEF TypeOK
    <2>2. vault' \in VaultRows
      BY <1>2, <1>4 DEF VaultRows
    <2>3. devices' \in [DeviceIDs -> DeviceRows]
      BY <1>0, <1>1, <1>4, DeviceRowWrites DEF TypeOK
    <2> QED BY <1>0, <1>1, <1>5, <2>1, <2>2, <2>3, BlankRows, Zenon DEF TypeOK
  <1>7. \A x \in DeviceIDs :
          /\ devices'[x].state = IF x \in removed THEN "revoked" ELSE devices[x].state
          /\ devices'[x].token = devices[x].token
          /\ devices'[x].key = devices[x].key
          /\ devices'[x].added = devices[x].added
          /\ x \notin removed => devices'[x].activated = IF x = a THEN epochAfter
                                                        ELSE devices[x].activated
    BY <1>0, <1>1 DEF TypeOK, DeviceRows
  <1>8. Approved' = Approved \ removed /\ Pending' = {}
    BY <1>1, <1>7 DEF Approved, Pending, NoPairing
  <1>9. TablesMatchList' /\ RemovalsSeen'
    <2>1. \A x \in DeviceIDs : /\ ~Adds(e, x) /\ ~SetsKey(e, x)
                               /\ Removes(e, x) <=> x \in removed
      BY DEF Adds, SetsKey, Removes
    <2>2. \A x \in removed : devices[x].state = "approved"
      BY <1>3 DEF Approved
    <2>3. \A x \in DeviceIDs :
            /\ devices'[x].state = "approved" <=>
                 (devices[x].state = "approved" \/ Adds(e, x)) /\ ~Removes(e, x)
            /\ devices'[x].state # "none" <=> devices[x].state # "none" \/ Adds(e, x)
            /\ devices'[x].key = IF SetsKey(e, x) THEN e.key ELSE devices[x].key
            /\ devices'[x].added = IF Adds(e, x) THEN Len(entries) + 1 ELSE devices[x].added
      BY <1>7, <2>1, <2>2
    <2>4. vault'.head = Len(entries) + 1 /\ vault'.epoch = e.epochAfter /\ vault'.exists = TRUE
      BY <1>2, <1>4
    <2> HIDE DEF e
    <2> QED BY <1>0, <1>1, <1>5, <2>1, <2>2, <2>3, <2>4, AppendMatches
  <1>10. /\ Len(entries') = Len(entries) + 1 /\ entries'[Len(entries) + 1] = e
         /\ \A i \in 1..Len(entries) : entries'[i] = entries[i]
    BY <1>0, <1>1, <1>5, AppendFacts DEF TypeOK
  <1>11. recipients = Approved' \ {a}
    BY <1>1, <1>9 DEF TablesMatchList, Approved, Current
  <1>12. /\ \A x \in DeviceIDs : packages'[x] = IF x \in Approved' \ {a} THEN pkg ELSE NoPackage
         /\ held'[a] = pkg /\ \A x \in DeviceIDs : x # a => held'[x] = held[x]
    BY <1>0, <1>1, <1>11 DEF TypeOK
  <1>13. KeysReachMembers'
    <2>1. NoMemberStranded'
      BY <1>4, <1>7, <1>8, <1>12 DEF NoMemberStranded, Approved
    <2>2. WaitingPackageOpens'
      <3> SUFFICES ASSUME NEW x \in Approved', devices'[x].activated # vault'.epoch
                   PROVE  (packages'[x].entry + 1)..Len(entries') = {}
        BY DEF WaitingPackageOpens
      <3>1. x \in DeviceIDs /\ x # a
        BY <1>4, <1>7, <1>8 DEF Approved
      <3> QED BY <1>2, <1>10, <1>12, <3>1
    <2>3. ActivatedHoldsKey'
      <3> SUFFICES ASSUME NEW x \in Approved', devices'[x].activated = epochAfter
                   PROVE  held'[x].epoch = epochAfter
        BY <1>4 DEF ActivatedHoldsKey
      <3>1. CASE x = a
        BY <1>12, <3>1
      <3>2. CASE x # a
        <4>1. x \in Approved /\ devices[x].activated = epochAfter
          BY <1>7, <1>8, <3>2 DEF Approved
        <4>2. devices[x].activated <= vault.epoch
          BY <1>0, <4>1 DEF Support
        <4> QED BY <1>2, <1>3, <4>1, <4>2
      <3> QED BY <3>1, <3>2
    <2>4. RemovedHoldsOldKeys'
      <3> SUFFICES ASSUME NEW i \in 1..Len(entries'), entries'[i].kind = "remove",
                          entries'[i].signer # entries'[i].subject
                   PROVE  /\ held'[entries'[i].subject].epoch < entries'[i].epochAfter
                          /\ packages'[entries'[i].subject] = NoPackage
        BY DEF RemovedHoldsOldKeys
      <3>1. CASE i \in 1..Len(entries)
        <4>1. entries'[i] = entries[i] /\ entries[i].subject \in DeviceIDs
          BY <1>0, <1>10, <3>1, SubjectType
        <4>2. entries[i].subject \notin Approved
          BY <1>0, <3>1, <4>1 DEF TablesMatchList, Approved, Current, MemberAt, Removes
        <4> QED BY <1>0, <1>1, <1>8, <1>12, <3>1, <4>1, <4>2
                DEF KeysReachMembers, RemovedHoldsOldKeys
      <3>2. CASE i = Len(entries) + 1
        <4>1. kind = "remove" /\ entries'[i].subject = subject /\ a # subject
              /\ entries'[i].epochAfter = vault.epoch + 1
          BY <1>3, <1>10, <3>2
        <4>2. subject \notin Approved'
          BY <1>8, <4>1
        <4>3. held[subject].epoch <= vault.epoch /\ held[subject].epoch \in Nat
          BY <1>0 DEF Support, TypeOK, PackageRows
        <4>4. held'[subject] = held[subject] /\ packages'[subject] = NoPackage
          BY <1>12, <4>1, <4>2
        <4> HIDE DEF e, removed, pkg
        <4> QED BY <1>2, <4>1, <4>3, <4>4
      <3> QED BY <1>2, <1>10, <3>1, <3>2
    <2> QED BY <2>1, <2>2, <2>3, <2>4 DEF KeysReachMembers
  <1>14. OneIdentityPerToken'
    BY <1>0, <1>7, <1>8 DEF OneIdentityPerToken, Approved
  <1>15. Support'
    <2>1. \A x \in DeviceIDs : packages'[x] # NoPackage =>
            /\ x \in Approved' /\ packages'[x].epoch = vault'.epoch
            /\ packages'[x].entry \in 1..Len(entries')
      BY <1>2, <1>4, <1>10, <1>12
    <2>2. \A x \in DeviceIDs : held'[x].epoch <= vault'.epoch
      <3> TAKE x \in DeviceIDs
      <3>1. held[x].epoch \in Nat /\ held[x].epoch <= vault.epoch
        BY <1>0 DEF Support, TypeOK, PackageRows
      <3> QED BY <1>2, <1>3, <1>4, <1>12, <3>1
    <2>3. \A x \in Approved' : devices'[x].activated <= vault'.epoch
      <3> TAKE x \in Approved'
      <3>1. x \in Approved /\ x \notin removed /\ x \in DeviceIDs
        BY <1>8 DEF Approved
      <3>2. devices[x].activated \in Nat /\ devices[x].activated <= vault.epoch
        BY <1>0, <3>1 DEF Support, TypeOK, DeviceRows
      <3>3. devices'[x].activated = IF x = a THEN epochAfter ELSE devices[x].activated
        BY <1>7, <3>1
      <3>4. vault'.epoch = epochAfter
        BY <1>4
      <3> HIDE DEF e, removed, pkg
      <3> QED BY <1>2, <1>3, <3>2, <3>3, <3>4
    <2> QED BY <1>4, <1>9, <2>1, <2>2, <2>3 DEF Support, RemovalsSeen
  <1> QED BY <1>6, <1>9, <1>13, <1>14, <1>15 DEF IInv
=============================================================================
