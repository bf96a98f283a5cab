--------------------------- MODULE SyncMembership ---------------------------
(***************************************************************************)
(* Who may write to a vault: the membership half of the sync service        *)
(* (internal/syncsvc/service.go).  One owner's vault, its device table,     *)
(* pairings and key packages, and the chain of signed device-list entries   *)
(* they must agree with.                                                    *)
(*                                                                          *)
(* Every handler is one serializable transaction, so one action; a request  *)
(* that fails leaves the tables as they were and is no step.  A request is  *)
(* the token t of the connection it comes in on, the device d that token    *)
(* resolves to, and what the client signed: the list index, epoch, key and  *)
(* recipients it saw when it signed, any of which may be stale by now.      *)
(* Request signatures and nonces are in RequestNonces, wall-clock time is   *)
(* the event that a pairing's ExpiresAt passes.                             *)
(*                                                                          *)
(* held is the clients' side: the key package each device last opened (or   *)
(* made for itself), which is what Activate claims to have taken.           *)
(***************************************************************************)
EXTENDS DeviceList

CONSTANTS Tokens,             \* authenticated connections (Caller.TokenDeviceID)
          NoToken,
          MaxPendingPairings

ASSUME TokensAssumption == NoToken \notin Tokens

ASSUME PairingBound == MaxPendingPairings \in Nat \ {0}

VARIABLES vault,     \* [exists, head, epoch]: the vaults row
          entries,   \* the stored device list
          devices,   \* device table, by device id
          pairings,  \* pairing table, by device id
          packages,  \* key package waiting for each device
          held       \* key package each client last opened or made

memberVars == <<vault, entries, devices, pairings, packages, held>>

NoVault == [exists |-> FALSE, head |-> 0, epoch |-> 0]
NoDevice == [state |-> "none", token |-> NoToken, key |-> NoKey, added |-> 0, activated |-> 0]
NoPairing == [state |-> "none", token |-> NoToken, key |-> NoKey, expired |-> FALSE]
NoPackage == [epoch |-> 0, entry |-> 0]

VaultRows == [exists : BOOLEAN, head : Nat, epoch : Nat]
DeviceRows == [state : {"none", "approved", "revoked"}, token : Tokens \cup {NoToken},
               key : Keys \cup {NoKey}, added : Nat, activated : Nat]
PairingRows == [state : {"none", "offered", "answered", "confirmed"},
                token : Tokens \cup {NoToken}, key : Keys \cup {NoKey}, expired : BOOLEAN]
PackageRows == [epoch : Nat, entry : Nat]

(***************************************************************************)
(* Each table holds rows with the columns the code gives them.              *)
(***************************************************************************)
TypeOK ==
  /\ vault \in VaultRows
  /\ entries \in Seq(Entries)
  /\ devices \in [DeviceIDs -> DeviceRows]
  /\ pairings \in [DeviceIDs -> PairingRows]
  /\ packages \in [DeviceIDs -> PackageRows]
  /\ held \in [DeviceIDs -> PackageRows]

Approved == {d \in DeviceIDs : devices[d].state = "approved"}
Pending == {d \in DeviceIDs : pairings[d].state # "none"}

-----------------------------------------------------------------------------
(***************************************************************************)
(* Who is calling: actorFor finds the token's device that is not revoked,   *)
(* else its unexpired pairing; requireApproved and requireActivated then    *)
(* say what such a caller may do.                                           *)
(***************************************************************************)
requireApproved(t, d) ==
  vault.exists /\ d \in Approved /\ devices[d].token = t

requireActivated(t, d) ==
  requireApproved(t, d) /\ devices[d].activated = vault.epoch

PairingActor(t, d) ==
  /\ vault.exists
  /\ ~ \E x \in Approved : devices[x].token = t
  /\ d \in Pending /\ pairings[d].token = t /\ ~pairings[d].expired

\* The store's unique index on (vault, token) over devices that are not revoked.
PutDeviceAllowed(d, t) == ~ \E x \in Approved \ {d} : devices[x].token = t

PurgeExpired(table) == [d \in DeviceIDs |-> IF table[d].expired THEN NoPairing ELSE table[d]]

DeleteVault ==
  /\ vault' = NoVault
  /\ entries' = <<>>
  /\ devices' = [d \in DeviceIDs |-> NoDevice]
  /\ pairings' = [d \in DeviceIDs |-> NoPairing]
  /\ packages' = [d \in DeviceIDs |-> NoPackage]
  /\ held' = [d \in DeviceIDs |-> NoPackage]

-----------------------------------------------------------------------------
CreateVault(t, d, k) ==
  LET e == [kind |-> "create", signer |-> d, subject |-> d, key |-> k, epochAfter |-> 1]
  IN  /\ ~vault.exists
      /\ Extends(<<>>, 1, e)
      /\ vault' = [exists |-> TRUE, head |-> 1, epoch |-> 1]
      /\ entries' = Append(entries, e)
      /\ devices' = [devices EXCEPT ![d] =
           [state |-> "approved", token |-> t, key |-> k, added |-> 1, activated |-> 1]]
      /\ held' = [held EXCEPT ![d] = [epoch |-> 1, entry |-> 1]]
      /\ UNCHANGED <<pairings, packages>>

DropEarlier(t) ==
  [x \in DeviceIDs |-> IF pairings[x].token = t THEN NoPairing ELSE pairings[x]]

RoomToPair(table) ==
  Cardinality({x \in DeviceIDs : table[x].state # "none"}) < MaxPendingPairings

\* A new offer replaces the token's earlier pairing, and any pairing of the same device id.
BeginPairing(t, d, k) ==
  LET live == PurgeExpired(DropEarlier(t))
  IN  /\ vault.exists
      /\ ~ \E x \in Approved : devices[x].token = t
      /\ devices[d].state = "none"
      /\ RoomToPair(live)
      /\ pairings' = [live EXCEPT ![d] =
           [state |-> "offered", token |-> t, key |-> k, expired |-> FALSE]]
      /\ UNCHANGED <<vault, entries, devices, packages, held>>

AnswerPairing(t, a, d) ==
  /\ requireActivated(t, a)
  /\ pairings[d].state = "offered" /\ ~pairings[d].expired
  /\ pairings' = [pairings EXCEPT ![d].state = "answered"]
  /\ UNCHANGED <<vault, entries, devices, packages, held>>

ConfirmPairing(t, d) ==
  /\ PairingActor(t, d)
  /\ pairings[d].state = "answered"
  /\ pairings' = [pairings EXCEPT ![d].state = "confirmed"]
  /\ UNCHANGED <<vault, entries, devices, packages, held>>

DeletePairing(d) == [pairings EXCEPT ![d] = NoPairing]

\* The pairing connection withdraws its own offer; a member withdraws anyone's.
CancelPairing(t, d) ==
  /\ \/ PairingActor(t, d)
     \/ \E a \in DeviceIDs : requireApproved(t, a)
  /\ pairings' = DeletePairing(d)
  /\ UNCHANGED <<vault, entries, devices, packages, held>>

\* Mutant: the new member's package is not stored.
ForgetKeyPackage(d, index) == packages

PutKeyPackage(d, index) == [packages EXCEPT ![d] = [epoch |-> vault.epoch, entry |-> index]]

Approve(t, a, index, d, k) ==
  LET e == [kind |-> "add", signer |-> a, subject |-> d, key |-> k, epochAfter |-> vault.epoch]
  IN  /\ requireActivated(t, a)
      /\ pairings[d].state = "confirmed" /\ ~pairings[d].expired
      /\ pairings[d].key = k
      /\ index = vault.head + 1
      /\ Extends(entries, index, e)
      /\ PutDeviceAllowed(d, pairings[d].token)
      /\ entries' = Append(entries, e)
      /\ devices' = [devices EXCEPT ![d] =
           [state |-> "approved", token |-> pairings[d].token, key |-> k,
            added |-> index, activated |-> 0]]
      /\ packages' = PutKeyPackage(d, index)
      /\ pairings' = DeletePairing(d)
      /\ vault' = [vault EXCEPT !.head = index]
      /\ UNCHANGED held

\* The client downloads and opens the package waiting for it.
KeyPackage(t, d) ==
  /\ requireApproved(t, d)
  /\ packages[d] # NoPackage
  /\ held' = [held EXCEPT ![d] = packages[d]]
  /\ UNCHANGED <<vault, entries, devices, pairings, packages>>

PackageTaken(d, opened) ==
  packages[d] # NoPackage /\ packages[d].epoch = vault.epoch /\ packages[d] = opened

\* The client names, by digest, the package it opened.
Activate(t, d, opened) ==
  /\ requireApproved(t, d)
  /\ PackageTaken(d, opened)
  /\ devices' = [devices EXCEPT ![d].activated = vault.epoch]
  /\ UNCHANGED <<vault, entries, pairings, packages, held>>

\* Mutant: the packages are counted, not matched with the members that stay.
PackagesCounted(list, a, recipients) ==
  Cardinality(recipients) = Cardinality(Current(list) \ {a})

PackagesComplete(list, a, recipients) == recipients = Current(list) \ {a}

\* Mutant: the actor's case comes first, so a device that leaves stays approved.
ActorRowFirst(d, a, e) ==
  IF d = a THEN [devices[d] EXCEPT !.activated = e.epochAfter]
  ELSE IF e.kind = "remove" /\ d = e.subject THEN [devices[d] EXCEPT !.state = "revoked"]
  ELSE devices[d]

\* Mutant: every other row is written, not only the actor's.
EveryRow(d, a, e) ==
  IF e.kind = "remove" /\ d = e.subject THEN [devices[d] EXCEPT !.state = "revoked"]
  ELSE [devices[d] EXCEPT !.activated = e.epochAfter]

RekeyedRow(d, a, e) ==
  IF e.kind = "remove" /\ d = e.subject THEN [devices[d] EXCEPT !.state = "revoked"]
  ELSE IF d = a THEN [devices[d] EXCEPT !.activated = e.epochAfter]
  ELSE devices[d]

\* Remove and Rotate: the whole vault moves to a new epoch, with a package for every
\* member that stays.  recipients are the devices the signed packages are addressed to.
rekey(t, a, index, kind, subject, epochAfter, recipients) ==
  LET e == [kind |-> kind, signer |-> a, subject |-> subject, key |-> NoKey,
            epochAfter |-> epochAfter]
      list == Append(entries, e)
      made == [epoch |-> epochAfter, entry |-> index]
  IN  /\ requireActivated(t, a)
      /\ index = vault.head + 1
      /\ Extends(entries, index, e)
      /\ PackagesComplete(list, a, recipients)
      /\ packages' = [d \in DeviceIDs |-> IF d \in recipients THEN made ELSE NoPackage]
      /\ entries' = list
      /\ devices' = [d \in DeviceIDs |-> RekeyedRow(d, a, e)]
      /\ pairings' = [d \in DeviceIDs |-> NoPairing]
      /\ vault' = [exists |-> TRUE, head |-> index, epoch |-> epochAfter]
      /\ held' = [held EXCEPT ![a] = made]

Remove(t, a, index, subject, epochAfter, recipients) ==
  rekey(t, a, index, "remove", subject, epochAfter, recipients)

Rotate(t, a, index, epochAfter, recipients) ==
  rekey(t, a, index, "rotate", a, epochAfter, recipients)

UpgradeKey(t, a, index, k) ==
  LET e == [kind |-> "key", signer |-> a, subject |-> a, key |-> k, epochAfter |-> vault.epoch]
  IN  /\ requireActivated(t, a)
      /\ index = vault.head + 1
      /\ Extends(entries, index, e)
      /\ entries' = Append(entries, e)
      /\ devices' = [devices EXCEPT ![a].key = k]
      /\ vault' = [vault EXCEPT !.head = index]
      /\ UNCHANGED <<pairings, packages, held>>

Reset(t, d, epoch) ==
  /\ requireApproved(t, d)
  /\ epoch = vault.epoch
  /\ DeleteVault

AdminReset == vault.exists /\ DeleteVault

PairingLapses(d) ==
  /\ d \in Pending /\ ~pairings[d].expired
  /\ pairings' = [pairings EXCEPT ![d].expired = TRUE]
  /\ UNCHANGED <<vault, entries, devices, packages, held>>

Maintain ==
  /\ pairings' = PurgeExpired(pairings)
  /\ UNCHANGED <<vault, entries, devices, packages, held>>

-----------------------------------------------------------------------------
Init ==
  /\ vault = NoVault
  /\ entries = <<>>
  /\ devices = [d \in DeviceIDs |-> NoDevice]
  /\ pairings = [d \in DeviceIDs |-> NoPairing]
  /\ packages = [d \in DeviceIDs |-> NoPackage]
  /\ held = [d \in DeviceIDs |-> NoPackage]

Pair(t, d) ==
  \/ \E k \in Keys : BeginPairing(t, d, k)
  \/ \E a \in DeviceIDs : AnswerPairing(t, a, d)
  \/ ConfirmPairing(t, d)
  \/ CancelPairing(t, d)

\* The numbers a client may have signed: the one after n, or the stale n itself.
Signable(n) == {n, n + 1}

\* The calls of member a that append an entry about d to the device list.
Amend(t, a, d) ==
  /\ requireActivated(t, a)
  /\ \E index \in Signable(vault.head) :
       \/ \E k \in Keys : Approve(t, a, index, d, k)
       \/ \E epoch \in Signable(vault.epoch), to \in SUBSET DeviceIDs :
            d = a /\ Rotate(t, a, index, epoch, to)
       \/ \E k \in Keys : d = a /\ UpgradeKey(t, a, index, k)

Expel(t, a, d) ==
  /\ requireActivated(t, a)
  /\ \E index \in Signable(vault.head), epoch \in Signable(vault.epoch), to \in SUBSET DeviceIDs :
       Remove(t, a, index, d, epoch, to)

TakeKey(t, d) == KeyPackage(t, d) \/ Activate(t, d, held[d])

Next ==
  \/ \E t \in Tokens, d \in DeviceIDs :
       \/ \E k \in Keys : CreateVault(t, d, k)
       \/ Pair(t, d)
       \/ \E a \in DeviceIDs : Amend(t, a, d) \/ Expel(t, a, d)
       \/ TakeKey(t, d)
       \/ \E epoch \in Signable(vault.epoch - 1) : Reset(t, d, epoch)
  \/ \E d \in DeviceIDs : PairingLapses(d)
  \/ AdminReset
  \/ Maintain

Spec == Init /\ [][Next]_memberVars

\* A client that still needs the current key keeps asking for it.
Fairness ==
  \A t \in Tokens, d \in DeviceIDs :
    /\ WF_memberVars(KeyPackage(t, d))
    /\ WF_memberVars(Activate(t, d, held[d]))

FairSpec == Spec /\ Fairness

-----------------------------------------------------------------------------
(***************************************************************************)
(* The tables the handlers consult and the signed list the clients verify   *)
(* never disagree: the approved devices are the list's current members, the *)
(* revoked ones its past members, keys, head and epoch are the list's.      *)
(***************************************************************************)
TablesMatchList ==
  /\ vault.head = Len(entries)
  /\ vault.epoch = Epoch(entries)
  /\ vault.exists <=> entries # <<>>
  /\ \A d \in DeviceIDs :
       /\ devices[d].state = "approved" <=> d \in Current(entries)
       /\ devices[d].state # "none" <=> Seen(entries, d)
       /\ devices[d].state # "none" => /\ HasKey(entries, d, devices[d].key)
                                       /\ devices[d].added \in 1..Len(entries)
                                       /\ Adds(entries[devices[d].added], d)

(***************************************************************************)
(* No interleaving of approvals, removals and rotations strands a member:   *)
(* each has either taken the current epoch's key or has a package for it    *)
(* waiting, so it is always one KeyPackage and one Activate away from       *)
(* writing.                                                                 *)
(***************************************************************************)
NoMemberStranded ==
  \A d \in Approved : \/ devices[d].activated = vault.epoch
                      \/ packages[d].epoch = vault.epoch

(***************************************************************************)
(* A package a member has yet to take is sealed to the package key the      *)
(* member still has: the list records no key change of that member since    *)
(* the entry the package was made for (UpgradeKey refuses a device that has *)
(* not activated).                                                          *)
(***************************************************************************)
WaitingPackageOpens ==
  \A d \in Approved : devices[d].activated # vault.epoch =>
    \A i \in (packages[d].entry + 1)..Len(entries) : ~SetsKey(entries[i], d)

(***************************************************************************)
(* A device the service takes for activated does hold the current key, even *)
(* when a rekey lands between its KeyPackage and its Activate.              *)
(***************************************************************************)
ActivatedHoldsKey ==
  \A d \in Approved : devices[d].activated = vault.epoch => held[d].epoch = vault.epoch

(***************************************************************************)
(* A device another member removed is left with keys older than its         *)
(* removal: it fetches no package of that epoch or a later one.  (A device  *)
(* that leaves by itself made the next key, and is excluded.)               *)
(***************************************************************************)
RemovedHoldsOldKeys ==
  \A i \in 1..Len(entries) :
    LET e == entries[i]
    IN  e.kind = "remove" /\ e.signer # e.subject =>
          /\ held[e.subject].epoch < e.epochAfter
          /\ packages[e.subject] = NoPackage

(***************************************************************************)
(* A connection is one identity: no two members, and no member and a        *)
(* pairing, and no two pairings, share a token; and no pairing is for a     *)
(* device id the list has used.  actorFor's lookups are then unambiguous    *)
(* and the store's unique indexes never refuse an Approve.                  *)
(***************************************************************************)
OneIdentityPerToken ==
  /\ \A x, y \in Approved : devices[x].token = devices[y].token => x = y
  /\ \A x \in Approved, y \in Pending : devices[x].token # pairings[y].token
  /\ \A x, y \in Pending : pairings[x].token = pairings[y].token => x = y
  /\ \A y \in Pending : devices[y].state = "none"

(***************************************************************************)
(* The two limits hold whatever pairings lapse, are replaced or approved.   *)
(***************************************************************************)
WithinLimits ==
  /\ Cardinality(Pending) <= MaxPendingPairings
  /\ Cardinality(Approved) <= MaxDevicesPerVault

(***************************************************************************)
(* What a member relies on, whoever else pairs, approves, removes or        *)
(* rotates meanwhile: a way to the current key that opens, and only for     *)
(* those who are members, under one identity each and within the limits.    *)
(***************************************************************************)
MembershipSound ==
  /\ NoMemberStranded
  /\ WaitingPackageOpens
  /\ ActivatedHoldsKey
  /\ RemovedHoldsOldKeys
  /\ OneIdentityPerToken
  /\ WithinLimits

(***************************************************************************)
(* While the vault lives its list only grows, its epoch never falls, and a  *)
(* revoked device's row is final: the same id never comes back.             *)
(***************************************************************************)
HistoryStep ==
  vault'.exists =>
    /\ Len(entries) <= Len(entries')
    /\ \A i \in 1..Len(entries) : entries'[i] = entries[i]
    /\ vault.epoch <= vault'.epoch
    /\ \A d \in DeviceIDs : devices[d].state = "revoked" => devices'[d] = devices[d]

HistoryIsFinal == [][HistoryStep]_memberVars

(***************************************************************************)
(* A member that keeps asking is eventually activated in the current epoch, *)
(* unless it is removed or the vault is deleted: no state of the service    *)
(* refuses it for ever.                                                     *)
(***************************************************************************)
MembersActivate ==
  \A d \in DeviceIDs :
    d \in Approved ~> (d \notin Approved \/ devices[d].activated = vault.epoch)
=============================================================================
