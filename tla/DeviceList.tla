----------------------------- MODULE DeviceList -----------------------------
(***************************************************************************)
(* The signed device list of a vault (internal/syncproto/devicelist.go): an *)
(* append-only chain of entries from which membership, package keys and the *)
(* vault epoch are derived.                                                 *)
(*                                                                          *)
(* A list is the sequence of its accepted entries.  An entry's Index is its *)
(* position; its PreviousDigest and signature are abstracted away: a digest *)
(* names one entry of one vault, and within a vault the position does too.  *)
(* The definitions below read membership off the whole chain; the module    *)
(* DeviceListReplay holds the incremental form the code runs and compares   *)
(* the two.                                                                 *)
(***************************************************************************)
EXTENDS Integers, Sequences, FiniteSets

CONSTANTS DeviceIDs,          \* device ids a client may generate
          OldKeys,            \* X25519 package keys
          NewKeys,            \* X-Wing package keys, which an old key may be replaced by
          NoKey,              \* no package key: remove and rotate entries
          MaxDevicesPerVault, \* syncproto.MaxDevicesPerVault
          MaxIndex            \* the largest index and epoch checkedNext may return

ASSUME KeysAssumption == /\ NoKey \notin OldKeys \cup NewKeys
                         /\ OldKeys \cap NewKeys = {}

ASSUME ListBounds == /\ MaxDevicesPerVault \in Nat \ {0}
                     /\ MaxIndex \in Nat \ {0}

Keys == OldKeys \cup NewKeys

Entries == [kind : {"create", "add", "remove", "key", "rotate"},
            signer : DeviceIDs, subject : DeviceIDs,
            key : Keys \cup {NoKey}, epochAfter : Nat]

Validate(e) ==
  /\ e.epochAfter # 0
  /\ \/ e.kind \in {"create", "add"} /\ e.key \in Keys
     \/ e.kind = "remove" /\ e.key = NoKey
     \/ e.kind = "key" /\ e.signer = e.subject /\ e.key \in NewKeys
     \/ e.kind = "rotate" /\ e.signer = e.subject /\ e.key = NoKey

Adds(e, d) == e.kind \in {"create", "add"} /\ e.subject = d
Removes(e, d) == e.kind = "remove" /\ e.subject = d
SetsKey(e, d) == e.kind \in {"create", "add", "key"} /\ e.subject = d

\* DeviceList.members has an entry for d: its id was used, now or before.
Seen(list, d) == \E i \in 1..Len(list) : Adds(list[i], d)

MemberAt(list, d, n) ==
  /\ \E i \in 1..n : Adds(list[i], d)
  /\ \A i \in 1..n : ~Removes(list[i], d)

Current(list) == {d \in DeviceIDs : MemberAt(list, d, Len(list))}

EpochAt(list, i) == list[i].epochAfter

Epoch(list) == IF list = <<>> THEN 0 ELSE EpochAt(list, Len(list))

\* The package key the list records for d: the one its last key-setting entry names.
HasKey(list, d, k) ==
  \E i \in 1..Len(list) :
    /\ SetsKey(list[i], d) /\ list[i].key = k
    /\ \A j \in (i+1)..Len(list) : ~SetsKey(list[j], d)

extendCreate(e) ==
  /\ e.kind = "create" /\ e.signer = e.subject /\ e.epochAfter = 1

extendAdd(list, e) ==
  /\ e.kind = "add"
  /\ ~Seen(list, e.subject)
  /\ e.epochAfter = Epoch(list)
  /\ Cardinality(Current(list)) < MaxDevicesPerVault

extendRemove(list, e) ==
  /\ e.kind = "remove"
  /\ e.subject \in Current(list)
  /\ Epoch(list) < MaxIndex /\ e.epochAfter = Epoch(list) + 1

extendKey(list, e) ==
  /\ e.kind = "key"
  /\ e.epochAfter = Epoch(list)
  /\ \E k \in OldKeys : HasKey(list, e.signer, k)

extendRotate(list, e) ==
  /\ e.kind = "rotate"
  /\ Epoch(list) < MaxIndex /\ e.epochAfter = Epoch(list) + 1

\* Extend accepts e, numbered index, as the next entry of the list.
Extends(list, index, e) ==
  /\ Validate(e)
  /\ Len(list) < MaxIndex /\ index = Len(list) + 1
  /\ IF index = 1 THEN extendCreate(e)
     ELSE /\ e.signer \in Current(list)
          /\ \/ extendAdd(list, e)
             \/ extendRemove(list, e)
             \/ extendKey(list, e)
             \/ extendRotate(list, e)
=============================================================================
