-------------------------- MODULE DeviceListReplay --------------------------
(***************************************************************************)
(* The device list as the code runs it (internal/syncproto/devicelist.go):  *)
(* a table of members and a log of epochs, extended one entry at a time.    *)
(* loadList and VerifyDeviceList replay the stored entries through Extend.  *)
(* A broken list is Broken; a member remembers the package keys it          *)
(* replaced, so that MemberAt can answer for an earlier index.              *)
(***************************************************************************)
EXTENDS DeviceList
LOCAL INSTANCE SequencesExt
LOCAL INSTANCE TLC

NewDeviceList == [ok |-> TRUE, members |-> <<>>, epochs |-> <<>>]

Broken == [ok |-> FALSE, members |-> <<>>, epochs |-> <<>>]

memberFromEntry(e, index) ==
  [key |-> e.key, added |-> index, removed |-> 0, replaced |-> <<>>]

\* Mutant: every member ever listed counts.
EveryMember(list) == DOMAIN list.members

CurrentMembers(list) == {d \in DOMAIN list.members : list.members[d].removed = 0}

ListEpoch(list) == IF list.epochs = <<>> THEN 0 ELSE list.epochs[Len(list.epochs)]

PutMember(list, e, d, member) ==
  [ok |-> TRUE, members |-> (d :> member) @@ list.members,
   epochs |-> Append(list.epochs, e.epochAfter)]

\* DeviceList.Extend: the list after the entry, or Broken.
Extend(list, e) ==
  LET index == Len(list.epochs) + 1
      epoch == ListEpoch(list)
      known == DOMAIN list.members
      subject == list.members[e.subject]
      signer == list.members[e.signer]
  IN  CASE ~list.ok \/ ~Validate(e) \/ index > MaxIndex -> Broken
        [] index = 1 ->
             IF e.kind = "create" /\ e.signer = e.subject /\ e.epochAfter = 1
             THEN PutMember(list, e, e.subject, memberFromEntry(e, index)) ELSE Broken
        [] index > 1 /\ e.signer \notin CurrentMembers(list) -> Broken
        [] e.kind = "add" /\ e.subject \notin known /\ e.epochAfter = epoch
             /\ Cardinality(CurrentMembers(list)) < MaxDevicesPerVault ->
             PutMember(list, e, e.subject, memberFromEntry(e, index))
        [] e.kind = "remove" /\ e.subject \in CurrentMembers(list)
             /\ epoch < MaxIndex /\ e.epochAfter = epoch + 1 ->
             PutMember(list, e, e.subject, [subject EXCEPT !.removed = index])
        [] e.kind = "key" /\ e.epochAfter = epoch /\ signer.key \in OldKeys ->
             PutMember(list, e, e.signer,
               [signer EXCEPT !.key = e.key,
                              !.replaced = Append(@, [index |-> index, previous |-> signer.key])])
        [] e.kind = "rotate" /\ epoch < MaxIndex /\ e.epochAfter = epoch + 1 ->
             PutMember(list, e, e.signer, signer)
        [] OTHER -> Broken

\* MemberAt(d, n) finds a member, and the package key it reports for it.
ListedAt(list, d, n) ==
  /\ d \in DOMAIN list.members
  /\ list.members[d].added <= n
  /\ list.members[d].removed = 0 \/ n < list.members[d].removed

\* Mutant: a replaced key is still reported at the index that replaced it.
KeyAtInclusive(list, d, n) ==
  LET member == list.members[d]
      later == {i \in DOMAIN member.replaced : n <= member.replaced[i].index}
  IN  IF later = {} THEN member.key
      ELSE member.replaced[CHOOSE i \in later : \A j \in later : i <= j].previous

KeyAt(list, d, n) ==
  LET member == list.members[d]
      later == {i \in DOMAIN member.replaced : n < member.replaced[i].index}
  IN  IF later = {} THEN member.key
      ELSE member.replaced[CHOOSE i \in later : \A j \in later : i <= j].previous

VerifyDeviceList(stored) == FoldLeft(Extend, NewDeviceList, stored)

-----------------------------------------------------------------------------
VARIABLE stored   \* the entries of a list, in order

Init == stored = <<>>

Candidates == [kind : {"create", "add", "remove", "key", "rotate"},
               signer : DeviceIDs, subject : DeviceIDs,
               key : Keys \cup {NoKey}, epochAfter : 0..(MaxIndex + 1)]

Next == \E e \in Candidates :
          /\ Extend(VerifyDeviceList(stored), e).ok
          /\ stored' = Append(stored, e)

Spec == Init /\ [][Next]_stored

(***************************************************************************)
(* Replaying a chain entry by entry, as VerifyDeviceList does, and reading  *)
(* it as a whole give the same answers: the same epoch, the same members at *)
(* every index, past ones included, and the same package key for each.      *)
(***************************************************************************)
ReplayAgrees ==
  LET list == VerifyDeviceList(stored)
  IN  /\ list.ok
      /\ ListEpoch(list) = Epoch(stored)
      /\ CurrentMembers(list) = Current(stored)
      /\ \A n \in 1..Len(stored), d \in DeviceIDs :
           /\ list.epochs[n] = EpochAt(stored, n)
           /\ ListedAt(list, d, n) <=> MemberAt(stored, d, n)
           /\ ListedAt(list, d, n) => HasKey(SubSeq(stored, 1, n), d, KeyAt(list, d, n))

(***************************************************************************)
(* Extend accepts exactly the entries that follow from the chain read as a  *)
(* whole: at every reachable list, no entry is let through by one form and  *)
(* refused by the other.                                                    *)
(***************************************************************************)
ExtendAgrees ==
  \A e \in Candidates :
    Extend(VerifyDeviceList(stored), e).ok <=> Extends(stored, Len(stored) + 1, e)
=============================================================================
