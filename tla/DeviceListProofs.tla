-------------------------- MODULE DeviceListProofs --------------------------
(***************************************************************************)
(* What one more entry changes in a device list, for every list.            *)
(***************************************************************************)
EXTENDS DeviceList, TLAPS

(***************************************************************************)
(* append keeps the entries before it and puts the new one last.            *)
(***************************************************************************)
LEMMA AppendFacts ==
  ASSUME NEW list \in Seq(Entries), NEW e \in Entries
  PROVE  /\ Append(list, e) \in Seq(Entries)
         /\ Append(list, e) # <<>>
         /\ Len(list) \in Nat
         /\ Len(Append(list, e)) = Len(list) + 1
         /\ \A i \in 1..Len(list) : Append(list, e)[i] = list[i]
         /\ Append(list, e)[Len(list) + 1] = e
         /\ \A i \in 1..Len(list) : list[i] \in Entries
  OBVIOUS

(***************************************************************************)
(* An id is used after an entry iff it was before, or the entry adds it.    *)
(***************************************************************************)
LEMMA SeenAppend ==
  ASSUME NEW list \in Seq(Entries), NEW e \in Entries, NEW d
  PROVE  Seen(Append(list, e), d) <=> Seen(list, d) \/ Adds(e, d)
  <1> DEFINE new == Append(list, e)
  <1>0. /\ Len(list) \in Nat /\ Len(new) = Len(list) + 1 /\ new[Len(list) + 1] = e
        /\ \A i \in 1..Len(list) : new[i] = list[i]
    BY AppendFacts
  <1> HIDE DEF new
  <1>1. 1..Len(new) = (1..Len(list)) \cup {Len(list) + 1}
    BY <1>0
  <1> QED
    BY <1>0, <1>1 DEF Seen, new

(***************************************************************************)
(* Membership at an index depends on the entries up to it only.             *)
(***************************************************************************)
LEMMA MemberAtAppend ==
  ASSUME NEW list \in Seq(Entries), NEW e \in Entries, NEW d, NEW n \in 1..Len(list)
  PROVE  MemberAt(Append(list, e), d, n) <=> MemberAt(list, d, n)
  <1>1. \A i \in 1..n : Append(list, e)[i] = list[i] /\ i \in 1..Len(list)
    BY AppendFacts
  <1> QED
    BY <1>1 DEF MemberAt

(***************************************************************************)
(* The members after an entry: those before it and the one it adds, less    *)
(* the one it removes.                                                      *)
(***************************************************************************)
LEMMA CurrentAppend ==
  ASSUME NEW list \in Seq(Entries), NEW e \in Entries, NEW d \in DeviceIDs,
         Adds(e, d) => \A i \in 1..Len(list) : ~Removes(list[i], d)
  PROVE  d \in Current(Append(list, e)) <=>
           (d \in Current(list) \/ Adds(e, d)) /\ ~Removes(e, d)
  <1> DEFINE new == Append(list, e)
  <1>0. /\ Len(list) \in Nat /\ Len(new) = Len(list) + 1 /\ new[Len(list) + 1] = e
        /\ \A i \in 1..Len(list) : new[i] = list[i]
    BY AppendFacts
  <1> HIDE DEF new
  <1>1. 1..Len(new) = (1..Len(list)) \cup {Len(list) + 1}
    BY <1>0
  <1>2. (\E i \in 1..Len(new) : Adds(new[i], d))
          <=> (\E i \in 1..Len(list) : Adds(list[i], d)) \/ Adds(e, d)
    BY <1>0, <1>1
  <1>3. (\A i \in 1..Len(new) : ~Removes(new[i], d))
          <=> (\A i \in 1..Len(list) : ~Removes(list[i], d)) /\ ~Removes(e, d)
    BY <1>0, <1>1
  <1>4. d \in Current(new) <=> MemberAt(new, d, Len(new))
    BY DEF Current
  <1>5. d \in Current(list) <=> MemberAt(list, d, Len(list))
    BY DEF Current
  <1> QED
    BY <1>2, <1>3, <1>4, <1>5 DEF MemberAt, new

(***************************************************************************)
(* The key recorded for a device changes only with an entry that sets it.   *)
(***************************************************************************)
LEMMA HasKeyAppend ==
  ASSUME NEW list \in Seq(Entries), NEW e \in Entries, NEW d, NEW k
  PROVE  /\ SetsKey(e, d) /\ e.key = k => HasKey(Append(list, e), d, k)
         /\ ~SetsKey(e, d) /\ HasKey(list, d, k) => HasKey(Append(list, e), d, k)
  <1> DEFINE new == Append(list, e)
  <1>0. /\ Len(list) \in Nat /\ Len(new) = Len(list) + 1 /\ new[Len(list) + 1] = e
        /\ \A i \in 1..Len(list) : new[i] = list[i]
    BY AppendFacts
  <1> HIDE DEF new
  <1>1. ASSUME SetsKey(e, d), e.key = k
        PROVE  HasKey(new, d, k)
    <2>1. Len(new) \in 1..Len(new) /\ (Len(new) + 1)..Len(new) = {}
      BY <1>0
    <2> QED BY <1>0, <1>1, <2>1 DEF HasKey
  <1>2. ASSUME ~SetsKey(e, d), HasKey(list, d, k)
        PROVE  HasKey(new, d, k)
    <2>1. PICK i \in 1..Len(list) : /\ SetsKey(list[i], d) /\ list[i].key = k
                                    /\ \A j \in (i+1)..Len(list) : ~SetsKey(list[j], d)
      BY <1>2 DEF HasKey
    <2>2. \A j \in (i+1)..Len(new) : ~SetsKey(new[j], d)
      <3> TAKE j \in (i+1)..Len(new)
      <3>1. CASE j = Len(list) + 1
        BY <3>1, <1>0, <1>2
      <3>2. CASE j # Len(list) + 1
        BY <3>2, <1>0, <2>1
      <3> QED BY <3>1, <3>2
    <2> QED BY <1>0, <2>1, <2>2 DEF HasKey
  <1> QED BY <1>1, <1>2 DEF new

(***************************************************************************)
(* The list's epoch is the one its last entry names.                        *)
(***************************************************************************)
LEMMA EpochAppend ==
  ASSUME NEW list \in Seq(Entries), NEW e \in Entries
  PROVE  Epoch(Append(list, e)) = e.epochAfter
  BY AppendFacts DEF Epoch, EpochAt
=============================================================================
