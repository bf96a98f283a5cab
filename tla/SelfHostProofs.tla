--------------------------- MODULE SelfHostProofs ---------------------------
(***************************************************************************)
(* The self-hosted server, for every set of ids, every retention and        *)
(* lifetime and any number of requests in flight.                           *)
(*                                                                          *)
(* SInv is the inductive invariant.  It says of rows what the properties    *)
(* say of answers, and so does not depend on the clock: a session is an     *)
(* active owner's whether or not it has expired, a pairing that is open and *)
(* a device that is not revoked have a live holder, a setup token that is   *)
(* not used has a listed owner, and no code is ahead of its owner's         *)
(* counter.                                                                 *)
(***************************************************************************)
EXTENDS SelfHostServer, TLAPS, FiniteSetTheorems

OwnerRows == [state : {"none", "pending", "active", "removed"}, hash : Nat, counter : Int,
              removedAt : Int]
MemberRows == [state : {"none", "listed", "removed"}, removedAt : Int]
TokenRows == [kind : {"none", "first", "invite", "reset"}, owner : OwnerIds \cup {0},
              secret : BOOLEAN, expires : Int, used : BOOLEAN]
SessionRows == [owner : OwnerIds \cup {0}, hash : Nat, expires : Int, recent : Int]
PairingRows == [holder : Holders \cup {NoHolder}, hash : Nat,
                state : {"none", "open", "used", "cancelled"}, at : Int, expires : Int,
                device : DeviceIds \cup {0}]
DeviceRows == [holder : Holders \cup {NoHolder}, hash : Nat, expires : Int, revokedAt : Int]

Requests ==
  [op : {"idle", "link"}]
  \cup [op : {"owner"}, owner : OwnerIds, recent : BOOLEAN]
  \cup [op : {"login"}, owner : OwnerIds, hash : Nat, counter : Int]
  \cup [op : {"stepup"}, session : SessionIds, owner : OwnerIds, hash : Nat, counter : Int]
  \cup [op : {"setup"}, token : TokenIds, counter : Int]

TypeOK ==
  /\ owners \in [OwnerIds -> OwnerRows] /\ members \in [MemberIds -> MemberRows]
  /\ tokens \in [TokenIds -> TokenRows] /\ sessions \in [SessionIds -> SessionRows]
  /\ pairings \in [PairingIds -> PairingRows] /\ devices \in [DeviceIds -> DeviceRows]
  /\ now \in Nat
  /\ accepted \subseteq OwnerIds \X Nat \X Int
  /\ req \in [Clients -> Requests]

\* Every session is of an owner who can sign in with the password it was made with.
SessionsLive ==
  \A s \in SessionIds :
    \/ sessions[s] = NoSession
    \/ /\ sessions[s].owner \in OwnerIds /\ Active(sessions[s].owner)
       /\ sessions[s].hash = owners[sessions[s].owner].hash

\* A setup token's owner is there, and listed while the token is unused.
TokensRefer ==
  \A t \in TokenIds :
    /\ tokens[t].kind = "first" => tokens[t].owner = 0
    /\ tokens[t].owner # 0 => /\ owners[tokens[t].owner].state # "none"
                              /\ ~tokens[t].used => Listed(tokens[t].owner)

HolderKept(h) ==
  IF h[1] = "owner" THEN owners[h[2]].state # "none" ELSE members[h[2]].state # "none"

\* A live holder, with the credentials a row was made under.
HolderStands(row) == HolderLive(row.holder) /\ row.hash = HashOf(row.holder)

PairingsRefer ==
  \A p \in PairingIds :
    /\ pairings[p].holder \in Holders => HolderKept(pairings[p].holder)
    /\ pairings[p].state = "open" => pairings[p].holder \in Holders /\ HolderStands(pairings[p])
    /\ pairings[p].device # 0 => devices[pairings[p].device].holder \in Holders

DevicesRefer ==
  \A d \in DeviceIds :
    \/ devices[d] = NoDevice
    \/ /\ devices[d].holder \in Holders /\ HolderKept(devices[d].holder)
       /\ devices[d].revokedAt = Never => HolderStands(devices[d])

\* An accepted code is of this password or an earlier one, and not ahead of the counter.
CodesSpent ==
  /\ replayed = {}
  /\ \A code \in accepted : owners[code[1]].state # "none" =>
       /\ code[2] <= owners[code[1]].hash
       /\ code[2] = owners[code[1]].hash => code[3] <= owners[code[1]].counter

SInv == TypeOK /\ SessionsLive /\ TokensRefer /\ PairingsRefer /\ DevicesRefer /\ CodesSpent

-----------------------------------------------------------------------------
\* The blank rows are rows.
LEMMA BlankRows ==
  /\ NoOwner \in OwnerRows /\ NoMember \in MemberRows /\ NoToken \in TokenRows
  /\ NoSession \in SessionRows /\ NoPairing \in PairingRows /\ NoDevice \in DeviceRows
  /\ NoHolder \notin Holders /\ Never \notin Nat
  BY DEF NoOwner, NoMember, NoToken, NoSession, NoPairing, NoDevice, NoHolder, Holders, Never,
         OwnerRows, MemberRows, TokenRows, SessionRows, PairingRows, DeviceRows

\* What the blank rows say.
LEMMA BlankColumns ==
  /\ NoOwner.state = "none" /\ NoMember.state = "none" /\ NoPairing.state = "none"
  /\ NoDevice.revokedAt = Never
  BY DEF NoOwner, NoMember, NoPairing, NoDevice

\* Zero is nobody's id.
LEMMA Ids ==
  0 \notin OwnerIds /\ 0 \notin MemberIds /\ 0 \notin TokenIds /\ 0 \notin SessionIds
  /\ 0 \notin PairingIds /\ 0 \notin DeviceIds
  BY StoreAssumption

\* The lifetimes, retentions and ids are numbers.
LEMMA Numbers ==
  /\ SetupTokenTTL \in Nat /\ SessionTTL \in Nat /\ RecentAuthWindow \in Nat
  /\ PairingTTL \in Nat /\ DeviceTokenTTL \in Nat
  /\ PairingRetention \in Nat /\ DeviceRetention \in Nat /\ HolderRetention \in Nat
  /\ PairingRetention <= DeviceRetention
  BY StoreAssumption

Cancelled(row, n) == [row EXCEPT !.state = "cancelled", !.at = n]

\* Cancelling a pairing writes two of its columns.
LEMMA CancelledPairing ==
  ASSUME NEW row \in PairingRows, NEW n \in Nat
  PROVE  LET ended == Cancelled(row, n)
         IN  /\ ended \in PairingRows /\ ended.state = "cancelled"
             /\ ended.holder = row.holder /\ ended.hash = row.hash
             /\ ended.device = row.device
  <1> DEFINE ended == Cancelled(row, n)
  <1>0. ended = [row EXCEPT !.state = "cancelled", !.at = n]
    BY DEF Cancelled
  <1> HIDE DEF ended
  <1>1. ended = [holder |-> row.holder, hash |-> row.hash, state |-> "cancelled", at |-> n,
                 expires |-> row.expires, device |-> row.device]
    BY <1>0 DEF PairingRows
  <1>2. /\ row.holder \in Holders \cup {NoHolder} /\ row.hash \in Nat /\ row.expires \in Int
        /\ row.device \in DeviceIds \cup {0}
    BY DEF PairingRows
  <1>3. /\ ended \in PairingRows /\ ended.state = "cancelled"
        /\ ended.holder = row.holder /\ ended.hash = row.hash /\ ended.device = row.device
    BY <1>1, <1>2 DEF PairingRows
  <1> QED BY <1>3 DEF ended

Redeemed(row, n, d) == [row EXCEPT !.state = "used", !.at = n, !.device = d]

\* Redeeming a pairing writes three of its columns.
LEMMA RedeemedPairing ==
  ASSUME NEW row \in PairingRows, NEW n \in Nat, NEW d \in DeviceIds
  PROVE  LET ended == Redeemed(row, n, d)
         IN  /\ ended \in PairingRows /\ ended.state = "used"
             /\ ended.holder = row.holder /\ ended.device = d
  <1> DEFINE ended == Redeemed(row, n, d)
  <1>0. ended = [row EXCEPT !.state = "used", !.at = n, !.device = d]
    BY DEF Redeemed
  <1> HIDE DEF ended
  <1>1. ended = [holder |-> row.holder, hash |-> row.hash, state |-> "used", at |-> n,
                 expires |-> row.expires, device |-> d]
    BY <1>0 DEF PairingRows
  <1>2. row.holder \in Holders \cup {NoHolder} /\ row.hash \in Nat /\ row.expires \in Int
    BY DEF PairingRows
  <1>3. /\ ended \in PairingRows /\ ended.state = "used"
        /\ ended.holder = row.holder /\ ended.device = d
    BY <1>1, <1>2 DEF PairingRows
  <1> QED BY <1>3 DEF ended

Removed(row, n) == [row EXCEPT !.state = "removed", !.removedAt = n]

\* Removing an owner writes two columns, and neither the hash nor the counter.
LEMMA RemovedOwner ==
  ASSUME NEW row \in OwnerRows, NEW n \in Nat
  PROVE  LET ended == Removed(row, n)
         IN  /\ ended \in OwnerRows /\ ended.state = "removed"
             /\ ended.hash = row.hash /\ ended.counter = row.counter
  <1> DEFINE ended == Removed(row, n)
  <1>0. ended = [row EXCEPT !.state = "removed", !.removedAt = n]
    BY DEF Removed
  <1> HIDE DEF ended
  <1>1. ended = [state |-> "removed", hash |-> row.hash, counter |-> row.counter, removedAt |-> n]
    BY <1>0 DEF OwnerRows
  <1>2. row.hash \in Nat /\ row.counter \in Int
    BY DEF OwnerRows
  <1>3. /\ ended \in OwnerRows /\ ended.state = "removed"
        /\ ended.hash = row.hash /\ ended.counter = row.counter
    BY <1>1, <1>2 DEF OwnerRows
  <1> QED BY <1>3 DEF ended

\* Revoking a device writes one of its columns.
LEMMA RevokedDevice ==
  ASSUME NEW row \in DeviceRows, NEW n \in Nat, NEW ended, ended = [row EXCEPT !.revokedAt = n]
  PROVE  /\ ended \in DeviceRows /\ ended.revokedAt = n
         /\ ended.holder = row.holder /\ ended.hash = row.hash
  BY DEF DeviceRows

(***************************************************************************)
(* Nobody but h leaves: rows stay, and everyone else who stands behind      *)
(* sessions, pairings and devices goes on doing so.  NoHolder is nobody.    *)
(***************************************************************************)
OnlyLeaves(h) ==
  /\ \A o \in OwnerIds :
       /\ owners[o].state # "none" => owners'[o].state # "none"
       /\ Active(o) /\ h # <<"owner", o>> => /\ owners'[o].state = "active"
                                             /\ owners'[o].hash = owners[o].hash
  /\ \A m \in MemberIds :
       /\ members[m].state # "none" => members'[m].state # "none"
       /\ members[m].state = "listed" /\ h # <<"member", m>> => members'[m].state = "listed"

\* What a step that only h leaves by means for another holder.
LEMMA OthersStand ==
  ASSUME NEW h, OnlyLeaves(h), NEW x \in Holders
  PROVE  /\ HolderKept(x) => HolderKept(x)'
         /\ x # h /\ HolderLive(x) => HolderLive(x)' /\ HashOf(x)' = HashOf(x)
  <1>1. CASE x \in {"owner"} \X OwnerIds
    <2>1. PICK o \in OwnerIds : x = <<"owner", o>>
      BY <1>1
    <2> QED BY <2>1 DEF OnlyLeaves, HolderKept, HolderLive, HashOf, Active
  <1>2. CASE x \in {"member"} \X MemberIds
    <2>1. PICK m \in MemberIds : x = <<"member", m>>
      BY <1>2
    <2> QED BY <2>1 DEF OnlyLeaves, HolderKept, HolderLive, HashOf
  <1> QED BY <1>1, <1>2 DEF Holders

\* A live holder is there.
LEMMA LiveIsKept ==
  ASSUME NEW x \in Holders, HolderLive(x)
  PROVE  HolderKept(x)
  BY DEF HolderLive, HolderKept, Active

(***************************************************************************)
(* Pairings and devices while nobody leaves and neither table is written.   *)
(***************************************************************************)
LEMMA HoldingsStay ==
  ASSUME SInv, OnlyLeaves(NoHolder), UNCHANGED <<pairings, devices>>
  PROVE  PairingsRefer' /\ DevicesRefer'
  <1>1. \A x \in Holders : /\ HolderKept(x) => HolderKept(x)'
                           /\ HolderLive(x) => HolderLive(x)' /\ HashOf(x)' = HashOf(x)
    BY OthersStand, BlankRows
  <1>2. PairingsRefer'
    BY <1>1 DEF SInv, PairingsRefer, HolderStands
  <1>3. DevicesRefer'
    BY <1>1 DEF SInv, DevicesRefer, HolderStands
  <1> QED BY <1>2, <1>3

\* CancelPairingsWhere leaves no open code of its holder, and touches no other row.
LEMMA CancelFacts ==
  ASSUME SInv, NEW h \in Holders, NEW p \in PairingIds
  PROVE  LET row == CancelPairingsWhere(h)[p]
         IN  /\ row.holder = pairings[p].holder /\ row.hash = pairings[p].hash
             /\ row.device = pairings[p].device
             /\ row.state = "open" => pairings[p].state = "open" /\ pairings[p].holder # h
             /\ row \in PairingRows
  <1> DEFINE row == CancelPairingsWhere(h)[p]
  <1>1. pairings[p] \in PairingRows /\ now \in Nat
    BY DEF SInv, TypeOK
  <1>2. CASE pairings[p].holder = h /\ pairings[p].state = "open"
    <2>1. row = Cancelled(pairings[p], now)
      BY <1>2 DEF CancelPairingsWhere, Cancelled
    <2>2. /\ row \in PairingRows /\ row.state = "cancelled"
          /\ row.holder = pairings[p].holder
          /\ row.hash = pairings[p].hash /\ row.device = pairings[p].device
      BY <1>1, <2>1, CancelledPairing
    <2> QED BY <2>2
  <1>3. CASE ~(pairings[p].holder = h /\ pairings[p].state = "open")
    BY <1>1, <1>3 DEF CancelPairingsWhere
  <1> QED BY <1>2, <1>3

(***************************************************************************)
(* Pairings and devices when h leaves: its open codes are cancelled and its *)
(* devices revoked in the same transaction.                                 *)
(***************************************************************************)
LEMMA HoldingsLeave ==
  ASSUME SInv, NEW h \in Holders, OnlyLeaves(h),
         pairings' = CancelPairingsWhere(h), devices' = RevokeDevicesWhere(h)
  PROVE  /\ pairings' \in [PairingIds -> PairingRows] /\ devices' \in [DeviceIds -> DeviceRows]
         /\ PairingsRefer' /\ DevicesRefer'
  <1>0. TypeOK /\ PairingsRefer /\ DevicesRefer /\ now \in Nat
    BY DEF SInv, TypeOK
  <1>1. \A x \in Holders : /\ HolderKept(x) => HolderKept(x)'
                           /\ x # h /\ HolderLive(x) => HolderLive(x)' /\ HashOf(x)' = HashOf(x)
    BY OthersStand
  <1>2. \A p \in PairingIds :
          /\ pairings'[p].holder = pairings[p].holder /\ pairings'[p].hash = pairings[p].hash
          /\ pairings'[p].device = pairings[p].device
          /\ pairings'[p].state = "open" => pairings[p].state = "open" /\ pairings[p].holder # h
          /\ pairings'[p] \in PairingRows
    BY CancelFacts
  <1>3. \A d \in DeviceIds :
          /\ devices'[d].holder = devices[d].holder /\ devices'[d].hash = devices[d].hash
          /\ devices'[d].revokedAt = Never => /\ devices[d].revokedAt = Never
                                              /\ devices[d].holder # h
          /\ devices'[d] \in DeviceRows
    <2> TAKE d \in DeviceIds
    <2>1. devices[d] \in DeviceRows
      BY <1>0 DEF TypeOK
    <2>2. CASE devices[d].holder = h /\ devices[d].revokedAt = Never
      <3>1. devices'[d] = [devices[d] EXCEPT !.revokedAt = now]
        BY <2>2 DEF RevokeDevicesWhere
      <3>2. /\ devices'[d] \in DeviceRows /\ devices'[d].revokedAt = now
            /\ devices'[d].holder = devices[d].holder /\ devices'[d].hash = devices[d].hash
        BY <1>0, <2>1, <3>1, RevokedDevice
      <3> QED BY <1>0, <3>2, BlankRows
    <2>3. CASE ~(devices[d].holder = h /\ devices[d].revokedAt = Never)
      BY <2>1, <2>3 DEF RevokeDevicesWhere
    <2> QED BY <2>2, <2>3
  <1>4. \A d \in DeviceIds : devices[d] = NoDevice => devices'[d] = NoDevice
    BY BlankRows DEF RevokeDevicesWhere, NoDevice
  <1>5. PairingsRefer'
    <2> SUFFICES ASSUME NEW p \in PairingIds
                 PROVE  /\ pairings'[p].holder \in Holders => HolderKept(pairings[p].holder)'
                        /\ pairings'[p].state = "open" => /\ pairings'[p].holder \in Holders
                                                          /\ HolderStands(pairings[p])'
                        /\ pairings'[p].device # 0 =>
                             devices'[pairings'[p].device].holder \in Holders
      BY DEF PairingsRefer
    <2>1. pairings[p].device # 0 => pairings[p].device \in DeviceIds
      BY <1>0 DEF TypeOK, PairingRows
    <2> QED BY <1>0, <1>1, <1>2, <1>3, <2>1 DEF PairingsRefer, HolderStands
  <1>6. DevicesRefer'
    BY <1>0, <1>1, <1>3, <1>4 DEF DevicesRefer, HolderStands
  <1>7. /\ pairings' \in [PairingIds -> PairingRows] /\ devices' \in [DeviceIds -> DeviceRows]
    BY <1>2, <1>3 DEF CancelPairingsWhere, RevokeDevicesWhere
  <1> QED BY <1>5, <1>6, <1>7

-----------------------------------------------------------------------------
(***************************************************************************)
(* Sessions, setup tokens and accepted codes while their tables are not     *)
(* written.                                                                 *)
(***************************************************************************)
LEMMA SessionsStay ==
  ASSUME SInv, OnlyLeaves(NoHolder), UNCHANGED sessions
  PROVE  SessionsLive'
  <1>1. \A o \in OwnerIds : NoHolder # <<"owner", o>>
    BY DEF NoHolder
  <1> QED BY <1>1 DEF SInv, SessionsLive, OnlyLeaves, Active

\* A listed owner stays listed and a row stays there.
ListedStay ==
  \A o \in OwnerIds : /\ owners[o].state # "none" => owners'[o].state # "none"
                      /\ Listed(o) => owners'[o].state \in {"pending", "active"}

\* Tokens that are not written refer to owners as before.
LEMMA TokensStay ==
  ASSUME SInv, ListedStay, UNCHANGED tokens
  PROVE  TokensRefer'
  <1>1. \A t \in TokenIds : tokens[t].owner # 0 => tokens[t].owner \in OwnerIds
    BY DEF SInv, TypeOK, TokenRows
  <1> QED BY <1>1 DEF SInv, TokensRefer, ListedStay, Listed

\* Codes are owners' codes.
LEMMA CodeType ==
  ASSUME TypeOK, NEW code \in accepted
  PROVE  /\ code[1] \in OwnerIds /\ code[2] \in Nat /\ code[3] \in Int
         /\ code = <<code[1], code[2], code[3]>>
  <1>1. code \in OwnerIds \X Nat \X Int
    BY DEF TypeOK
  <1> QED BY <1>1

\* Codes stay spent while owners that had one keep their hash and counter, or go.
LEMMA CodesStay ==
  ASSUME SInv, UNCHANGED <<accepted, replayed>>,
         \A o \in OwnerIds : owners'[o].state # "none" =>
           \/ /\ owners[o].state # "none" /\ owners'[o].hash = owners[o].hash
              /\ owners'[o].counter = owners[o].counter
           \/ \A code \in accepted : code[1] # o
  PROVE  CodesSpent'
  BY CodeType DEF SInv, CodesSpent

\* With the owners' table unwritten, nobody leaves.
LEMMA OwnersUnwritten ==
  ASSUME UNCHANGED <<owners, members>>
  PROVE  OnlyLeaves(NoHolder) /\ ListedStay
  BY DEF OnlyLeaves, ListedStay, Listed, Active

-----------------------------------------------------------------------------
(***************************************************************************)
(* Steps that write none of the tables the invariant is about.              *)
(***************************************************************************)
LEMMA NothingWritten ==
  ASSUME SInv, UNCHANGED <<owners, members, tokens, sessions, pairings, devices, codes>>,
         now' \in Nat, req' \in [Clients -> Requests]
  PROVE  SInv'
  <1>1. TypeOK'
    BY DEF SInv, TypeOK, codes
  <1>2. CodesSpent'
    BY DEF SInv, CodesSpent, codes
  <1> QED BY <1>1, <1>2, OwnersUnwritten, SessionsStay, TokensStay, HoldingsStay DEF SInv

(***************************************************************************)
(* CompleteSetup makes an owner active under a new hash.  An owner with     *)
(* sessions, open codes or linked devices was active before, so none of     *)
(* them is this owner's; and no code was accepted under the new hash.       *)
(***************************************************************************)
LEMMA CompleteSetupSInv ==
  ASSUME SInv, NEW t \in TokenIds, NEW o \in OwnerIds, NEW counter \in Int,
         NEW s \in SessionIds, CompleteSetup(t, o, counter, s),
         tokens[t].kind = "first" => \A code \in accepted : code[1] # o,
         req' \in [Clients -> Requests]
  PROVE  SInv'
  <1> DEFINE hash == owners[o].hash + 1
             code == <<o, hash, counter>>
             owner == [state |-> "active", hash |-> hash, counter |-> counter,
                       removedAt |-> Never]
             session == [owner |-> o, hash |-> hash, expires |-> now + SessionTTL,
                         recent |-> now]
  <1>0. TypeOK /\ SessionsLive /\ TokensRefer /\ CodesSpent
    BY DEF SInv
  <1>1. /\ tokens' = [tokens EXCEPT ![t].used = TRUE]
        /\ owners' = [owners EXCEPT ![o] = owner]
        /\ sessions' = [sessions EXCEPT ![s] = session]
        /\ accepted' = accepted \cup {code}
        /\ replayed' = IF code \in accepted THEN replayed \cup {code} ELSE replayed
        /\ UNCHANGED <<members, pairings, devices, now>>
    BY DEF CompleteSetup, CreateSession, Accept, holdings
  <1>2. owners[o].state \in {"none", "pending"} /\ hash \in Nat
    BY <1>0 DEF CompleteSetup, NoOwner, TypeOK, OwnerRows
  <1>3. \A c \in accepted : c[1] = o => c[2] <= owners[o].hash
    BY <1>0 DEF CompleteSetup, CodesSpent
  <1>4. owner \in OwnerRows /\ session \in SessionRows
    BY <1>0, <1>2, Numbers DEF OwnerRows, SessionRows, Never, TypeOK
  <1>5. \A x \in OwnerIds : owners'[x] = IF x = o THEN owner ELSE owners[x]
    BY <1>0, <1>1 DEF TypeOK
  <1>6. owner.state = "active" /\ owner.hash = hash /\ owner.counter = counter
    OBVIOUS
  <1> HIDE DEF owner
  <1>7. OnlyLeaves(NoHolder) /\ ListedStay
    BY <1>1, <1>2, <1>5, <1>6 DEF OnlyLeaves, ListedStay, Active, Listed
  <1>8. \A x \in SessionIds : sessions'[x] = IF x = s THEN session ELSE sessions[x]
    BY <1>0, <1>1 DEF TypeOK
  <1>9. session.owner = o /\ session.hash = hash
    OBVIOUS
  <1> HIDE DEF session
  <1>10. SessionsLive'
    BY <1>0, <1>2, <1>5, <1>6, <1>8, <1>9 DEF SessionsLive, Active
  <1>11. \A x \in TokenIds : /\ tokens'[x].kind = tokens[x].kind
                             /\ tokens'[x].owner = tokens[x].owner
                             /\ tokens[x].used => tokens'[x].used
                             /\ tokens'[x] \in TokenRows
    BY <1>0, <1>1 DEF TypeOK, TokenRows
  <1>12. TokensRefer'
    <2>1. \A x \in TokenIds : tokens[x].owner # 0 => tokens[x].owner \in OwnerIds
      BY <1>0 DEF TypeOK, TokenRows
    <2> QED BY <1>0, <1>7, <1>11, <2>1 DEF TokensRefer, ListedStay, Listed
  <1>13. CodesSpent'
    <2>1. code \notin accepted
      <3> SUFFICES ASSUME code \in accepted PROVE FALSE
        OBVIOUS
      <3>1. code[1] = o /\ code[2] = owners[o].hash + 1
        OBVIOUS
      <3>2. owners[o].hash \in Nat
        BY <1>0 DEF TypeOK, OwnerRows
      <3> QED BY <1>3, <3>1, <3>2
    <2>2. replayed' = {}
      BY <1>0, <1>1, <2>1 DEF CodesSpent
    <2>3. ASSUME NEW c \in accepted', owners'[c[1]].state # "none"
          PROVE  /\ c[2] <= owners'[c[1]].hash
                 /\ c[2] = owners'[c[1]].hash => c[3] <= owners'[c[1]].counter
      <3>1. CASE c = code
        <4>1. c[1] = o /\ c[2] = hash /\ c[3] = counter
          BY <3>1
        <4> QED BY <1>2, <1>5, <1>6, <4>1
      <3>2. CASE c \in accepted /\ c[1] = o
        <4>1. c[2] \in Nat /\ owners[o].hash \in Nat /\ c[2] <= owners[o].hash
          BY <1>0, <1>3, <3>2, CodeType DEF TypeOK, OwnerRows
        <4> QED BY <1>5, <1>6, <3>2, <4>1
      <3>3. CASE c \in accepted /\ c[1] # o
        <4>1. c[1] \in OwnerIds
          BY <1>0, <3>3, CodeType
        <4> QED BY <1>0, <1>5, <2>3, <3>3, <4>1 DEF CodesSpent
      <3> QED BY <1>1, <3>1, <3>2, <3>3
    <2> QED BY <2>2, <2>3 DEF CodesSpent
  <1>14. TypeOK'
    <2>1. accepted' \subseteq OwnerIds \X Nat \X Int
      BY <1>0, <1>1, <1>2 DEF TypeOK
    <2>2. owners' \in [OwnerIds -> OwnerRows] /\ sessions' \in [SessionIds -> SessionRows]
      BY <1>0, <1>1, <1>4 DEF TypeOK
    <2>3. tokens' \in [TokenIds -> TokenRows]
      BY <1>0, <1>1, <1>11 DEF TypeOK
    <2> QED BY <1>0, <1>1, <2>1, <2>2, <2>3 DEF TypeOK
  <1> QED BY <1>1, <1>7, <1>10, <1>12, <1>13, <1>14, HoldingsStay DEF SInv

(***************************************************************************)
(* ConsumeCounter raises one counter: the code it accepts is beyond every   *)
(* code accepted under that hash.                                           *)
(***************************************************************************)
LEMMA ConsumeCounterFacts ==
  ASSUME SInv, NEW o \in OwnerIds, NEW hash \in Nat, NEW counter \in Int,
         ConsumeCounter(o, hash, counter), UNCHANGED members
  PROVE  /\ owners' \in [OwnerIds -> OwnerRows] /\ accepted' \subseteq OwnerIds \X Nat \X Int
         /\ Active(o) /\ owners[o].hash = hash
         /\ \A x \in OwnerIds : /\ owners'[x].state = owners[x].state
                                /\ owners'[x].hash = owners[x].hash
         /\ OnlyLeaves(NoHolder) /\ ListedStay /\ CodesSpent'
  <1> DEFINE code == <<o, hash, counter>>
  <1>0. TypeOK /\ CodesSpent
    BY DEF SInv
  <1>1. /\ Active(o) /\ owners[o].hash = hash /\ owners[o].counter < counter
        /\ owners' = [owners EXCEPT ![o].counter = counter]
        /\ accepted' = accepted \cup {code}
        /\ replayed' = IF code \in accepted THEN replayed \cup {code} ELSE replayed
    BY DEF ConsumeCounter, Accept
  <1>2. /\ owners' \in [OwnerIds -> OwnerRows] /\ owners'[o].counter = counter
        /\ \A x \in OwnerIds : /\ owners'[x].state = owners[x].state
                               /\ owners'[x].hash = owners[x].hash
                               /\ x # o => owners'[x] = owners[x]
    BY <1>0, <1>1 DEF TypeOK, OwnerRows
  <1>3. accepted' \subseteq OwnerIds \X Nat \X Int
    BY <1>0, <1>1 DEF TypeOK
  <1>4. owners[o].counter \in Int /\ owners[o].state = "active"
    BY <1>0, <1>1 DEF TypeOK, OwnerRows, Active
  <1>5. code \notin accepted
    <2> SUFFICES ASSUME code \in accepted PROVE FALSE
      OBVIOUS
    <2>1. code[1] = o /\ code[2] = hash /\ code[3] = counter
      OBVIOUS
    <2>2. counter <= owners[o].counter
      BY <1>0, <1>1, <1>4, <2>1 DEF CodesSpent
    <2> QED BY <1>1, <1>4, <2>2
  <1>6. CodesSpent'
    <2>1. replayed' = {}
      BY <1>0, <1>1, <1>5 DEF CodesSpent
    <2>2. ASSUME NEW c \in accepted', owners'[c[1]].state # "none"
          PROVE  /\ c[2] <= owners'[c[1]].hash
                 /\ c[2] = owners'[c[1]].hash => c[3] <= owners'[c[1]].counter
      <3>1. CASE c = code
        <4>1. c[1] = o /\ c[2] = hash /\ c[3] = counter
          BY <3>1
        <4> QED BY <1>1, <1>2, <4>1
      <3>2. CASE c \in accepted
        <4>1. c[1] \in OwnerIds /\ c[3] \in Int
          BY <1>0, <3>2, CodeType
        <4>2. /\ c[2] <= owners[c[1]].hash
              /\ c[2] = owners[c[1]].hash => c[3] <= owners[c[1]].counter
          BY <1>0, <1>2, <2>2, <3>2, <4>1 DEF CodesSpent
        <4>3. owners[c[1]].counter <= owners'[c[1]].counter
          BY <1>0, <1>1, <1>2, <1>4, <4>1 DEF TypeOK, OwnerRows
        <4>4. owners[c[1]].counter \in Int /\ owners'[c[1]].counter \in Int
          BY <1>0, <1>2, <4>1 DEF TypeOK, OwnerRows
        <4> QED BY <1>2, <4>1, <4>2, <4>3, <4>4
      <3> QED BY <1>1, <3>1, <3>2
    <2> QED BY <2>1, <2>2 DEF CodesSpent
  <1>7. OnlyLeaves(NoHolder) /\ ListedStay
    BY <1>2 DEF OnlyLeaves, ListedStay, Active, Listed
  <1> QED BY <1>1, <1>2, <1>3, <1>6, <1>7

\* Signing in adds a session of the active owner, under the hash that was verified.
LEMMA LoginSInv ==
  ASSUME SInv, NEW o \in OwnerIds, NEW hash \in Nat, NEW counter \in Int, NEW s \in SessionIds,
         Login(o, hash, counter, s), req' \in [Clients -> Requests]
  PROVE  SInv'
  <1> DEFINE session == [owner |-> o, hash |-> hash, expires |-> now + SessionTTL, recent |-> now]
  <1>0. TypeOK /\ SessionsLive
    BY DEF SInv
  <1>1. /\ ConsumeCounter(o, hash, counter)
        /\ sessions' = [sessions EXCEPT ![s] = session]
        /\ UNCHANGED <<tokens, members, pairings, devices, now>>
    BY DEF Login, CreateSession, holdings
  <1>2. /\ owners' \in [OwnerIds -> OwnerRows] /\ accepted' \subseteq OwnerIds \X Nat \X Int
        /\ Active(o) /\ owners[o].hash = hash
        /\ \A x \in OwnerIds : /\ owners'[x].state = owners[x].state
                               /\ owners'[x].hash = owners[x].hash
        /\ OnlyLeaves(NoHolder) /\ ListedStay /\ CodesSpent'
    BY <1>1, ConsumeCounterFacts
  <1>3. session \in SessionRows /\ session.owner = o /\ session.hash = hash
    BY <1>0, Numbers DEF SessionRows, TypeOK
  <1> HIDE DEF session
  <1>4. \A x \in SessionIds : sessions'[x] = IF x = s THEN session ELSE sessions[x]
    BY <1>0, <1>1 DEF TypeOK
  <1>5. SessionsLive'
    BY <1>0, <1>2, <1>3, <1>4 DEF SessionsLive, Active
  <1>6. TypeOK'
    BY <1>0, <1>1, <1>2, <1>3 DEF TypeOK
  <1> QED BY <1>1, <1>2, <1>5, <1>6, TokensStay, HoldingsStay DEF SInv

\* Stepping up renews a session that is still the owner's.
LEMMA StepUpSInv ==
  ASSUME SInv, NEW o \in OwnerIds, NEW hash \in Nat, NEW counter \in Int, NEW s \in SessionIds,
         StepUp(s, o, hash, counter), req' \in [Clients -> Requests]
  PROVE  SInv'
  <1>0. TypeOK /\ SessionsLive
    BY DEF SInv
  <1>1. /\ ConsumeCounter(o, hash, counter)
        /\ sessions[s].owner = o
        /\ sessions' = [sessions EXCEPT ![s].recent = now]
        /\ UNCHANGED <<tokens, members, pairings, devices, now>>
    BY DEF StepUp, holdings
  <1>2. /\ owners' \in [OwnerIds -> OwnerRows] /\ accepted' \subseteq OwnerIds \X Nat \X Int
        /\ \A x \in OwnerIds : /\ owners'[x].state = owners[x].state
                               /\ owners'[x].hash = owners[x].hash
        /\ OnlyLeaves(NoHolder) /\ ListedStay /\ CodesSpent'
    BY <1>1, ConsumeCounterFacts
  <1>3. /\ sessions' \in [SessionIds -> SessionRows]
        /\ \A x \in SessionIds : /\ sessions'[x].owner = sessions[x].owner
                                 /\ sessions'[x].hash = sessions[x].hash
                                 /\ x # s => sessions'[x] = sessions[x]
    BY <1>0, <1>1 DEF TypeOK, SessionRows
  <1>4. sessions[s] # NoSession
    BY <1>1, Ids DEF NoSession
  <1>5. SessionsLive'
    BY <1>0, <1>2, <1>3, <1>4 DEF SessionsLive, Active
  <1>6. TypeOK'
    BY <1>0, <1>1, <1>2, <1>3 DEF TypeOK
  <1> QED BY <1>1, <1>2, <1>5, <1>6, TokensStay, HoldingsStay DEF SInv

\* Signing out takes the session with it.
LEMMA LogoutSInv ==
  ASSUME SInv, NEW s \in SessionIds, Logout(s), UNCHANGED req
  PROVE  SInv'
  <1>0. TypeOK /\ SessionsLive
    BY DEF SInv
  <1>1. /\ sessions' = [sessions EXCEPT ![s] = NoSession]
        /\ UNCHANGED <<owners, tokens, members, pairings, devices, now, accepted, replayed>>
    BY DEF Logout, holdings, codes
  <1>2. \A x \in SessionIds : sessions'[x] = IF x = s THEN NoSession ELSE sessions[x]
    BY <1>0, <1>1 DEF TypeOK
  <1>3. SessionsLive'
    BY <1>0, <1>1, <1>2 DEF SessionsLive, Active
  <1>4. TypeOK'
    BY <1>0, <1>1, BlankRows DEF TypeOK
  <1>5. CodesSpent'
    BY <1>1 DEF SInv, CodesSpent
  <1> QED BY <1>1, <1>3, <1>4, <1>5, OwnersUnwritten, TokensStay, HoldingsStay DEF SInv

(***************************************************************************)
(* Setup tokens are written for owners that are listed, or for nobody.      *)
(***************************************************************************)
LEMMA TokensOnly ==
  ASSUME SInv, tokens' \in [TokenIds -> TokenRows],
         \A t \in TokenIds :
           \/ tokens'[t].owner = 0
           \/ /\ tokens'[t].kind = tokens[t].kind /\ tokens'[t].owner = tokens[t].owner
              /\ tokens'[t].used = tokens[t].used,
         UNCHANGED <<owners, members, sessions, pairings, devices, now, codes, req>>
  PROVE  SInv'
  <1>1. TypeOK'
    BY DEF SInv, TypeOK, codes
  <1>2. TokensRefer'
    BY DEF SInv, TokensRefer, Listed
  <1>3. CodesSpent'
    BY DEF SInv, CodesSpent, codes
  <1> QED BY <1>1, <1>2, <1>3, OwnersUnwritten, SessionsStay, HoldingsStay DEF SInv

\* SetupDetails marks that a secret was shown.
LEMMA SetupDetailsSInv ==
  ASSUME SInv, NEW t \in TokenIds, SetupDetails(t), UNCHANGED req
  PROVE  SInv'
  <1>1. /\ tokens' = [tokens EXCEPT ![t].secret = TRUE]
        /\ UNCHANGED <<owners, sessions, members, pairings, devices, now, codes>>
    BY DEF SetupDetails, holdings
  <1>2. /\ tokens' \in [TokenIds -> TokenRows]
        /\ \A u \in TokenIds :
             /\ tokens'[u].kind = tokens[u].kind /\ tokens'[u].owner = tokens[u].owner
             /\ tokens'[u].used = tokens[u].used
    BY <1>1 DEF SInv, TypeOK, TokenRows
  <1> QED BY <1>1, <1>2, TokensOnly

\* The first setup's token is for an owner still to be made.
LEMMA StartFirstSetupSInv ==
  ASSUME SInv, NEW t \in TokenIds, StartFirstSetup(t), UNCHANGED req
  PROVE  SInv'
  <1> DEFINE first == [kind |-> "first", owner |-> 0, secret |-> FALSE,
                       expires |-> now + SetupTokenTTL, used |-> FALSE]
             left == [u \in TokenIds |->
                        IF tokens[u].kind = "first" /\ ~tokens[u].used THEN NoToken ELSE tokens[u]]
  <1>0. TypeOK
    BY DEF SInv
  <1>1. /\ tokens' = [left EXCEPT ![t] = first]
        /\ UNCHANGED <<owners, sessions, members, pairings, devices, now, codes>>
    BY DEF StartFirstSetup, InsertSetupToken, holdings
  <1>2. first \in TokenRows /\ first.owner = 0
    BY <1>0, Numbers DEF TokenRows, TypeOK
  <1> HIDE DEF first
  <1>3. \A u \in TokenIds : left[u] = NoToken \/ left[u] = tokens[u]
    OBVIOUS
  <1>4. left \in [TokenIds -> TokenRows]
    BY <1>0, BlankRows DEF TypeOK
  <1> HIDE DEF left
  <1>5. tokens' \in [TokenIds -> TokenRows]
    BY <1>1, <1>2, <1>4
  <1>6. NoToken.owner = 0
    BY DEF NoToken
  <1>7. \A u \in TokenIds : tokens'[u].owner = 0 \/ tokens'[u] = tokens[u]
    BY <1>1, <1>2, <1>3, <1>4, <1>6
  <1> QED BY <1>1, <1>5, <1>7, TokensOnly

\* An invited owner is listed, and has never had a code.
LEMMA InviteOwnerSInv ==
  ASSUME SInv, NEW o \in OwnerIds, NEW t \in TokenIds, InviteOwner(o, t),
         \A code \in accepted : code[1] # o, req' \in [Clients -> Requests]
  PROVE  SInv'
  <1> DEFINE owner == [NoOwner EXCEPT !.state = "pending"]
             token == [kind |-> "invite", owner |-> o, secret |-> FALSE,
                       expires |-> now + SetupTokenTTL, used |-> FALSE]
  <1>0. TypeOK /\ TokensRefer
    BY DEF SInv
  <1>1. /\ owners[o] = NoOwner /\ owners' = [owners EXCEPT ![o] = owner]
        /\ tokens' = [tokens EXCEPT ![t] = token]
        /\ UNCHANGED <<sessions, members, pairings, devices, now, codes>>
    BY DEF InviteOwner, InsertSetupToken, holdings
  <1>2. owner \in OwnerRows /\ owner.state = "pending" /\ owners[o].state = "none"
    BY <1>1 DEF NoOwner, OwnerRows, Never
  <1>3. token \in TokenRows /\ token.owner = o /\ token.kind = "invite"
    BY <1>0, Numbers DEF TokenRows, TypeOK
  <1> HIDE DEF owner, token
  <1>4. /\ \A x \in OwnerIds : owners'[x] = IF x = o THEN owner ELSE owners[x]
        /\ \A u \in TokenIds : tokens'[u] = IF u = t THEN token ELSE tokens[u]
    BY <1>0, <1>1 DEF TypeOK
  <1>5. OnlyLeaves(NoHolder) /\ ListedStay
    BY <1>1, <1>2, <1>4 DEF OnlyLeaves, ListedStay, Active, Listed
  <1>6. TokensRefer'
    <2>1. \A u \in TokenIds : tokens[u].owner # 0 => tokens[u].owner \in OwnerIds
      BY <1>0 DEF TypeOK, TokenRows
    <2> QED BY <1>0, <1>2, <1>3, <1>4, <1>5, <2>1 DEF TokensRefer, ListedStay, Listed
  <1>7. CodesSpent'
    BY <1>1, <1>4, CodesStay DEF codes
  <1>8. TypeOK'
    BY <1>0, <1>1, <1>2, <1>3 DEF TypeOK, codes
  <1> QED BY <1>1, <1>5, <1>6, <1>7, <1>8, SessionsStay, HoldingsStay DEF SInv

(***************************************************************************)
(* An owner who is reset or removed takes sessions, open codes and devices  *)
(* along, and unused tokens too: the row keeps its hash and counter.        *)
(***************************************************************************)
LEMMA OwnerLeaves ==
  ASSUME SInv, NEW o \in OwnerIds,
         owners' \in [OwnerIds -> OwnerRows],
         \A x \in OwnerIds : x # o => owners'[x] = owners[x],
         owners[o].state # "none", owners'[o].state # "none",
         owners'[o].hash = owners[o].hash, owners'[o].counter = owners[o].counter,
         sessions' = [s \in SessionIds |->
                        IF sessions[s].owner = o THEN NoSession ELSE sessions[s]],
         devices' = RevokeDevicesWhere(<<"owner", o>>),
         pairings' = CancelPairingsWhere(<<"owner", o>>),
         tokens' \in [TokenIds -> TokenRows], TokensRefer',
         UNCHANGED <<members, now, codes>>, req' \in [Clients -> Requests]
  PROVE  SInv'
  <1>0. TypeOK /\ SessionsLive
    BY DEF SInv
  <1>1. <<"owner", o>> \in Holders /\ OnlyLeaves(<<"owner", o>>)
    BY DEF Holders, OnlyLeaves, Active
  <1>2. /\ pairings' \in [PairingIds -> PairingRows] /\ devices' \in [DeviceIds -> DeviceRows]
        /\ PairingsRefer' /\ DevicesRefer'
    BY <1>1, HoldingsLeave
  <1>3. SessionsLive'
    <2>1. \A s \in SessionIds : \/ sessions'[s] = NoSession
                                \/ sessions'[s] = sessions[s] /\ sessions[s].owner # o
      OBVIOUS
    <2> QED BY <1>0, <2>1 DEF SessionsLive, Active
  <1>4. CodesSpent'
    BY CodesStay DEF codes
  <1>5. sessions' \in [SessionIds -> SessionRows]
    BY <1>0, BlankRows DEF TypeOK
  <1>6. TypeOK'
    BY <1>0, <1>2, <1>5 DEF TypeOK, codes
  <1> QED BY <1>2, <1>3, <1>4, <1>6 DEF SInv

\* DropUnused leaves an owner's used tokens and everyone else's.
LEMMA DropUnusedFacts ==
  ASSUME SInv, NEW o \in OwnerIds
  PROVE  /\ DropUnused(o) \in [TokenIds -> TokenRows]
         /\ \A t \in TokenIds : \/ DropUnused(o)[t] = NoToken
                                \/ /\ DropUnused(o)[t] = tokens[t]
                                   /\ tokens[t].owner = o => tokens[t].used
  BY BlankRows DEF DropUnused, SInv, TypeOK

\* ResetOwner leaves an owner to set up again.
LEMMA ResetOwnerSInv ==
  ASSUME SInv, NEW o \in OwnerIds, NEW t \in TokenIds, ResetOwner(o, t), UNCHANGED req
  PROVE  SInv'
  <1> DEFINE token == [kind |-> "reset", owner |-> o, secret |-> FALSE,
                       expires |-> now + SetupTokenTTL, used |-> FALSE]
             left == DropUnused(o)
  <1>0. TypeOK /\ TokensRefer
    BY DEF SInv
  <1>1. /\ Listed(o) /\ owners' = [owners EXCEPT ![o].state = "pending"]
        /\ sessions' = [s \in SessionIds |-> IF sessions[s].owner = o THEN NoSession ELSE sessions[s]]
        /\ tokens' = [left EXCEPT ![t] = token]
        /\ devices' = RevokeDevicesWhere(<<"owner", o>>)
        /\ pairings' = CancelPairingsWhere(<<"owner", o>>)
        /\ UNCHANGED <<members, now, codes>>
    BY DEF ResetOwner, InsertSetupToken
  <1>2. /\ owners' \in [OwnerIds -> OwnerRows] /\ owners[o].state # "none"
        /\ owners'[o].state = "pending" /\ owners'[o].hash = owners[o].hash
        /\ owners'[o].counter = owners[o].counter
        /\ \A x \in OwnerIds : x # o => owners'[x] = owners[x]
    BY <1>0, <1>1 DEF TypeOK, OwnerRows, Listed
  <1>3. token \in TokenRows /\ token.owner = o /\ token.kind = "reset"
    BY <1>0, Numbers DEF TokenRows, TypeOK
  <1> HIDE DEF token
  <1>4. /\ left \in [TokenIds -> TokenRows]
        /\ \A u \in TokenIds : \/ left[u] = NoToken
                               \/ left[u] = tokens[u] /\ (tokens[u].owner = o => tokens[u].used)
    BY DropUnusedFacts
  <1> HIDE DEF left
  <1>5. tokens' \in [TokenIds -> TokenRows]
    BY <1>1, <1>3, <1>4
  <1>6. TokensRefer'
    <2>1. \A u \in TokenIds : tokens[u].owner # 0 => tokens[u].owner \in OwnerIds
      BY <1>0 DEF TypeOK, TokenRows
    <2>2. \A u \in TokenIds : \/ tokens'[u] = token \/ tokens'[u] = NoToken
                              \/ tokens'[u] = tokens[u]
      BY <1>1, <1>4
    <2>3. NoToken.owner = 0 /\ NoToken.kind = "none"
      BY DEF NoToken
    <2> QED BY <1>0, <1>2, <1>3, <2>1, <2>2, <2>3 DEF TokensRefer, Listed
  <1>7. req' \in [Clients -> Requests]
    BY <1>0 DEF TypeOK
  <1> QED BY <1>1, <1>2, <1>5, <1>6, <1>7, OwnerLeaves

\* RemoveOwner leaves an owner removed.
LEMMA RemoveOwnerSInv ==
  ASSUME SInv, NEW o \in OwnerIds, RemoveOwner(o), req' \in [Clients -> Requests]
  PROVE  SInv'
  <1>0. TypeOK /\ TokensRefer
    BY DEF SInv
  <1>1. /\ Listed(o)
        /\ owners' = [owners EXCEPT ![o].state = "removed", ![o].removedAt = now]
        /\ sessions' = [s \in SessionIds |-> IF sessions[s].owner = o THEN NoSession ELSE sessions[s]]
        /\ tokens' = DropUnused(o)
        /\ devices' = RevokeDevicesWhere(<<"owner", o>>)
        /\ pairings' = CancelPairingsWhere(<<"owner", o>>)
        /\ UNCHANGED <<members, now, codes>>
    BY DEF RemoveOwner
  <1>2. /\ owners' \in [OwnerIds -> OwnerRows] /\ owners[o].state # "none"
        /\ owners'[o].state = "removed" /\ owners'[o].hash = owners[o].hash
        /\ owners'[o].counter = owners[o].counter
        /\ \A x \in OwnerIds : x # o => owners'[x] = owners[x]
    <2>1. owners[o] \in OwnerRows /\ now \in Nat /\ owners[o].state # "none"
      BY <1>0, <1>1 DEF TypeOK, Listed
    <2>2. owners' = [owners EXCEPT ![o] = Removed(owners[o], now)]
      BY <1>0, <1>1 DEF Removed, TypeOK
    <2>3. /\ Removed(owners[o], now) \in OwnerRows
          /\ Removed(owners[o], now).state = "removed"
          /\ Removed(owners[o], now).hash = owners[o].hash
          /\ Removed(owners[o], now).counter = owners[o].counter
      BY <2>1, RemovedOwner
    <2> QED BY <1>0, <2>1, <2>2, <2>3 DEF TypeOK
  <1>3. /\ tokens' \in [TokenIds -> TokenRows]
        /\ \A u \in TokenIds : \/ tokens'[u] = NoToken
                               \/ tokens'[u] = tokens[u] /\ (tokens[u].owner = o => tokens[u].used)
    BY <1>1, DropUnusedFacts
  <1>4. TokensRefer'
    <2>1. \A u \in TokenIds : tokens[u].owner # 0 => tokens[u].owner \in OwnerIds
      BY <1>0 DEF TypeOK, TokenRows
    <2>2. NoToken.owner = 0 /\ NoToken.kind = "none"
      BY DEF NoToken
    <2> QED BY <1>0, <1>2, <1>3, <2>1, <2>2 DEF TokensRefer, Listed
  <1> QED BY <1>1, <1>2, <1>3, <1>4, OwnerLeaves

-----------------------------------------------------------------------------
(***************************************************************************)
(* Members come and go with their codes and devices.                        *)
(***************************************************************************)
LEMMA MembersOnly ==
  ASSUME SInv, members' \in [MemberIds -> MemberRows],
         pairings' \in [PairingIds -> PairingRows], devices' \in [DeviceIds -> DeviceRows],
         PairingsRefer', DevicesRefer',
         UNCHANGED <<owners, tokens, sessions, now, codes>>, req' \in [Clients -> Requests]
  PROVE  SInv'
  <1>1. TypeOK'
    BY DEF SInv, TypeOK, codes
  <1>2. SessionsLive' /\ TokensRefer'
    BY DEF SInv, SessionsLive, TokensRefer, Active, Listed
  <1>3. CodesSpent'
    BY DEF SInv, CodesSpent, codes
  <1> QED BY <1>1, <1>2, <1>3 DEF SInv

\* A new member has no rows yet.
LEMMA CreateMemberSInv ==
  ASSUME SInv, NEW m \in MemberIds, CreateMember(m), req' \in [Clients -> Requests]
  PROVE  SInv'
  <1> DEFINE member == [state |-> "listed", removedAt |-> Never]
  <1>0. TypeOK
    BY DEF SInv
  <1>1. /\ members' = [members EXCEPT ![m] = member]
        /\ UNCHANGED <<owners, tokens, sessions, pairings, devices, now, codes>>
    BY DEF CreateMember, credentials
  <1>2. member \in MemberRows /\ member.state = "listed"
    BY DEF MemberRows, Never
  <1> HIDE DEF member
  <1>3. \A x \in MemberIds : members'[x] = IF x = m THEN member ELSE members[x]
    BY <1>0, <1>1 DEF TypeOK
  <1>4. OnlyLeaves(NoHolder)
    BY <1>1, <1>2, <1>3 DEF OnlyLeaves, Active
  <1>5. members' \in [MemberIds -> MemberRows]
    BY <1>0, <1>1, <1>2 DEF TypeOK
  <1>6. PairingsRefer' /\ DevicesRefer'
    BY <1>1, <1>4, HoldingsStay
  <1>7. pairings' \in [PairingIds -> PairingRows] /\ devices' \in [DeviceIds -> DeviceRows]
    BY <1>0, <1>1 DEF TypeOK
  <1> QED BY <1>1, <1>5, <1>6, <1>7, MembersOnly

\* A deleted member leaves no open code and no device.
LEMMA DeleteMemberSInv ==
  ASSUME SInv, NEW m \in MemberIds, DeleteMember(m), req' \in [Clients -> Requests]
  PROVE  SInv'
  <1> DEFINE member == [state |-> "removed", removedAt |-> now]
  <1>0. TypeOK
    BY DEF SInv
  <1>1. /\ members' = [members EXCEPT ![m] = member]
        /\ devices' = RevokeDevicesWhere(<<"member", m>>)
        /\ pairings' = CancelPairingsWhere(<<"member", m>>)
        /\ UNCHANGED <<owners, tokens, sessions, now, codes>>
    BY DEF DeleteMember, credentials
  <1>2. member \in MemberRows /\ member.state = "removed"
    BY <1>0 DEF MemberRows, TypeOK
  <1> HIDE DEF member
  <1>3. \A x \in MemberIds : members'[x] = IF x = m THEN member ELSE members[x]
    BY <1>0, <1>1 DEF TypeOK
  <1>4. <<"member", m>> \in Holders /\ OnlyLeaves(<<"member", m>>)
    BY <1>1, <1>2, <1>3 DEF Holders, OnlyLeaves, Active
  <1>5. members' \in [MemberIds -> MemberRows]
    BY <1>0, <1>1, <1>2 DEF TypeOK
  <1>6. /\ pairings' \in [PairingIds -> PairingRows] /\ devices' \in [DeviceIds -> DeviceRows]
        /\ PairingsRefer' /\ DevicesRefer'
    BY <1>1, <1>4, HoldingsLeave
  <1> QED BY <1>1, <1>5, <1>6, MembersOnly

(***************************************************************************)
(* Pairing codes and devices, with every holder as before.                  *)
(***************************************************************************)
LEMMA HoldersUnwritten ==
  ASSUME UNCHANGED <<owners, members>>, NEW x
  PROVE  HolderKept(x)' = HolderKept(x) /\ HolderLive(x)' = HolderLive(x) /\ HashOf(x)' = HashOf(x)
  BY DEF HolderKept, HolderLive, HashOf, Active

\* What PairingsRefer says of one row, and DevicesRefer of another.
PairingStands(row, table) ==
  /\ row.holder \in Holders => HolderKept(row.holder)
  /\ row.state = "open" => row.holder \in Holders /\ HolderStands(row)
  /\ row.device # 0 => table[row.device].holder \in Holders

DeviceStands(row) ==
  \/ row = NoDevice
  \/ /\ row.holder \in Holders /\ HolderKept(row.holder)
     /\ row.revokedAt = Never => HolderStands(row)

\* Pairings and devices whose rows refer well now do so after a step that leaves holders alone.
LEMMA RowsStand ==
  ASSUME UNCHANGED <<owners, members>>
  PROVE  /\ (\A x \in PairingIds : PairingStands(pairings'[x], devices')) => PairingsRefer'
         /\ (\A x \in DeviceIds : DeviceStands(devices'[x])) => DevicesRefer'
  <1>1. ASSUME \A x \in PairingIds : PairingStands(pairings'[x], devices') PROVE PairingsRefer'
    BY <1>1, HoldersUnwritten DEF PairingsRefer, PairingStands, HolderStands
  <1>2. ASSUME \A x \in DeviceIds : DeviceStands(devices'[x]) PROVE DevicesRefer'
    BY <1>2, HoldersUnwritten DEF DevicesRefer, DeviceStands, HolderStands
  <1> QED BY <1>1, <1>2

\* Steps that write no row but pairings and devices.
LEMMA HoldingsOnly ==
  ASSUME SInv, pairings' \in [PairingIds -> PairingRows], devices' \in [DeviceIds -> DeviceRows],
         PairingsRefer', DevicesRefer',
         UNCHANGED <<owners, members, tokens, sessions, now, codes>>, req' \in [Clients -> Requests]
  PROVE  SInv'
  <1>1. members' \in [MemberIds -> MemberRows]
    BY DEF SInv, TypeOK
  <1> QED BY <1>1, MembersOnly

\* A new code is its live holder's only open one.
LEMMA CreatePairingSInv ==
  ASSUME SInv, NEW p \in PairingIds, NEW h \in Holders, CreatePairing(p, h),
         req' \in [Clients -> Requests]
  PROVE  SInv'
  <1> DEFINE row == [holder |-> h, hash |-> HashOf(h), state |-> "open", at |-> 0,
                     expires |-> now + PairingTTL, device |-> 0]
             left == CancelPairingsWhere(h)
  <1>0. TypeOK /\ PairingsRefer /\ DevicesRefer
    BY DEF SInv
  <1>1. /\ HolderLive(h) /\ pairings' = [left EXCEPT ![p] = row]
        /\ UNCHANGED <<owners, members, tokens, sessions, devices, now, codes>>
    BY DEF CreatePairing, credentials
  <1>2. HashOf(h) \in Nat
    BY <1>0 DEF HashOf, Holders, TypeOK, OwnerRows
  <1>3. /\ row \in PairingRows /\ row.holder = h /\ row.hash = HashOf(h) /\ row.device = 0
        /\ row.state = "open"
    BY <1>0, <1>2, Numbers DEF PairingRows, TypeOK
  <1> HIDE DEF row
  <1>4. \A x \in PairingIds :
          /\ left[x].holder = pairings[x].holder /\ left[x].hash = pairings[x].hash
          /\ left[x].device = pairings[x].device
          /\ left[x].state = "open" => pairings[x].state = "open"
          /\ left[x] \in PairingRows
    BY CancelFacts
  <1>5. DOMAIN left = PairingIds /\ left = [x \in PairingIds |-> left[x]]
    BY DEF CancelPairingsWhere
  <1> HIDE DEF left
  <1>6. pairings' \in [PairingIds -> PairingRows]
    BY <1>1, <1>3, <1>4, <1>5
  <1>7. \A x \in PairingIds : pairings'[x] = IF x = p THEN row ELSE left[x]
    BY <1>1, <1>5
  <1>8. PairingsRefer'
    <2>1. PairingStands(row, devices')
      BY <1>1, <1>3, LiveIsKept DEF PairingStands, HolderStands
    <2>2. \A x \in PairingIds : PairingStands(left[x], devices')
      BY <1>0, <1>1, <1>4 DEF PairingsRefer, PairingStands, HolderStands
    <2>3. \A x \in PairingIds : PairingStands(pairings'[x], devices')
      BY <1>7, <2>1, <2>2
    <2> QED BY <1>1, <2>3, RowsStand
  <1>9. DevicesRefer'
    BY <1>0, <1>1, HoldersUnwritten DEF DevicesRefer, HolderStands
  <1>10. devices' \in [DeviceIds -> DeviceRows]
    BY <1>0, <1>1 DEF TypeOK
  <1> QED BY <1>1, <1>6, <1>8, <1>9, <1>10, HoldingsOnly

\* A cancelled code is not open.
LEMMA CancelPairingSInv ==
  ASSUME SInv, NEW p \in PairingIds, CancelPairing(p), req' \in [Clients -> Requests]
  PROVE  SInv'
  <1> DEFINE row == Cancelled(pairings[p], now)
  <1>0. TypeOK /\ PairingsRefer /\ DevicesRefer
    BY DEF SInv
  <1>1. /\ pairings' = [pairings EXCEPT ![p] = row]
        /\ UNCHANGED <<owners, members, tokens, sessions, devices, now, codes>>
    BY <1>0 DEF CancelPairing, credentials, Cancelled, TypeOK
  <1>2. /\ row \in PairingRows /\ row.state = "cancelled" /\ row.holder = pairings[p].holder
        /\ row.device = pairings[p].device
    BY <1>0, CancelledPairing DEF TypeOK
  <1> HIDE DEF row
  <1>3. \A x \in PairingIds : pairings'[x] = IF x = p THEN row ELSE pairings[x]
    BY <1>0, <1>1 DEF TypeOK
  <1>4. PairingsRefer'
    <2>1. PairingStands(row, devices')
      BY <1>0, <1>1, <1>2 DEF PairingsRefer, PairingStands
    <2>2. \A x \in PairingIds : PairingStands(pairings[x], devices')
      BY <1>0, <1>1 DEF PairingsRefer, PairingStands
    <2>3. \A x \in PairingIds : PairingStands(pairings'[x], devices')
      BY <1>3, <2>1, <2>2
    <2> QED BY <1>1, <2>3, RowsStand
  <1>5. DevicesRefer'
    BY <1>0, <1>1, HoldersUnwritten DEF DevicesRefer, HolderStands
  <1>6. pairings' \in [PairingIds -> PairingRows] /\ devices' \in [DeviceIds -> DeviceRows]
    BY <1>0, <1>1, <1>2 DEF TypeOK
  <1> QED BY <1>1, <1>4, <1>5, <1>6, HoldingsOnly

\* A redeemed code hands its holder to the device: it was open, so the holder is live.
LEMMA RedeemPairingSInv ==
  ASSUME SInv, NEW p \in PairingIds, NEW d \in DeviceIds, RedeemPairing(p, d),
         req' \in [Clients -> Requests]
  PROVE  SInv'
  <1> DEFINE row == Redeemed(pairings[p], now, d)
             device == [holder |-> pairings[p].holder, hash |-> pairings[p].hash,
                        expires |-> now + DeviceTokenTTL, revokedAt |-> Never]
  <1>0. TypeOK /\ PairingsRefer /\ DevicesRefer
    BY DEF SInv
  <1>1. /\ pairings[p].state = "open" /\ devices[d] = NoDevice
        /\ pairings' = [pairings EXCEPT ![p] = row]
        /\ devices' = [devices EXCEPT ![d] = device]
        /\ UNCHANGED <<owners, members, tokens, sessions, now, codes>>
    BY <1>0 DEF RedeemPairing, PairingOpen, credentials, Redeemed, TypeOK
  <1>2. /\ row \in PairingRows /\ row.state = "used" /\ row.holder = pairings[p].holder
        /\ row.device = d
    BY <1>0, RedeemedPairing DEF TypeOK
  <1>3. /\ device \in DeviceRows /\ device.holder = pairings[p].holder
        /\ device.hash = pairings[p].hash
    <2>1. pairings[p].holder \in Holders \cup {NoHolder} /\ pairings[p].hash \in Nat
      BY <1>0 DEF TypeOK, PairingRows
    <2> QED BY <1>0, <2>1, Numbers DEF DeviceRows, TypeOK, Never
  <1> HIDE DEF row, device
  <1>4. /\ pairings[p].holder \in Holders /\ HolderLive(pairings[p].holder)
        /\ pairings[p].hash = HashOf(pairings[p].holder) /\ HolderKept(pairings[p].holder)
    BY <1>0, <1>1, LiveIsKept DEF PairingsRefer, HolderStands
  <1>5. /\ \A x \in PairingIds : pairings'[x] = IF x = p THEN row ELSE pairings[x]
        /\ \A x \in DeviceIds : devices'[x] = IF x = d THEN device ELSE devices[x]
    BY <1>0, <1>1 DEF TypeOK
  <1>6. \A x \in DeviceIds : devices[x].holder \in Holders => devices'[x].holder \in Holders
    BY <1>3, <1>4, <1>5
  <1>7. \A x \in PairingIds : pairings[x].device # 0 => pairings[x].device \in DeviceIds
    BY <1>0 DEF TypeOK, PairingRows
  <1>8. PairingsRefer'
    <2>1. PairingStands(row, devices')
      BY <1>2, <1>3, <1>4, <1>5 DEF PairingStands
    <2>2. \A x \in PairingIds : PairingStands(pairings[x], devices')
      BY <1>0, <1>6, <1>7 DEF PairingsRefer, PairingStands
    <2>3. \A x \in PairingIds : PairingStands(pairings'[x], devices')
      BY <1>5, <2>1, <2>2
    <2> QED BY <1>1, <2>3, RowsStand
  <1>9. DevicesRefer'
    <2>1. DeviceStands(device)
      BY <1>3, <1>4 DEF DeviceStands, HolderStands
    <2>2. \A x \in DeviceIds : DeviceStands(devices[x])
      BY <1>0 DEF DevicesRefer, DeviceStands
    <2>3. \A x \in DeviceIds : DeviceStands(devices'[x])
      BY <1>5, <2>1, <2>2
    <2> QED BY <1>1, <2>3, RowsStand
  <1>10. pairings' \in [PairingIds -> PairingRows] /\ devices' \in [DeviceIds -> DeviceRows]
    BY <1>0, <1>1, <1>2, <1>3 DEF TypeOK
  <1> QED BY <1>1, <1>8, <1>9, <1>10, HoldingsOnly

\* Disconnect and RevokeDevice revoke one device.
LEMMA RevokeSInv ==
  ASSUME SInv, NEW d \in DeviceIds, devices[d] # NoDevice,
         devices' = [devices EXCEPT ![d].revokedAt = now],
         UNCHANGED <<owners, members, tokens, sessions, pairings, now, codes>>,
         req' \in [Clients -> Requests]
  PROVE  SInv'
  <1>0. TypeOK /\ PairingsRefer /\ DevicesRefer
    BY DEF SInv
  <1>1. /\ devices' \in [DeviceIds -> DeviceRows]
        /\ \A x \in DeviceIds : /\ devices'[x].holder = devices[x].holder
                                /\ devices'[x].hash = devices[x].hash
                                /\ x # d => devices'[x] = devices[x]
        /\ devices'[d].revokedAt = now
    BY <1>0 DEF TypeOK, DeviceRows
  <1>2. now # Never
    BY <1>0, BlankRows DEF TypeOK
  <1>3. \A x \in PairingIds : pairings[x].device # 0 => pairings[x].device \in DeviceIds
    BY <1>0 DEF TypeOK, PairingRows
  <1>4. PairingsRefer'
    BY <1>0, <1>1, <1>3, HoldersUnwritten DEF PairingsRefer, HolderStands
  <1>5. DevicesRefer'
    BY <1>0, <1>1, <1>2, HoldersUnwritten DEF DevicesRefer, HolderStands
  <1>6. pairings' \in [PairingIds -> PairingRows]
    BY <1>0 DEF TypeOK
  <1> QED BY <1>1, <1>4, <1>5, <1>6, HoldingsOnly

-----------------------------------------------------------------------------
(***************************************************************************)
(* Maintenance purges a device only after the pairings that name it, and a  *)
(* removed holder only when no pairing and no device is left.               *)
(***************************************************************************)
LEMMA StaleFirst ==
  ASSUME TypeOK
  PROVE  ExpiredDevices(now - DeviceRetention) \subseteq ExpiredDevices(now - PairingRetention)
  <1>1. now - DeviceRetention <= now - PairingRetention
    BY Numbers DEF TypeOK
  <1>2. \A d \in DeviceIds : devices[d].revokedAt \in Int /\ devices[d].expires \in Int
    BY DEF TypeOK, DeviceRows
  <1>3. now - DeviceRetention \in Int /\ now - PairingRetention \in Int
    BY Numbers DEF TypeOK
  <1> HIDE DEF TypeOK
  <1> QED BY <1>1, <1>2, <1>3 DEF ExpiredDevices

\* What one pass does to each table.
LEMMA MaintainFacts ==
  ASSUME TypeOK, Maintain
  PROVE  /\ \A s \in SessionIds : sessions'[s] \in {sessions[s], NoSession}
         /\ \A t \in TokenIds : tokens'[t] = NoToken \/ (tokens'[t] = tokens[t] /\ ~tokens[t].used)
         /\ \A p \in PairingIds :
              \/ pairings'[p] = NoPairing
              \/ /\ pairings'[p] = pairings[p]
                 /\ pairings[p].device \in DeviceIds =>
                      devices'[pairings[p].device] = devices[pairings[p].device]
         /\ \A d \in DeviceIds : devices'[d] \in {devices[d], NoDevice}
         /\ \A o \in OwnerIds :
              \/ owners'[o] = owners[o]
              \/ /\ owners'[o] = NoOwner /\ owners[o].state = "removed"
                 /\ \A p \in PairingIds : pairings'[p].holder # <<"owner", o>>
                 /\ \A d \in DeviceIds : devices'[d].holder # <<"owner", o>>
         /\ \A m \in MemberIds :
              \/ members'[m] = members[m]
              \/ /\ members'[m] = NoMember /\ members[m].state = "removed"
                 /\ \A p \in PairingIds : pairings'[p].holder # <<"member", m>>
                 /\ \A d \in DeviceIds : devices'[d].holder # <<"member", m>>
         /\ UNCHANGED <<now, codes>>
  <1>1. \A s \in SessionIds : sessions'[s] \in {sessions[s], NoSession}
    BY DEF Maintain
  <1>2. \A t \in TokenIds : tokens'[t] = NoToken \/ (tokens'[t] = tokens[t] /\ ~tokens[t].used)
    <2>1. tokens' = [t \in TokenIds |->
                       IF tokens[t].expires <= now \/ tokens[t].used THEN NoToken ELSE tokens[t]]
      BY DEF Maintain
    <2> TAKE t \in TokenIds
    <2>2. tokens'[t] = IF tokens[t].expires <= now \/ tokens[t].used THEN NoToken ELSE tokens[t]
      BY <2>1
    <2>3. CASE tokens[t].used
      BY <2>2, <2>3
    <2>4. CASE ~tokens[t].used
      <3>1. tokens'[t] = NoToken \/ tokens'[t] = tokens[t]
        BY <2>2
      <3> QED BY <2>4, <3>1
    <2> QED BY <2>3, <2>4
  <1>3. \A d \in DeviceIds : devices'[d] \in {devices[d], NoDevice}
    BY DEF Maintain
  <1>4. \A d \in DeviceIds :
          d \notin ExpiredDevices(now - DeviceRetention) => devices'[d] = devices[d]
    BY DEF Maintain
  <1>5. \A p \in PairingIds :
          \/ pairings'[p] = NoPairing
          \/ /\ pairings'[p] = pairings[p]
             /\ pairings[p].device \notin ExpiredDevices(now - PairingRetention)
    BY DEF Maintain
  <1>6. \A o \in OwnerIds :
          \/ owners'[o] = owners[o]
          \/ /\ owners'[o] = NoOwner /\ owners[o].state = "removed"
             /\ \A p \in PairingIds : pairings'[p].holder # <<"owner", o>>
             /\ \A d \in DeviceIds : devices'[d].holder # <<"owner", o>>
    BY DEF Maintain
  <1>7. \A m \in MemberIds :
          \/ members'[m] = members[m]
          \/ /\ members'[m] = NoMember /\ members[m].state = "removed"
             /\ \A p \in PairingIds : pairings'[p].holder # <<"member", m>>
             /\ \A d \in DeviceIds : devices'[d].holder # <<"member", m>>
    BY DEF Maintain
  <1>8. UNCHANGED <<now, codes>>
    BY DEF Maintain
  <1> QED BY <1>1, <1>2, <1>3, <1>4, <1>5, <1>6, <1>7, <1>8, StaleFirst

\* A pass takes nothing that another row, or an accepted code, still needs.
LEMMA MaintainSInv ==
  ASSUME SInv, Maintain, UNCHANGED req
  PROVE  SInv'
  <1>0. TypeOK /\ SessionsLive /\ TokensRefer /\ PairingsRefer /\ DevicesRefer
    BY DEF SInv
  <1>1. /\ \A s \in SessionIds : sessions'[s] \in {sessions[s], NoSession}
        /\ \A t \in TokenIds : tokens'[t] = NoToken \/ (tokens'[t] = tokens[t] /\ ~tokens[t].used)
        /\ \A d \in DeviceIds : devices'[d] \in {devices[d], NoDevice}
        /\ UNCHANGED <<now, codes>>
    BY <1>0, MaintainFacts
  <1>2. \A p \in PairingIds :
          \/ pairings'[p] = NoPairing
          \/ /\ pairings'[p] = pairings[p]
             /\ pairings[p].device \in DeviceIds =>
                  devices'[pairings[p].device] = devices[pairings[p].device]
    BY <1>0, MaintainFacts
  <1>3. \A o \in OwnerIds :
          \/ owners'[o] = owners[o]
          \/ /\ owners'[o] = NoOwner /\ owners[o].state = "removed"
             /\ \A p \in PairingIds : pairings'[p].holder # <<"owner", o>>
             /\ \A d \in DeviceIds : devices'[d].holder # <<"owner", o>>
    BY <1>0, MaintainFacts
  <1>4. \A m \in MemberIds :
          \/ members'[m] = members[m]
          \/ /\ members'[m] = NoMember /\ members[m].state = "removed"
             /\ \A p \in PairingIds : pairings'[p].holder # <<"member", m>>
             /\ \A d \in DeviceIds : devices'[d].holder # <<"member", m>>
    BY <1>0, MaintainFacts
  <1>5. /\ owners' = [o \in OwnerIds |-> owners'[o]] /\ members' = [m \in MemberIds |-> members'[m]]
        /\ tokens' = [t \in TokenIds |-> tokens'[t]]
        /\ sessions' = [s \in SessionIds |-> sessions'[s]]
        /\ pairings' = [p \in PairingIds |-> pairings'[p]]
        /\ devices' = [d \in DeviceIds |-> devices'[d]]
    BY DEF Maintain
  <1>6. TypeOK'
    <2>1. owners' \in [OwnerIds -> OwnerRows] /\ members' \in [MemberIds -> MemberRows]
      BY <1>0, <1>3, <1>4, <1>5, BlankRows DEF TypeOK
    <2>2. tokens' \in [TokenIds -> TokenRows] /\ sessions' \in [SessionIds -> SessionRows]
      BY <1>0, <1>1, <1>5, BlankRows DEF TypeOK
    <2>3. pairings' \in [PairingIds -> PairingRows] /\ devices' \in [DeviceIds -> DeviceRows]
      BY <1>0, <1>1, <1>2, <1>5, BlankRows DEF TypeOK
    <2> QED BY <1>0, <1>1, <2>1, <2>2, <2>3 DEF TypeOK, codes
  <1>7. \A o \in OwnerIds : Listed(o) => owners'[o] = owners[o]
    BY <1>3 DEF Listed
  <1>8. SessionsLive'
    <2>1. \A o \in OwnerIds : Active(o) => owners'[o] = owners[o]
      BY <1>7 DEF Active, Listed
    <2>2. \A s \in SessionIds : sessions[s] # NoSession =>
            /\ sessions[s].owner \in OwnerIds
            /\ owners'[sessions[s].owner].state = "active"
            /\ sessions[s].hash = owners'[sessions[s].owner].hash
      BY <1>0, <2>1 DEF SessionsLive, Active
    <2>3. \A s \in SessionIds : sessions'[s] \in {sessions[s], NoSession}
      BY <1>1
    <2> QED BY <2>2, <2>3 DEF SessionsLive, Active
  <1>9. TokensRefer'
    <2>1. \A t \in TokenIds : tokens[t].owner # 0 => tokens[t].owner \in OwnerIds
      BY <1>0 DEF TypeOK, TokenRows
    <2>2. NoToken.owner = 0 /\ NoToken.kind = "none"
      BY DEF NoToken
    <2> QED BY <1>0, <1>1, <1>7, <2>1, <2>2 DEF TokensRefer, Listed
  <1>10. \A h \in Holders :
           /\ HolderLive(h) => HolderLive(h)' /\ HashOf(h)' = HashOf(h)
           /\ HolderKept(h) /\ (\/ \E p \in PairingIds : pairings'[p].holder = h
                                \/ \E d \in DeviceIds : devices'[d].holder = h)
                => HolderKept(h)'
    <2> TAKE h \in Holders
    <2>1. CASE h \in {"owner"} \X OwnerIds
      <3>1. PICK o \in OwnerIds : h = <<"owner", o>>
        BY <2>1
      <3> QED BY <1>3, <1>7, <3>1 DEF HolderLive, HolderKept, HashOf, Active, Listed
    <2>2. CASE h \in {"member"} \X MemberIds
      <3>1. PICK m \in MemberIds : h = <<"member", m>>
        BY <2>2
      <3> QED BY <1>4, <3>1 DEF HolderLive, HolderKept, HashOf
    <2> QED BY <2>1, <2>2 DEF Holders
  <1>11. PairingsRefer'
    <2> SUFFICES ASSUME NEW p \in PairingIds
                 PROVE  /\ pairings'[p].holder \in Holders => HolderKept(pairings[p].holder)'
                        /\ pairings'[p].state = "open" => /\ pairings'[p].holder \in Holders
                                                          /\ HolderStands(pairings[p])'
                        /\ pairings'[p].device # 0 =>
                             devices'[pairings'[p].device].holder \in Holders
      BY DEF PairingsRefer
    <2>1. CASE pairings'[p] = NoPairing
      <3>1. NoPairing.holder \notin Holders /\ NoPairing.state = "none" /\ NoPairing.device = 0
        BY BlankRows DEF NoPairing
      <3> QED BY <2>1, <3>1
    <2>2. CASE pairings'[p] = pairings[p] /\ pairings'[p] # NoPairing
      <3>1. pairings[p].device # 0 => pairings[p].device \in DeviceIds
        BY <1>0 DEF TypeOK, PairingRows
      <3> QED BY <1>0, <1>2, <1>10, <2>2, <3>1 DEF PairingsRefer, HolderStands
    <2> QED BY <1>2, <2>1, <2>2
  <1>12. DevicesRefer'
    BY <1>0, <1>1, <1>10 DEF DevicesRefer, HolderStands
  <1>13. CodesSpent'
    <2>1. NoOwner.state = "none"
      BY DEF NoOwner
    <2> QED BY <1>1, <1>3, <2>1, CodesStay DEF codes
  <1> QED BY <1>6, <1>8, <1>9, <1>11, <1>12, <1>13 DEF SInv

-----------------------------------------------------------------------------
(***************************************************************************)
(* Requests: what a handler has read is typed, and writing ends it.         *)
(***************************************************************************)
LEMMA DoneType ==
  ASSUME TypeOK, NEW c \in Clients, Done(c)
  PROVE  req' \in [Clients -> Requests]
  <1>1. Idle \in Requests
    BY DEF Idle, Requests
  <1> QED BY <1>1 DEF TypeOK, Done

\* The fields of a request are there when its op says so.
LEMMA RequestFields ==
  ASSUME TypeOK, NEW c \in Clients
  PROVE  /\ req[c].op = "owner" => req[c].owner \in OwnerIds
         /\ req[c].op = "login" => /\ req[c].owner \in OwnerIds /\ req[c].hash \in Nat
                                   /\ req[c].counter \in Int
         /\ req[c].op = "stepup" => /\ req[c].owner \in OwnerIds /\ req[c].hash \in Nat
                                    /\ req[c].counter \in Int /\ req[c].session \in SessionIds
         /\ req[c].op = "setup" => req[c].token \in TokenIds /\ req[c].counter \in Int
  <1>1. req[c] \in Requests
    BY DEF TypeOK
  <1> QED BY <1>1 DEF Requests

\* Reading writes no table.
LEMMA BeginSInv ==
  ASSUME SInv, NEW c \in Clients, Begin(c)
  PROVE  SInv'
  <1>0. TypeOK /\ SessionsLive
    BY DEF SInv
  <1>1. \A x \in CodeCounters : x \in Int
    BY <1>0 DEF CodeCounters, TypeOK
  <1>2. \A o \in OwnerIds : owners[o].hash \in Nat
    BY <1>0 DEF TypeOK, OwnerRows
  <1>3. \A s \in SessionIds : SessionValid(s) => sessions[s].owner \in OwnerIds
    BY <1>0 DEF SessionsLive, SessionValid
  <1>4. UNCHANGED storeVars /\ \E r \in Requests : req' = [req EXCEPT ![c] = r]
    <2>1. ASSUME NEW s \in SessionIds, BeginOwner(c, s)
          PROVE  UNCHANGED storeVars /\ \E r \in Requests : req' = [req EXCEPT ![c] = r]
      <3> DEFINE r == [op |-> "owner", owner |-> sessions[s].owner, recent |-> RecentAuth(s)]
      <3>1. UNCHANGED storeVars /\ req' = [req EXCEPT ![c] = r]
        BY <2>1 DEF BeginOwner
      <3>2. RecentAuth(s) \in BOOLEAN
        BY DEF RecentAuth
      <3>3. r \in Requests
        BY <1>3, <2>1, <3>2 DEF Requests, BeginOwner
      <3> QED BY <3>1, <3>3
    <2>2. ASSUME NEW o \in OwnerIds, NEW counter \in CodeCounters, BeginLogin(c, o, counter)
          PROVE  UNCHANGED storeVars /\ \E r \in Requests : req' = [req EXCEPT ![c] = r]
      BY <1>1, <1>2, <2>2 DEF BeginLogin, Requests
    <2>3. ASSUME NEW s \in SessionIds, NEW counter \in CodeCounters, BeginStepUp(c, s, counter)
          PROVE  UNCHANGED storeVars /\ \E r \in Requests : req' = [req EXCEPT ![c] = r]
      BY <1>1, <1>2, <1>3, <2>3 DEF BeginStepUp, Requests
    <2>4. ASSUME NEW t \in TokenIds, NEW counter \in CodeCounters, BeginSetup(c, t, counter)
          PROVE  UNCHANGED storeVars /\ \E r \in Requests : req' = [req EXCEPT ![c] = r]
      BY <1>1, <2>4 DEF BeginSetup, Requests
    <2>5. ASSUME BeginLink(c)
          PROVE  UNCHANGED storeVars /\ \E r \in Requests : req' = [req EXCEPT ![c] = r]
      BY <2>5 DEF BeginLink, Requests
    <2> QED BY <2>1, <2>2, <2>3, <2>4, <2>5 DEF Begin
  <1>5. req' \in [Clients -> Requests]
    BY <1>0, <1>4 DEF TypeOK
  <1>6. UNCHANGED <<owners, members, tokens, sessions, pairings, devices, codes, now>>
    BY <1>4 DEF storeVars, credentials, holdings
  <1>7. now' \in Nat
    BY <1>0, <1>6 DEF TypeOK
  <1> QED BY <1>5, <1>6, <1>7, NothingWritten

\* A new owner's id is one no accepted code names; the other new ids are ids.
LEMMA NewIds ==
  ASSUME TypeOK
  PROVE  /\ \A o \in NewOwner : o \in OwnerIds /\ \A code \in accepted : code[1] # o
         /\ NewToken \subseteq TokenIds /\ NewSession \subseteq SessionIds
         /\ Fresh(members, NoMember, {}) \subseteq MemberIds
         /\ Fresh(pairings, NoPairing, {}) \subseteq PairingIds
         /\ Fresh(devices, NoDevice, {}) \subseteq DeviceIds
  <1>1. /\ DOMAIN owners = OwnerIds /\ DOMAIN tokens = TokenIds /\ DOMAIN sessions = SessionIds
        /\ DOMAIN members = MemberIds /\ DOMAIN pairings = PairingIds
        /\ DOMAIN devices = DeviceIds
    BY DEF TypeOK
  <1>2. \A o \in NewOwner : o \in OwnerIds /\ \A code \in accepted : code[1] # o
    BY <1>1 DEF NewOwner, Fresh
  <1>3. NewToken \subseteq TokenIds /\ NewSession \subseteq SessionIds
    BY <1>1 DEF NewToken, NewSession, Fresh
  <1>4. /\ Fresh(members, NoMember, {}) \subseteq MemberIds
        /\ Fresh(pairings, NoPairing, {}) \subseteq PairingIds
        /\ Fresh(devices, NoDevice, {}) \subseteq DeviceIds
    BY <1>1 DEF Fresh
  <1> QED BY <1>2, <1>3, <1>4

(***************************************************************************)
(* A request's write preserves the invariant, whatever committed between    *)
(* its read and now.                                                        *)
(***************************************************************************)
LEMMA WriteSInv ==
  ASSUME SInv, NEW c \in Clients, Write(c)
  PROVE  SInv'
  <1>0. TypeOK /\ TokensRefer
    BY DEF SInv
  <1> DEFINE Goal == SInv'
  <1> SUFFICES Goal
    OBVIOUS
  <1>1. ASSUME Done(c) PROVE req' \in [Clients -> Requests]
    BY <1>0, <1>1, DoneType
  <1>2. ASSUME UNCHANGED <<owners, members, tokens, sessions, pairings, devices, now, codes>>,
               Done(c)
        PROVE  Goal
    <2>1. now' \in Nat
      BY <1>0, <1>2 DEF TypeOK
    <2> QED BY <1>1, <1>2, <2>1, NothingWritten
  <1> HIDE DEF Goal
  <1>3. CASE setupComplete(c)
    <2>1. /\ req[c].op = "setup" /\ Done(c)
          /\ \E o \in (NewOwner \cup {tokens[req[c].token].owner}) \ {0}, s \in NewSession :
               CompleteSetup(req[c].token, o, req[c].counter, s)
      BY <1>3 DEF setupComplete
    <2>2. PICK o \in (NewOwner \cup {tokens[req[c].token].owner}) \ {0}, s \in NewSession :
               CompleteSetup(req[c].token, o, req[c].counter, s)
      BY <2>1
    <2>3. req[c].token \in TokenIds /\ req[c].counter \in Int /\ s \in SessionIds
      BY <1>0, <2>1, RequestFields, NewIds
    <2>4. tokens[req[c].token].owner \in OwnerIds \cup {0}
      BY <1>0, <2>3 DEF TypeOK, TokenRows
    <2>5. o \in OwnerIds
      BY <1>0, <2>4, NewIds
    <2>6. tokens[req[c].token].kind = "first" => \A code \in accepted : code[1] # o
      BY <1>0, <2>3, NewIds DEF TokensRefer
    <2> QED BY <1>1, <2>1, <2>2, <2>3, <2>5, <2>6, CompleteSetupSInv DEF Goal
  <1>4. CASE login(c)
    <2>1. req[c].op = "login" /\ Done(c)
      BY <1>4 DEF login
    <2>2. PICK s \in NewSession : Login(req[c].owner, req[c].hash, req[c].counter, s)
      BY <1>4 DEF login
    <2>3. /\ req[c].owner \in OwnerIds /\ req[c].hash \in Nat /\ req[c].counter \in Int
          /\ s \in SessionIds
      BY <1>0, <2>1, RequestFields, NewIds
    <2> QED BY <1>1, <2>1, <2>2, <2>3, LoginSInv DEF Goal
  <1>5. CASE stepUp(c)
    <2>1. /\ req[c].op = "stepup" /\ Done(c)
          /\ StepUp(req[c].session, req[c].owner, req[c].hash, req[c].counter)
      BY <1>5 DEF stepUp
    <2>2. /\ req[c].owner \in OwnerIds /\ req[c].hash \in Nat /\ req[c].counter \in Int
          /\ req[c].session \in SessionIds
      BY <1>0, <2>1, RequestFields
    <2> QED BY <1>1, <2>1, <2>2, StepUpSInv DEF Goal
  <1>6. CASE inviteOwner(c)
    <2>1. Done(c) /\ \E o \in NewOwner, t \in NewToken : InviteOwner(o, t)
      BY <1>6 DEF inviteOwner
    <2> QED BY <1>0, <1>1, <2>1, NewIds, InviteOwnerSInv DEF Goal
  <1>7. CASE removeOwner(c)
    BY <1>1, <1>7, RemoveOwnerSInv DEF removeOwner, Goal
  <1>8. CASE createMember(c)
    BY <1>0, <1>1, <1>8, NewIds, CreateMemberSInv DEF createMember, Goal
  <1>9. CASE renameMember(c)
    <2>1. UNCHANGED <<owners, members, tokens, sessions, pairings, devices, now, codes>> /\ Done(c)
      BY <1>9 DEF renameMember, RenameMember, credentials, holdings
    <2> QED BY <1>2, <2>1
  <1>10. CASE deleteMember(c)
    BY <1>1, <1>10, DeleteMemberSInv DEF deleteMember, Goal
  <1>11. CASE createPairing(c)
    <2>1. req[c].op = "owner" /\ Done(c)
      BY <1>11 DEF createPairing, Confirmed
    <2>2. PICK p \in Fresh(pairings, NoPairing, {}),
               h \in {<<"owner", req[c].owner>>} \cup ({"member"} \X MemberIds) :
            CreatePairing(p, h)
      BY <1>11 DEF createPairing
    <2>3. p \in PairingIds /\ req[c].owner \in OwnerIds
      BY <1>0, <2>1, NewIds, RequestFields
    <2>4. <<"owner", req[c].owner>> \in Holders /\ {"member"} \X MemberIds \subseteq Holders
      BY <2>3 DEF Holders
    <2>5. h \in Holders
      BY <2>2, <2>4, Zenon
    <2> QED BY <1>1, <2>1, <2>2, <2>3, <2>5, CreatePairingSInv DEF Goal
  <1>12. CASE cancelPairing(c)
    BY <1>1, <1>12, CancelPairingSInv DEF cancelPairing, Goal
  <1>13. CASE revokeDevice(c)
    <2>1. Done(c)
      BY <1>13 DEF revokeDevice
    <2>2. PICK d \in DeviceIds : RevokeDevice(d)
      BY <1>13 DEF revokeDevice
    <2>3. /\ devices[d] # NoDevice
          /\ UNCHANGED <<owners, members, tokens, sessions, pairings, now, codes>>
          /\ devices' = [devices EXCEPT ![d].revokedAt = now] \/ UNCHANGED devices
      BY <2>2 DEF RevokeDevice, credentials
    <2>4. CASE devices' = [devices EXCEPT ![d].revokedAt = now]
      BY <1>1, <2>1, <2>3, <2>4, RevokeSInv DEF Goal
    <2>5. CASE UNCHANGED devices
      BY <1>2, <2>1, <2>3, <2>5
    <2> QED BY <2>3, <2>4, <2>5
  <1>14. CASE patchFlag(c)
    <2>1. UNCHANGED <<owners, members, tokens, sessions, pairings, devices, now, codes>> /\ Done(c)
      BY <1>14 DEF patchFlag, SetFlag, credentials, holdings
    <2> QED BY <1>2, <2>1
  <1>15. CASE desktopLink(c)
    <2>1. Done(c) /\ \E p \in PairingIds, d \in Fresh(devices, NoDevice, {}) : RedeemPairing(p, d)
      BY <1>15 DEF desktopLink
    <2> QED BY <1>0, <1>1, <2>1, NewIds, RedeemPairingSInv DEF Goal
  <1> QED BY <1>3, <1>4, <1>5, <1>6, <1>7, <1>8, <1>9, <1>10, <1>11, <1>12, <1>13, <1>14, <1>15
          DEF Write

(***************************************************************************)
(* Every step preserves the invariant.                                      *)
(***************************************************************************)
LEMMA StepSInv ==
  ASSUME SInv, [Next]_vars
  PROVE  SInv'
  <1>0. TypeOK /\ req \in [Clients -> Requests] /\ now \in Nat
    BY DEF SInv, TypeOK
  <1> DEFINE Goal == SInv'
  <1> SUFFICES Goal
    OBVIOUS
  <1>1. CASE Tick
    <2>1. /\ UNCHANGED <<owners, members, tokens, sessions, pairings, devices, codes, req>>
          /\ now' = now + 1
      BY <1>1 DEF Tick, credentials, holdings
    <2>2. now' \in Nat /\ req' \in [Clients -> Requests]
      BY <1>0, <2>1
    <2> QED BY <2>1, <2>2, NothingWritten
  <1>2. CASE MaintainJob
    BY <1>2, MaintainSInv DEF MaintainJob
  <1>3. ASSUME NEW c \in Clients, Begin(c) PROVE Goal
    BY <1>3, BeginSInv
  <1>4. ASSUME NEW c \in Clients, Abandon(c) PROVE Goal
    <2>1. UNCHANGED <<owners, members, tokens, sessions, pairings, devices, codes, now>> /\ Done(c)
      BY <1>4 DEF Abandon, storeVars, credentials, holdings
    <2>2. now' \in Nat /\ req' \in [Clients -> Requests]
      BY <1>0, <2>1, DoneType
    <2> QED BY <2>1, <2>2, NothingWritten
  <1>5. ASSUME NEW t \in TokenIds, setupDetails(t) PROVE Goal
    BY <1>5, SetupDetailsSInv DEF setupDetails
  <1>6. ASSUME NEW s \in SessionIds, logout(s) PROVE Goal
    BY <1>6, LogoutSInv DEF logout
  <1>7. CASE Device
    <2>1. PICK d \in DeviceIds : Disconnect(d) /\ UNCHANGED req
      BY <1>7 DEF Device, desktopDisconnect
    <2>2. /\ devices[d] # NoDevice /\ devices' = [devices EXCEPT ![d].revokedAt = now]
          /\ UNCHANGED <<owners, members, tokens, sessions, pairings, now, codes>>
      BY <2>1 DEF Disconnect, AuthenticateDevice, credentials
    <2>3. req' \in [Clients -> Requests]
      BY <1>0, <2>1
    <2> QED BY <2>2, <2>3, RevokeSInv
  <1>8. CASE Operator
    <2>1. NewToken \subseteq TokenIds
      BY <1>0, NewIds
    <2>2. CASE announceFirstSetup
      BY <2>1, <2>2, StartFirstSetupSInv DEF announceFirstSetup
    <2>3. ASSUME NEW o \in OwnerIds, ownerReset(o) PROVE Goal
      BY <2>1, <2>3, ResetOwnerSInv DEF ownerReset
    <2> QED BY <1>8, <2>2, <2>3 DEF Operator
  <1>9. ASSUME NEW c \in Clients, Write(c) PROVE Goal
    BY <1>9, WriteSInv
  <1>10. CASE UNCHANGED vars
    <2>1. UNCHANGED <<owners, members, tokens, sessions, pairings, devices, codes, now, req>>
      BY <1>10 DEF vars, storeVars, credentials, holdings
    <2>2. now' \in Nat /\ req' \in [Clients -> Requests]
      BY <1>0, <2>1
    <2> QED BY <2>1, <2>2, NothingWritten
  <1> HIDE DEF Goal
  <1> QED BY <1>1, <1>2, <1>3, <1>4, <1>5, <1>6, <1>7, <1>8, <1>9, <1>10 DEF Next

\* A new database satisfies the invariant.
LEMMA InitSInv ==
  ASSUME Init
  PROVE  SInv
  <1>1. /\ owners = [o \in OwnerIds |-> NoOwner] /\ members = [m \in MemberIds |-> NoMember]
        /\ tokens = [t \in TokenIds |-> NoToken] /\ sessions = [s \in SessionIds |-> NoSession]
        /\ pairings = [p \in PairingIds |-> NoPairing] /\ devices = [d \in DeviceIds |-> NoDevice]
        /\ now = 1 /\ accepted = {} /\ replayed = {} /\ req = [c \in Clients |-> Idle]
    BY DEF Init, Empty
  <1>2. Idle \in Requests
    BY DEF Idle, Requests
  <1>3. TypeOK
    BY <1>1, <1>2, BlankRows DEF TypeOK
  <1>4. /\ NoPairing.holder \notin Holders /\ NoPairing.state = "none" /\ NoPairing.device = 0
        /\ NoToken.owner = 0 /\ NoToken.kind = "none"
    BY BlankRows DEF NoPairing, NoToken
  <1>5. SessionsLive /\ DevicesRefer /\ CodesSpent
    BY <1>1 DEF SessionsLive, DevicesRefer, CodesSpent
  <1>6. TokensRefer
    BY <1>1, <1>4 DEF TokensRefer
  <1>7. PairingsRefer
    BY <1>1, <1>4 DEF PairingsRefer
  <1> QED BY <1>3, <1>5, <1>6, <1>7 DEF SInv

\* The invariant gives what the properties say of answers.
LEMMA SInvIsSound ==
  ASSUME SInv
  PROVE  HolderLives /\ CodeUsedOnce /\ ReferencesHold
  <1>0. TypeOK /\ SessionsLive /\ TokensRefer /\ PairingsRefer /\ DevicesRefer /\ CodesSpent
    BY DEF SInv
  <1>1. HolderLives
    <2>1. \A s \in SessionIds : SessionValid(s) => sessions[s].hash = owners[sessions[s].owner].hash
      BY <1>0 DEF SessionsLive, SessionValid
    <2>2. \A p \in ListPairings : HolderLive(pairings[p].holder)
                                  /\ pairings[p].hash = HashOf(pairings[p].holder)
      BY <1>0 DEF PairingsRefer, ListPairings, PairingOpen, HolderStands
    <2>3. \A d \in ListDevices : HolderLive(devices[d].holder)
                                 /\ devices[d].hash = HashOf(devices[d].holder)
      BY <1>0 DEF DevicesRefer, ListDevices, AuthenticateDevice, HolderStands
    <2> QED BY <2>1, <2>2, <2>3 DEF HolderLives
  <1>2. CodeUsedOnce
    BY <1>0 DEF CodesSpent, CodeUsedOnce
  <1>3. ReferencesHold
    <2>0. /\ NoOwner.state = "none" /\ NoMember.state = "none"
          /\ NoDevice.holder \notin Holders
      BY BlankRows DEF NoOwner, NoMember, NoDevice
    <2>1. \A s \in SessionIds : sessions[s] # NoSession => owners[sessions[s].owner] # NoOwner
      BY <1>0, <2>0 DEF SessionsLive, Active
    <2>2. \A t \in TokenIds : tokens[t].owner # 0 => owners[tokens[t].owner] # NoOwner
      BY <1>0, <2>0 DEF TokensRefer
    <2>3. \A p \in PairingIds : pairings[p].device # 0 => devices[pairings[p].device] # NoDevice
      BY <1>0, <2>0 DEF PairingsRefer
    <2>4. ASSUME NEW h \in Holders,
                 \/ \E p \in PairingIds : pairings[p].holder = h
                 \/ \E d \in DeviceIds : devices[d].holder = h
          PROVE  IF h[1] = "owner" THEN owners[h[2]] # NoOwner ELSE members[h[2]] # NoMember
      <3>1. HolderKept(h)
        BY <1>0, <2>0, <2>4 DEF PairingsRefer, DevicesRefer
      <3> QED BY <2>0, <3>1 DEF HolderKept
    <2> QED BY <2>1, <2>2, <2>3, <2>4 DEF ReferencesHold
  <1> QED BY <1>1, <1>2, <1>3

(***************************************************************************)
(* Whatever requests, commands and maintenance passes interleave: sessions, *)
(* listed codes and devices are of live holders under their current         *)
(* password, no authenticator code is taken twice, and no row refers to one *)
(* that was purged.                                                         *)
(***************************************************************************)
THEOREM SelfHostSafe == Spec => [](HolderLives /\ CodeUsedOnce /\ ReferencesHold)
  <1>1. Init => SInv
    BY InitSInv
  <1>2. SInv /\ [Next]_vars => SInv'
    BY StepSInv
  <1>3. SInv => HolderLives /\ CodeUsedOnce /\ ReferencesHold
    BY SInvIsSound
  <1> QED BY <1>1, <1>2, <1>3, PTL DEF Spec

-----------------------------------------------------------------------------
(***************************************************************************)
(* Owners: a step leaves every active owner active, or leaves some owner    *)
(* active who was or became so, or is a reset of an active one.             *)
(***************************************************************************)
OwnersStep ==
  \/ \A o \in OwnerIds : Active(o) => owners'[o].state = "active"
  \/ \E o \in OwnerIds : owners'[o].state = "active"
  \/ \E o \in OwnerIds : owners[o].state = "active" /\ owners'[o].state = "pending"

\* What has ended, table by table, as EndedStays says of a step.
EndedKept ==
  /\ \A d \in DeviceIds : devices[d].revokedAt # Never => devices'[d] \in {devices[d], NoDevice}
  /\ \A p \in PairingIds :
       pairings[p].state \in {"used", "cancelled"} => pairings'[p] \in {pairings[p], NoPairing}
  /\ \A t \in TokenIds : tokens[t].used => tokens'[t] \in {tokens[t], NoToken}
  /\ \A o \in OwnerIds : owners[o].state = "removed" => owners'[o] \in {owners[o], NoOwner}
  /\ \A m \in MemberIds : members[m].state = "removed" => members'[m] \in {members[m], NoMember}

\* Cancelling and revoking by holder, and dropping unused tokens, pass over what has ended.
LEMMA EndedPassedOver ==
  ASSUME NEW h, NEW o
  PROVE  /\ \A p \in PairingIds : pairings[p].state # "open" =>
              CancelPairingsWhere(h)[p] = pairings[p]
         /\ \A d \in DeviceIds : devices[d].revokedAt # Never =>
              RevokeDevicesWhere(h)[d] = devices[d]
         /\ \A t \in TokenIds : tokens[t].used => DropUnused(o)[t] = tokens[t]
  <1>1. \A p \in PairingIds : pairings[p].state # "open" =>
          CancelPairingsWhere(h)[p] = pairings[p]
    BY DEF CancelPairingsWhere
  <1>2. \A d \in DeviceIds : devices[d].revokedAt # Never =>
          RevokeDevicesWhere(h)[d] = devices[d]
    BY DEF RevokeDevicesWhere
  <1>3. \A t \in TokenIds : tokens[t].used => DropUnused(o)[t] = tokens[t]
    BY DEF DropUnused
  <1> QED BY <1>1, <1>2, <1>3

\* A blank token is unused.
LEMMA BlankToken ==
  ASSUME NEW t \in NewToken
  PROVE  tokens[t] = NoToken /\ ~tokens[t].used
  BY DEF NewToken, Fresh, NoToken

\* An owner is removed only while another one is active.
LEMMA OthersCounted ==
  ASSUME NEW o, CountOthers(o) > 0
  PROVE  \E x \in OwnerIds : x # o /\ Active(x)
  <1> SUFFICES ASSUME ActiveOwners \ {o} = {} PROVE FALSE
    BY DEF ActiveOwners
  <1>1. CountOthers(o) = 0
    BY FS_EmptySet DEF CountOthers
  <1> QED BY <1>1

\* Steps that write no table.
LEMMA QuietStep ==
  ASSUME UNCHANGED <<owners, members, tokens, pairings, devices>>
  PROVE  OwnersStep /\ EndedKept
  BY DEF OwnersStep, EndedKept, Active

\* Completing a setup spends an unused token and makes an owner active who was not removed.
LEMMA CompleteSetupStep ==
  ASSUME TypeOK, NEW t \in TokenIds, NEW o \in OwnerIds, NEW counter, NEW s,
         CompleteSetup(t, o, counter, s)
  PROVE  OwnersStep /\ EndedKept
  <1> DEFINE owner == [state |-> "active", hash |-> owners[o].hash + 1, counter |-> counter,
                       removedAt |-> Never]
  <1>1. /\ ~tokens[t].used /\ tokens' = [tokens EXCEPT ![t].used = TRUE]
        /\ owners' = [owners EXCEPT ![o] = owner]
        /\ UNCHANGED <<members, pairings, devices>>
    BY DEF CompleteSetup, holdings
  <1>2. owners[o].state # "removed"
    BY DEF CompleteSetup, NoOwner
  <1>3. owners'[o].state = "active" /\ \A x \in OwnerIds : x # o => owners'[x] = owners[x]
    BY <1>1 DEF TypeOK
  <1>4. \A u \in TokenIds : u # t => tokens'[u] = tokens[u]
    BY <1>1 DEF TypeOK
  <1>5. OwnersStep
    BY <1>3 DEF OwnersStep
  <1>6. \A u \in TokenIds : tokens[u].used => tokens'[u] \in {tokens[u], NoToken}
    BY <1>1, <1>4
  <1>7. EndedKept
    BY <1>1, <1>2, <1>3, <1>6 DEF EndedKept
  <1> QED BY <1>5, <1>7

\* Signing in and stepping up write an active owner's counter.
LEMMA CounterStep ==
  ASSUME TypeOK, NEW o \in OwnerIds, NEW hash, NEW counter, ConsumeCounter(o, hash, counter),
         UNCHANGED <<members, tokens, pairings, devices>>
  PROVE  OwnersStep /\ EndedKept
  <1>1. /\ owners[o].state = "active" /\ owners'[o].state = "active"
        /\ \A x \in OwnerIds : x # o => owners'[x] = owners[x]
    BY DEF ConsumeCounter, Active, TypeOK, OwnerRows
  <1> QED BY <1>1 DEF OwnersStep, EndedKept

\* A new token takes a blank row's place.
LEMMA TokenStep ==
  ASSUME TypeOK, NEW t \in NewToken, NEW kind, NEW o, NEW left,
         DOMAIN left = TokenIds, tokens' = InsertSetupToken(t, kind, o, left),
         \A u \in TokenIds : tokens[u].used => left[u] = tokens[u]
  PROVE  \A u \in TokenIds : tokens[u].used => tokens'[u] \in {tokens[u], NoToken}
  <1>1. ~tokens[t].used
    BY BlankToken
  <1>2. \A u \in TokenIds : u # t => tokens'[u] = left[u]
    BY DEF InsertSetupToken
  <1> QED BY <1>1, <1>2

\* Inviting writes a blank owner.
LEMMA InviteOwnerStep ==
  ASSUME TypeOK, NEW o \in OwnerIds, NEW t \in NewToken, InviteOwner(o, t)
  PROVE  OwnersStep /\ EndedKept
  <1>1. /\ owners[o] = NoOwner /\ UNCHANGED <<members, pairings, devices>>
        /\ tokens' = InsertSetupToken(t, "invite", o, tokens)
        /\ \A x \in OwnerIds : x # o => owners'[x] = owners[x]
    BY DEF InviteOwner, TypeOK, holdings
  <1>2. owners[o].state = "none"
    BY <1>1, BlankColumns
  <1>3. \A u \in TokenIds : tokens[u].used => tokens'[u] \in {tokens[u], NoToken}
    BY <1>1, TokenStep DEF TypeOK
  <1> QED BY <1>1, <1>2, <1>3 DEF OwnersStep, EndedKept, Active

\* The first setup's token takes a blank row, and no owner is touched.
LEMMA StartFirstSetupStep ==
  ASSUME TypeOK, NEW t \in NewToken, StartFirstSetup(t)
  PROVE  OwnersStep /\ EndedKept
  <1> DEFINE left == [u \in TokenIds |->
                        IF tokens[u].kind = "first" /\ ~tokens[u].used THEN NoToken ELSE tokens[u]]
  <1>1. /\ tokens' = InsertSetupToken(t, "first", 0, left)
        /\ UNCHANGED <<owners, members, pairings, devices>>
    BY DEF StartFirstSetup, holdings
  <1>2. DOMAIN left = TokenIds /\ \A u \in TokenIds : tokens[u].used => left[u] = tokens[u]
    OBVIOUS
  <1> HIDE DEF left
  <1>3. \A u \in TokenIds : tokens[u].used => tokens'[u] \in {tokens[u], NoToken}
    BY <1>1, <1>2, TokenStep
  <1> QED BY <1>1, <1>3 DEF OwnersStep, EndedKept, Active

\* A reset writes a listed owner; an active one becomes pending.
LEMMA ResetOwnerStep ==
  ASSUME TypeOK, NEW o \in OwnerIds, NEW t \in NewToken, ResetOwner(o, t)
  PROVE  OwnersStep /\ EndedKept
  <1>1. /\ owners[o].state # "removed" /\ UNCHANGED members
        /\ tokens' = InsertSetupToken(t, "reset", o, DropUnused(o))
        /\ pairings' = CancelPairingsWhere(<<"owner", o>>)
        /\ devices' = RevokeDevicesWhere(<<"owner", o>>)
        /\ owners'[o].state = "pending"
        /\ \A x \in OwnerIds : x # o => owners'[x] = owners[x]
    BY DEF ResetOwner, TypeOK, OwnerRows, Listed
  <1>2. DOMAIN DropUnused(o) = TokenIds
    BY DEF DropUnused
  <1>3. \A u \in TokenIds : tokens[u].used => tokens'[u] \in {tokens[u], NoToken}
    <2>1. \A u \in TokenIds : tokens[u].used => DropUnused(o)[u] = tokens[u]
      BY DEF DropUnused
    <2> QED BY <1>1, <1>2, <2>1, TokenStep
  <1>4. EndedKept
    BY <1>1, <1>3, EndedPassedOver DEF EndedKept
  <1>5. OwnersStep
    BY <1>1 DEF OwnersStep, Active
  <1> QED BY <1>4, <1>5

\* A removal writes a listed owner, and leaves another active one if that owner was active.
LEMMA RemoveOwnerStep ==
  ASSUME TypeOK, NEW o \in OwnerIds, RemoveOwner(o)
  PROVE  OwnersStep /\ EndedKept
  <1>1. /\ owners[o].state # "removed" /\ UNCHANGED members
        /\ tokens' = DropUnused(o)
        /\ pairings' = CancelPairingsWhere(<<"owner", o>>)
        /\ devices' = RevokeDevicesWhere(<<"owner", o>>)
        /\ Active(o) => CountOthers(o) > 0
        /\ \A x \in OwnerIds : x # o => owners'[x] = owners[x]
    BY DEF RemoveOwner, TypeOK, Listed
  <1>2. EndedKept
    BY <1>1, EndedPassedOver DEF EndedKept
  <1>3. OwnersStep
    <2>1. CASE Active(o)
      <3>1. PICK x \in OwnerIds : x # o /\ Active(x)
        BY <1>1, <2>1, OthersCounted
      <3> QED BY <1>1, <3>1 DEF OwnersStep, Active
    <2>2. CASE ~Active(o)
      BY <1>1, <2>2 DEF OwnersStep, Active
    <2> QED BY <2>1, <2>2
  <1> QED BY <1>2, <1>3

\* Members: a blank row is filled, a listed one removed.
LEMMA MemberStep ==
  ASSUME TypeOK, NEW m \in MemberIds, CreateMember(m) \/ DeleteMember(m)
  PROVE  OwnersStep /\ EndedKept
  <1>1. CASE CreateMember(m)
    <2>1. /\ members[m].state = "none" /\ \A x \in MemberIds : x # m => members'[x] = members[x]
          /\ UNCHANGED <<owners, tokens, pairings, devices>>
      BY <1>1 DEF CreateMember, credentials, NoMember, TypeOK
    <2> QED BY <2>1 DEF OwnersStep, EndedKept, Active
  <1>2. CASE DeleteMember(m)
    <2>1. /\ members[m].state = "listed"
          /\ \A x \in MemberIds : x # m => members'[x] = members[x]
          /\ pairings' = CancelPairingsWhere(<<"member", m>>)
          /\ devices' = RevokeDevicesWhere(<<"member", m>>)
          /\ UNCHANGED <<owners, tokens>>
      BY <1>2 DEF DeleteMember, credentials, TypeOK
    <2> QED BY <2>1, EndedPassedOver DEF OwnersStep, EndedKept, Active
  <1> QED BY <1>1, <1>2

\* Pairings: a blank row is filled, an open one cancelled or used.
LEMMA PairingStep ==
  ASSUME TypeOK, NEW p \in PairingIds,
         \/ \E h : CreatePairing(p, h)
         \/ CancelPairing(p)
         \/ \E d \in DeviceIds : RedeemPairing(p, d)
  PROVE  OwnersStep /\ EndedKept
  <1>1. ASSUME NEW h, CreatePairing(p, h) PROVE OwnersStep /\ EndedKept
    <2>0. UNCHANGED <<owners, members, tokens, devices>> /\ pairings[p] = NoPairing
      BY <1>1 DEF CreatePairing, credentials
    <2>1. UNCHANGED <<owners, members, tokens, devices>> /\ pairings[p].state = "none"
      BY <2>0, BlankColumns
    <2>2. DOMAIN CancelPairingsWhere(h) = PairingIds
      BY DEF CancelPairingsWhere
    <2>3. \A x \in PairingIds : x # p => pairings'[x] = CancelPairingsWhere(h)[x]
      BY <1>1, <2>2 DEF CreatePairing
    <2> QED BY <2>1, <2>3, EndedPassedOver DEF OwnersStep, EndedKept, Active
  <1>2. CASE CancelPairing(p)
    <2>1. /\ UNCHANGED <<owners, members, tokens, devices>> /\ pairings[p].state = "open"
          /\ \A x \in PairingIds : x # p => pairings'[x] = pairings[x]
      BY <1>2 DEF CancelPairing, PairingOpen, credentials, TypeOK
    <2> QED BY <2>1 DEF OwnersStep, EndedKept, Active
  <1>3. ASSUME NEW d \in DeviceIds, RedeemPairing(p, d) PROVE OwnersStep /\ EndedKept
    <2>1. /\ UNCHANGED <<owners, members, tokens>> /\ pairings[p].state = "open"
          /\ devices[d] = NoDevice
      BY <1>3 DEF RedeemPairing, PairingOpen, credentials
    <2>2. devices[d].revokedAt = Never
      BY <2>1, BlankColumns
    <2>3. \A x \in PairingIds : x # p => pairings'[x] = pairings[x]
      BY <1>3 DEF RedeemPairing, TypeOK
    <2>4. \A x \in DeviceIds : x # d => devices'[x] = devices[x]
      BY <1>3 DEF RedeemPairing, TypeOK
    <2> QED BY <2>1, <2>2, <2>3, <2>4 DEF OwnersStep, EndedKept, Active
  <1> QED BY <1>1, <1>2, <1>3

\* Devices: only one that is not revoked is written.
LEMMA DeviceStep ==
  ASSUME TypeOK, NEW d \in DeviceIds, Disconnect(d) \/ RevokeDevice(d)
  PROVE  OwnersStep /\ EndedKept
  <1>1. /\ UNCHANGED <<owners, members, tokens, pairings>>
        /\ \/ /\ devices[d].revokedAt = Never
              /\ \A x \in DeviceIds : x # d => devices'[x] = devices[x]
           \/ UNCHANGED devices
    BY DEF Disconnect, RevokeDevice, AuthenticateDevice, credentials, TypeOK
  <1> QED BY <1>1 DEF OwnersStep, EndedKept, Active

\* A maintenance pass only purges, and no active owner.
LEMMA MaintainStep ==
  ASSUME TypeOK, Maintain
  PROVE  OwnersStep /\ EndedKept
  <1>1. /\ \A t \in TokenIds : tokens'[t] = NoToken \/ tokens'[t] = tokens[t]
        /\ \A p \in PairingIds : pairings'[p] = NoPairing \/ pairings'[p] = pairings[p]
        /\ \A d \in DeviceIds : devices'[d] \in {devices[d], NoDevice}
    BY MaintainFacts
  <1>2. /\ \A o \in OwnerIds :
             \/ owners'[o] = owners[o]
             \/ owners'[o] = NoOwner /\ owners[o].state = "removed"
        /\ \A m \in MemberIds : members'[m] = members[m] \/ members'[m] = NoMember
    BY MaintainFacts
  <1>3. EndedKept
    BY <1>1, <1>2 DEF EndedKept
  <1>4. OwnersStep
    BY <1>2 DEF OwnersStep, Active
  <1> QED BY <1>3, <1>4

(***************************************************************************)
(* Every step, by action.                                                   *)
(***************************************************************************)
LEMMA EveryStep ==
  ASSUME TypeOK, [Next]_vars
  PROVE  OwnersStep /\ EndedKept
  <1> DEFINE Goal == OwnersStep /\ EndedKept
  <1> SUFFICES Goal
    OBVIOUS
  <1>1. ASSUME UNCHANGED <<owners, members, tokens, pairings, devices>> PROVE Goal
    BY <1>1, QuietStep
  <1>2. CASE MaintainJob
    BY <1>2, MaintainStep DEF MaintainJob
  <1>3. ASSUME NEW t \in TokenIds, setupDetails(t) PROVE Goal
    <2>1. /\ ~tokens[t].used /\ tokens' = [tokens EXCEPT ![t].secret = TRUE]
          /\ UNCHANGED <<owners, members, pairings, devices>>
      BY <1>3 DEF setupDetails, SetupDetails, SetupTokenFound, holdings
    <2>2. \A u \in TokenIds : u # t => tokens'[u] = tokens[u]
      BY <2>1 DEF TypeOK
    <2>3. \A u \in TokenIds : tokens[u].used => tokens'[u] \in {tokens[u], NoToken}
      BY <2>1, <2>2
    <2> QED BY <2>1, <2>3 DEF OwnersStep, EndedKept, Active
  <1>4. CASE Device
    BY <1>4, DeviceStep DEF Device, desktopDisconnect
  <1>5. CASE Operator
    <2>1. CASE announceFirstSetup
      BY <2>1, StartFirstSetupStep DEF announceFirstSetup
    <2>2. ASSUME NEW o \in OwnerIds, ownerReset(o) PROVE Goal
      BY <2>2, ResetOwnerStep DEF ownerReset
    <2> QED BY <1>5, <2>1, <2>2 DEF Operator
  <1>6. ASSUME NEW c \in Clients, Write(c) PROVE Goal
    <2> HIDE DEF Goal
    <2>1. CASE setupComplete(c)
      <3>1. req[c].op = "setup"
        BY <2>1 DEF setupComplete
      <3>2. PICK o \in (NewOwner \cup {tokens[req[c].token].owner}) \ {0}, s \in NewSession :
                 CompleteSetup(req[c].token, o, req[c].counter, s)
        BY <2>1 DEF setupComplete
      <3>3. req[c].token \in TokenIds
        BY <3>1, RequestFields
      <3>4. tokens[req[c].token].owner \in OwnerIds \cup {0}
        BY <3>3 DEF TypeOK, TokenRows
      <3>5. o \in OwnerIds
        BY <3>4, NewIds
      <3> QED BY <3>2, <3>3, <3>5, CompleteSetupStep DEF Goal
    <2>2. CASE login(c)
      <3>1. req[c].op = "login"
        BY <2>2 DEF login
      <3>2. PICK s \in NewSession : Login(req[c].owner, req[c].hash, req[c].counter, s)
        BY <2>2 DEF login
      <3>3. /\ ConsumeCounter(req[c].owner, req[c].hash, req[c].counter)
            /\ UNCHANGED <<members, tokens, pairings, devices>>
        BY <3>2 DEF Login, holdings
      <3>4. req[c].owner \in OwnerIds
        BY <3>1, RequestFields
      <3> QED BY <3>3, <3>4, CounterStep DEF Goal
    <2>3. CASE stepUp(c)
      <3>1. /\ req[c].op = "stepup"
            /\ ConsumeCounter(req[c].owner, req[c].hash, req[c].counter)
            /\ UNCHANGED <<members, tokens, pairings, devices>>
        BY <2>3 DEF stepUp, StepUp, holdings
      <3>2. req[c].owner \in OwnerIds
        BY <3>1, RequestFields
      <3> QED BY <3>1, <3>2, CounterStep DEF Goal
    <2>4. CASE inviteOwner(c)
      BY <2>4, NewIds, InviteOwnerStep DEF inviteOwner, Goal
    <2>5. CASE removeOwner(c)
      BY <2>5, RemoveOwnerStep DEF removeOwner, Goal
    <2>6. CASE createMember(c) \/ deleteMember(c)
      BY <2>6, NewIds, MemberStep DEF createMember, deleteMember, Goal
    <2>7. CASE renameMember(c)
      BY <1>1, <2>7 DEF renameMember, RenameMember, credentials, holdings
    <2>8. CASE createPairing(c) \/ cancelPairing(c)
      <3>1. \E p \in PairingIds : CancelPairing(p) \/ \E h : CreatePairing(p, h)
        BY <2>8, NewIds DEF createPairing, cancelPairing
      <3> QED BY <3>1, PairingStep DEF Goal
    <2>9. CASE revokeDevice(c)
      BY <2>9, DeviceStep DEF revokeDevice, Goal
    <2>10. CASE patchFlag(c)
      BY <1>1, <2>10 DEF patchFlag, SetFlag, credentials, holdings
    <2>11. CASE desktopLink(c)
      BY <2>11, NewIds, PairingStep DEF desktopLink, Goal
    <2> QED BY <1>6, <2>1, <2>2, <2>3, <2>4, <2>5, <2>6, <2>7, <2>8, <2>9, <2>10, <2>11 DEF Write
  <1>7. CASE Tick
    BY <1>1, <1>7 DEF Tick, credentials, holdings
  <1>8. ASSUME NEW c \in Clients, Begin(c) \/ Abandon(c) PROVE Goal
    <2>1. UNCHANGED storeVars
      BY <1>8 DEF Begin, Abandon, BeginOwner, BeginLogin, BeginStepUp, BeginSetup, BeginLink
    <2> QED BY <1>1, <2>1 DEF storeVars, credentials, holdings
  <1>9. ASSUME NEW s \in SessionIds, logout(s) PROVE Goal
    BY <1>1, <1>9 DEF logout, Logout, holdings
  <1>10. CASE UNCHANGED vars
    BY <1>1, <1>10 DEF vars, storeVars, credentials, holdings
  <1> HIDE DEF Goal
  <1> QED BY <1>2, <1>3, <1>4, <1>5, <1>6, <1>7, <1>8, <1>9, <1>10 DEF Next

(***************************************************************************)
(* A server that has an active owner keeps one, unless the operator resets  *)
(* the last of them: RemoveOwner counts the others in its own transaction.  *)
(***************************************************************************)
THEOREM LastOwnerKept == Spec => LastOwnerStays
  <1>1. Init => SInv
    BY InitSInv
  <1>2. SInv /\ [Next]_vars => SInv'
    BY StepSInv
  <1>3. SInv /\ [Next]_vars =>
          [ActiveOwners # {} /\ ActiveOwners' = {}
             => \E o \in OwnerIds : owners[o].state = "active" /\ owners'[o].state = "pending"]_vars
    <2> SUFFICES ASSUME SInv, [Next]_vars, ActiveOwners # {}, ActiveOwners' = {}
                 PROVE  \E o \in OwnerIds :
                          owners[o].state = "active" /\ owners'[o].state = "pending"
      OBVIOUS
    <2>1. OwnersStep
      BY EveryStep DEF SInv
    <2>2. \A o \in OwnerIds : owners'[o].state # "active"
      BY DEF ActiveOwners, Active
    <2>3. \E o \in OwnerIds : Active(o)
      BY DEF ActiveOwners
    <2> QED BY <2>1, <2>2, <2>3 DEF OwnersStep
  <1> QED BY <1>1, <1>2, <1>3, PTL DEF Spec, LastOwnerStays

(***************************************************************************)
(* What has ended stays ended until it is purged, through every request     *)
(* that read it before it ended.                                            *)
(***************************************************************************)
THEOREM EndedFinal == Spec => EndedStays
  <1>1. Init => SInv
    BY InitSInv
  <1>2. SInv /\ [Next]_vars => SInv'
    BY StepSInv
  <1>3. SInv /\ [Next]_vars => EndedKept
    BY EveryStep DEF SInv
  <1> QED BY <1>1, <1>2, <1>3, PTL DEF Spec, EndedStays, EndedKept
=============================================================================
