--------------------------- MODULE SelfHostStore ---------------------------
(***************************************************************************)
(* The tables of the self-hosted server that decide who may act             *)
(* (internal/selfhost/sqlitestore): owners with their setup tokens and      *)
(* sessions, members, pairing codes, linked devices, and the two flags.     *)
(*                                                                          *)
(* One operator per store function.  Each is the transaction of Store.write *)
(* in its committing form: a guard that fails is a rollback, and then the   *)
(* tables do not change.  Reads are operators without primes.               *)
(*                                                                          *)
(* Names, user agents and device details are left out: a name only finds    *)
(* the one live row that bears it.  A password hash is the number of times  *)
(* its owner has completed a setup, since every hash is salted afresh, and  *)
(* the same number stands for the authenticator secret set with it.         *)
(***************************************************************************)
EXTENDS Integers, FiniteSets

CONSTANTS OwnerIds, MemberIds, TokenIds, SessionIds, PairingIds, DeviceIds,
          SetupTokenTTL, SessionTTL, RecentAuthWindow, PairingTTL, DeviceTokenTTL,
          PairingRetention, DeviceRetention, HolderRetention

ASSUME StoreAssumption ==
  /\ OwnerIds \cup MemberIds \cup TokenIds \cup SessionIds \cup PairingIds \cup DeviceIds
       \subseteq Nat \ {0}
  /\ {SetupTokenTTL, SessionTTL, RecentAuthWindow, PairingTTL, DeviceTokenTTL} \subseteq Nat
  /\ {PairingRetention, DeviceRetention, HolderRetention} \subseteq Nat
  /\ PairingRetention <= DeviceRetention

VARIABLES owners, members, tokens, sessions, pairings, devices,
          linking,  \* the flag desktop_linking_enabled
          syncing,  \* the flag sync_enabled
          seq,      \* the last row of audit_log
          now,      \* Store.clock
          accepted, \* authenticator codes accepted so far
          replayed  \* and those accepted more than once

credentials == <<owners, tokens, sessions>>
holdings == <<members, pairings, devices>>
switches == <<linking, syncing>>
codes == <<accepted, replayed>>
storeVars == <<credentials, holdings, switches, seq, now, codes>>

Never == -1

NoOwner == [state |-> "none", hash |-> 0, counter |-> 0, removedAt |-> Never]
NoMember == [state |-> "none", removedAt |-> Never]
NoToken == [kind |-> "none", owner |-> 0, secret |-> FALSE, expires |-> 0, used |-> FALSE]
NoSession == [owner |-> 0, hash |-> 0, expires |-> 0, recent |-> 0]
NoHolder == <<"none", 0>>
NoPairing == [holder |-> NoHolder, hash |-> 0, state |-> "none", at |-> 0, expires |-> 0, device |-> 0]
NoDevice == [holder |-> NoHolder, hash |-> 0, expires |-> 0, revokedAt |-> Never]

Holders == ({"owner"} \X OwnerIds) \cup ({"member"} \X MemberIds)

Active(o) == owners[o].state = "active"
Listed(o) == owners[o].state \in {"pending", "active"}
ActiveOwners == {o \in OwnerIds : Active(o)}

\* Mutant: invited owners who never set a password are counted too.
CountInvited(o) == Cardinality({x \in OwnerIds : Listed(x)} \ {o})

\* countActiveOwners
CountOthers(o) == Cardinality(ActiveOwners \ {o})

Audit == seq' = seq + 1

-----------------------------------------------------------------------------
(* members.go *)

RevokeDevicesWhere(holder) ==
  [d \in DeviceIds |->
     IF devices[d].holder = holder /\ devices[d].revokedAt = Never
     THEN [devices[d] EXCEPT !.revokedAt = now] ELSE devices[d]]

\* Mutant: codes already used are cancelled too.
CancelEveryPairing(holder) ==
  [p \in PairingIds |->
     IF pairings[p].holder = holder /\ pairings[p].state # "cancelled"
     THEN [pairings[p] EXCEPT !.state = "cancelled", !.at = now] ELSE pairings[p]]

CancelPairingsWhere(holder) ==
  [p \in PairingIds |->
     IF pairings[p].holder = holder /\ pairings[p].state = "open"
     THEN [pairings[p] EXCEPT !.state = "cancelled", !.at = now] ELSE pairings[p]]

CreateMember(m) ==
  /\ members[m] = NoMember
  /\ members' = [members EXCEPT ![m] = [state |-> "listed", removedAt |-> Never]]
  /\ Audit
  /\ UNCHANGED <<credentials, pairings, devices, switches, now, codes>>

RenameMember(m) ==
  /\ members[m].state = "listed"
  /\ Audit
  /\ UNCHANGED <<credentials, holdings, switches, now, codes>>

DeleteMember(m) ==
  /\ members[m].state = "listed"
  /\ members' = [members EXCEPT ![m] = [state |-> "removed", removedAt |-> now]]
  /\ devices' = RevokeDevicesWhere(<<"member", m>>)
  /\ pairings' = CancelPairingsWhere(<<"member", m>>)
  /\ Audit
  /\ UNCHANGED <<credentials, switches, now, codes>>

-----------------------------------------------------------------------------
(* owners.go: setup *)

InsertSetupToken(t, kind, o, table) ==
  [table EXCEPT ![t] = [kind |-> kind, owner |-> o, secret |-> FALSE,
                        expires |-> now + SetupTokenTTL, used |-> FALSE]]

DropUnused(o) == [t \in TokenIds |-> IF tokens[t].owner = o /\ ~tokens[t].used THEN NoToken ELSE tokens[t]]

StartFirstSetup(t) ==
  /\ CountOthers(0) = 0
  /\ tokens' = InsertSetupToken(t, "first", 0,
       [u \in TokenIds |-> IF tokens[u].kind = "first" /\ ~tokens[u].used THEN NoToken ELSE tokens[u]])
  /\ Audit
  /\ UNCHANGED <<owners, sessions, holdings, switches, now, codes>>

InviteOwner(o, t) ==
  /\ owners[o] = NoOwner
  /\ owners' = [owners EXCEPT ![o] = [NoOwner EXCEPT !.state = "pending"]]
  /\ tokens' = InsertSetupToken(t, "invite", o, tokens)
  /\ Audit
  /\ UNCHANGED <<sessions, holdings, switches, now, codes>>

\* The password and the secret are cleared; the last counter stays.
ResetOwner(o, t) ==
  /\ Listed(o)
  /\ owners' = [owners EXCEPT ![o].state = "pending"]
  /\ sessions' = [s \in SessionIds |-> IF sessions[s].owner = o THEN NoSession ELSE sessions[s]]
  /\ tokens' = InsertSetupToken(t, "reset", o, DropUnused(o))
  /\ devices' = RevokeDevicesWhere(<<"owner", o>>)
  /\ pairings' = CancelPairingsWhere(<<"owner", o>>)
  /\ Audit
  /\ UNCHANGED <<members, switches, now, codes>>

\* findSetupToken
SetupTokenFound(t) ==
  /\ tokens[t].kind # "none"
  /\ ~tokens[t].used /\ tokens[t].expires > now
  /\ tokens[t].owner # 0 => owners[tokens[t].owner].state = "pending"
  /\ tokens[t].kind = "first" => CountOthers(0) = 0

SetupDetails(t) ==
  /\ SetupTokenFound(t)
  /\ tokens' = [tokens EXCEPT ![t].secret = TRUE]
  /\ UNCHANGED <<owners, sessions, holdings, switches, seq, now, codes>>

CreateSession(s, o, hash) ==
  sessions' = [sessions EXCEPT ![s] =
                 [owner |-> o, hash |-> hash, expires |-> now + SessionTTL, recent |-> now]]

\* VerifyTOTP accepts the code of this step and of the two beside it.
CodeCounters == {c \in {now - 1, now, now + 1} : c >= 1}

Accept(o, hash, counter) ==
  LET code == <<o, hash, counter>>
  IN  /\ accepted' = accepted \cup {code}
      /\ replayed' = IF code \in accepted THEN replayed \cup {code} ELSE replayed

\* The write of CompleteSetup, for the token read before it and the counter of the
\* code checked before it.  o is a new id when the first owner is made.
CompleteSetup(t, o, counter, s) ==
  LET hash == owners[o].hash + 1
  IN  /\ tokens[t].kind # "none" /\ ~tokens[t].used /\ tokens[t].expires > now
      /\ IF tokens[t].kind = "first"
         THEN CountOthers(0) = 0 /\ owners[o] = NoOwner
         ELSE o = tokens[t].owner /\ owners[o].state = "pending"
      /\ tokens' = [tokens EXCEPT ![t].used = TRUE]
      /\ owners' = [owners EXCEPT ![o] = [state |-> "active", hash |-> hash,
                                          counter |-> counter, removedAt |-> Never]]
      /\ CreateSession(s, o, hash)
      /\ Accept(o, hash, counter)
      /\ Audit
      /\ UNCHANGED <<holdings, switches, now>>

-----------------------------------------------------------------------------
(* owners.go: signing in *)

\* ownerCredentials and verifyCredentials: the right password and a current code, not
\* yet used as far as the row that was read tells.
Verified(o, counter) == Active(o) /\ counter \in CodeCounters /\ counter > owners[o].counter

\* Mutant: the update relies on the check made before the transaction.
SetCounter(o, hash, counter) ==
  /\ Active(o) /\ owners[o].hash = hash
  /\ owners' = [owners EXCEPT ![o].counter = counter]
  /\ Accept(o, hash, counter)

ConsumeCounter(o, hash, counter) ==
  /\ Active(o) /\ owners[o].hash = hash
  /\ owners[o].counter < counter
  /\ owners' = [owners EXCEPT ![o].counter = counter]
  /\ Accept(o, hash, counter)

Login(o, hash, counter, s) ==
  /\ ConsumeCounter(o, hash, counter)
  /\ CreateSession(s, o, hash)
  /\ Audit
  /\ UNCHANGED <<tokens, holdings, switches, now>>

\* Session
SessionValid(s) == sessions[s] # NoSession /\ sessions[s].expires > now /\ Active(sessions[s].owner)

RecentAuth(s) == now < sessions[s].recent + RecentAuthWindow

\* The write of StepUp, for the session and the credentials read before it.
StepUp(s, o, hash, counter) ==
  /\ ConsumeCounter(o, hash, counter)
  /\ sessions[s].owner = o /\ sessions[s].expires > now
  /\ sessions' = [sessions EXCEPT ![s].recent = now]
  /\ Audit
  /\ UNCHANGED <<tokens, holdings, switches, now>>

Logout(s) ==
  /\ sessions' = [sessions EXCEPT ![s] = NoSession]
  /\ UNCHANGED <<owners, tokens, holdings, switches, seq, now, codes>>

RemoveOwner(o) ==
  /\ Listed(o)
  /\ Active(o) => CountOthers(o) > 0
  /\ owners' = [owners EXCEPT ![o].state = "removed", ![o].removedAt = now]
  /\ sessions' = [s \in SessionIds |-> IF sessions[s].owner = o THEN NoSession ELSE sessions[s]]
  /\ tokens' = DropUnused(o)
  /\ devices' = RevokeDevicesWhere(<<"owner", o>>)
  /\ pairings' = CancelPairingsWhere(<<"owner", o>>)
  /\ Audit
  /\ UNCHANGED <<members, switches, now, codes>>

-----------------------------------------------------------------------------
(* pairings.go, devices.go, flags.go, ops.go *)

\* resolveHolder
HolderLive(holder) ==
  IF holder[1] = "owner" THEN Active(holder[2]) ELSE members[holder[2]].state = "listed"

\* The credentials a holder stands behind; a member has none.
HashOf(holder) == IF holder[1] = "owner" THEN owners[holder[2]].hash ELSE 0

\* Mutant: the holder is taken from the session, without resolveHolder.
CreatePairingUnresolved(p, holder) ==
  /\ pairings[p] = NoPairing
  /\ pairings' = [CancelPairingsWhere(holder) EXCEPT ![p] =
                    [holder |-> holder, hash |-> HashOf(holder), state |-> "open", at |-> 0,
                     expires |-> now + PairingTTL, device |-> 0]]
  /\ Audit
  /\ UNCHANGED <<credentials, members, devices, switches, now, codes>>

CreatePairing(p, holder) ==
  /\ HolderLive(holder) /\ pairings[p] = NoPairing
  /\ pairings' = [CancelPairingsWhere(holder) EXCEPT ![p] =
                    [holder |-> holder, hash |-> HashOf(holder), state |-> "open", at |-> 0,
                     expires |-> now + PairingTTL, device |-> 0]]
  /\ Audit
  /\ UNCHANGED <<credentials, members, devices, switches, now, codes>>

PairingOpen(p) == pairings[p].state = "open" /\ pairings[p].expires > now

CancelPairing(p) ==
  /\ PairingOpen(p)
  /\ pairings' = [pairings EXCEPT ![p].state = "cancelled", ![p].at = now]
  /\ Audit
  /\ UNCHANGED <<credentials, members, devices, switches, now, codes>>

\* The code alone decides: the holder is not looked up again.
RedeemPairing(p, d) ==
  /\ PairingOpen(p) /\ devices[d] = NoDevice
  /\ pairings' = [pairings EXCEPT ![p].state = "used", ![p].at = now, ![p].device = d]
  /\ devices' = [devices EXCEPT ![d] = [holder |-> pairings[p].holder, hash |-> pairings[p].hash,
                                        expires |-> now + DeviceTokenTTL, revokedAt |-> Never]]
  /\ Audit
  /\ UNCHANGED <<credentials, members, switches, now, codes>>

\* activeDevice, the condition of AuthenticateDevice, Heartbeat and Disconnect
AuthenticateDevice(d) == devices[d] # NoDevice /\ devices[d].revokedAt = Never /\ devices[d].expires > now

Disconnect(d) ==
  /\ AuthenticateDevice(d)
  /\ devices' = [devices EXCEPT ![d].revokedAt = now]
  /\ Audit
  /\ UNCHANGED <<credentials, members, pairings, switches, now, codes>>

\* Revoking a device again answers as the first time did, and writes nothing.
RevokeDevice(d) ==
  /\ devices[d] # NoDevice
  /\ IF devices[d].revokedAt = Never
     THEN devices' = [devices EXCEPT ![d].revokedAt = now] /\ Audit
     ELSE UNCHANGED <<devices, seq>>
  /\ UNCHANGED <<credentials, members, pairings, switches, now, codes>>

SetFlag(flag, on) ==
  /\ linking' = (IF flag = "linking" THEN on ELSE linking)
  /\ syncing' = (IF flag = "syncing" THEN on ELSE syncing)
  /\ IF switches' = switches THEN UNCHANGED seq ELSE Audit
  /\ UNCHANGED <<credentials, holdings, now, codes>>

\* What the console lists.
ListOwners == {o \in OwnerIds : Listed(o)}
ListMembers == {m \in MemberIds : members[m].state = "listed"}
ListPairings == {p \in PairingIds : PairingOpen(p)}
ListDevices == {d \in DeviceIds : AuthenticateDevice(d)}

\* Expired or revoked before the cutoff: the condition Maintain uses twice.
ExpiredDevices(cutoff) ==
  {d \in DeviceIds : /\ devices[d] # NoDevice
                     /\ \/ devices[d].revokedAt # Never /\ devices[d].revokedAt < cutoff
                        \/ devices[d].expires < cutoff}

\* Mutant: removed holders are purged by age, before the rows that refer to them.
MaintainHoldersFirst ==
  LET purged(row) == row.state = "removed" /\ row.removedAt < now - HolderRetention
  IN  /\ owners' = [o \in OwnerIds |-> IF purged(owners[o]) THEN NoOwner ELSE owners[o]]
      /\ members' = [m \in MemberIds |-> IF purged(members[m]) THEN NoMember ELSE members[m]]
      /\ UNCHANGED <<tokens, sessions, pairings, devices, switches, seq, now, codes>>

Maintain ==
  LET ended(p) == IF pairings[p].state = "open" THEN pairings[p].expires ELSE pairings[p].at
      stale == ExpiredDevices(now - PairingRetention)
      gone == ExpiredDevices(now - DeviceRetention)
      kept(holder) == \/ \E p \in PairingIds : pairings'[p].holder = holder
                      \/ \E d \in DeviceIds : devices'[d].holder = holder
      purged(row, holder) == row.state = "removed" /\ row.removedAt < now - HolderRetention /\ ~kept(holder)
  IN  /\ sessions' = [s \in SessionIds |-> IF sessions[s].expires <= now THEN NoSession ELSE sessions[s]]
      /\ tokens' = [t \in TokenIds |->
                      IF tokens[t].expires <= now \/ tokens[t].used THEN NoToken ELSE tokens[t]]
      /\ pairings' = [p \in PairingIds |->
                        IF \/ pairings[p] # NoPairing /\ ended(p) < now - PairingRetention
                           \/ pairings[p].device \in stale
                        THEN NoPairing ELSE pairings[p]]
      /\ devices' = [d \in DeviceIds |-> IF d \in gone THEN NoDevice ELSE devices[d]]
      /\ owners' = [o \in OwnerIds |-> IF purged(owners[o], <<"owner", o>>) THEN NoOwner ELSE owners[o]]
      /\ members' = [m \in MemberIds |-> IF purged(members[m], <<"member", m>>) THEN NoMember ELSE members[m]]
      /\ UNCHANGED <<switches, seq, now, codes>>
=============================================================================
