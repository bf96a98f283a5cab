--------------------------- MODULE SelfHostServer ---------------------------
(***************************************************************************)
(* The self-hosted server's requests over the tables of SelfHostStore       *)
(* (internal/selfhost/server), the operator's commands that run beside it   *)
(* (cmd/sesame-server) and its hourly maintenance.                          *)
(*                                                                          *)
(* A request reads first and writes later: the session, the setup token or  *)
(* the password and code are checked outside the write transaction, and     *)
(* anything may commit in between.  Between the two a request is in req     *)
(* with what it has read.  What it was sent is chosen when it writes.       *)
(***************************************************************************)
EXTENDS SelfHostStore

CONSTANTS Clients,  \* requests in flight at once
          MaxTime,  \* bound of the clock
          MaxSeq    \* bound of the audited changes

VARIABLE req

vars == <<storeVars, req>>

Idle == [op |-> "idle"]

\* An id no row has and no request in flight remembers; ids are random, so the lowest
\* stands for any.
Fresh(table, none, seen) ==
  LET free == {i \in DOMAIN table : table[i] = none} \ seen
  IN  {i \in free : \A j \in free : i <= j}

SeenIn(field) == {req[c][field] : c \in {x \in Clients : field \in DOMAIN req[x]}}

NewOwner == Fresh(owners, NoOwner, SeenIn("owner") \cup {code[1] : code \in accepted})
NewToken == Fresh(tokens, NoToken, SeenIn("token"))
NewSession == Fresh(sessions, NoSession, SeenIn("session"))

Done(c) == req' = [req EXCEPT ![c] = Idle]

\* Any refusal, store error or closed connection: the transaction rolls back.
Abandon(c) ==
  /\ req[c].op # "idle"
  /\ Done(c)
  /\ UNCHANGED storeVars

-----------------------------------------------------------------------------
(* Reading: guard.go and the first half of the store's sign-in functions *)

\* authenticate: the session of the cookie
BeginOwner(c, s) ==
  /\ req[c].op = "idle"
  /\ SessionValid(s)
  /\ req' = [req EXCEPT ![c] = [op |-> "owner", owner |-> sessions[s].owner, recent |-> RecentAuth(s)]]
  /\ UNCHANGED storeVars

BeginLogin(c, o, counter) ==
  /\ req[c].op = "idle"
  /\ Verified(o, counter)
  /\ req' = [req EXCEPT ![c] = [op |-> "login", owner |-> o, hash |-> owners[o].hash, counter |-> counter]]
  /\ UNCHANGED storeVars

BeginStepUp(c, s, counter) ==
  LET o == sessions[s].owner
  IN  /\ req[c].op = "idle"
      /\ SessionValid(s) /\ Verified(o, counter)
      /\ req' = [req EXCEPT ![c] = [op |-> "stepup", session |-> s, owner |-> o,
                                    hash |-> owners[o].hash, counter |-> counter]]
      /\ UNCHANGED storeVars

BeginSetup(c, t, counter) ==
  /\ req[c].op = "idle"
  /\ SetupTokenFound(t) /\ tokens[t].secret
  /\ counter \in CodeCounters
  /\ req' = [req EXCEPT ![c] = [op |-> "setup", token |-> t, counter |-> counter]]
  /\ UNCHANGED storeVars

-----------------------------------------------------------------------------
(* Writing: owner_auth.go *)

setupDetails(t) == SetupDetails(t) /\ ~tokens[t].secret /\ UNCHANGED req

setupComplete(c) ==
  /\ req[c].op = "setup"
  /\ \E o \in (NewOwner \cup {tokens[req[c].token].owner}) \ {0}, s \in NewSession :
        CompleteSetup(req[c].token, o, req[c].counter, s)
  /\ Done(c)

login(c) ==
  /\ req[c].op = "login"
  /\ \E s \in NewSession : Login(req[c].owner, req[c].hash, req[c].counter, s)
  /\ Done(c)

stepUp(c) ==
  /\ req[c].op = "stepup"
  /\ StepUp(req[c].session, req[c].owner, req[c].hash, req[c].counter)
  /\ Done(c)

\* The row goes by its token, whatever happened since it was read: one step.
logout(s) == SessionValid(s) /\ Logout(s) /\ UNCHANGED req

-----------------------------------------------------------------------------
(* Writing: owner_admin.go *)

Owner(c) == req[c].op = "owner"

\* ownerStepUp
Confirmed(c) == req[c].op = "owner" /\ req[c].recent

inviteOwner(c) == Confirmed(c) /\ (\E o \in NewOwner, t \in NewToken : InviteOwner(o, t)) /\ Done(c)
removeOwner(c) == Confirmed(c) /\ (\E o \in OwnerIds : RemoveOwner(o)) /\ Done(c)
createMember(c) == Owner(c) /\ (\E m \in Fresh(members, NoMember, {}) : CreateMember(m)) /\ Done(c)
renameMember(c) == Owner(c) /\ (\E m \in MemberIds : RenameMember(m)) /\ Done(c)
deleteMember(c) == Confirmed(c) /\ (\E m \in MemberIds : DeleteMember(m)) /\ Done(c)

createPairing(c) ==
  /\ Confirmed(c)
  /\ \E p \in Fresh(pairings, NoPairing, {}),
        holder \in {<<"owner", req[c].owner>>} \cup ({"member"} \X MemberIds) : CreatePairing(p, holder)
  /\ Done(c)

cancelPairing(c) == Owner(c) /\ (\E p \in PairingIds : CancelPairing(p)) /\ Done(c)
revokeDevice(c) == Confirmed(c) /\ (\E d \in DeviceIds : RevokeDevice(d)) /\ Done(c)

patchFlag(c) ==
  Confirmed(c) /\ (\E flag \in {"linking", "syncing"}, on \in BOOLEAN : SetFlag(flag, on)) /\ Done(c)

-----------------------------------------------------------------------------
(* desktop.go: the device's own requests *)

\* desktopLinkingEnabled, read before the code is redeemed
BeginLink(c) ==
  /\ req[c].op = "idle" /\ linking
  /\ req' = [req EXCEPT ![c] = [op |-> "link"]]
  /\ UNCHANGED storeVars

desktopLink(c) ==
  /\ req[c].op = "link"
  /\ \E p \in PairingIds, d \in Fresh(devices, NoDevice, {}) : RedeemPairing(p, d)
  /\ Done(c)

desktopDisconnect(d) == Disconnect(d) /\ UNCHANGED req

-----------------------------------------------------------------------------
(* cmd/sesame-server: start-up, the operator's commands and the hourly job *)

\* announceFirstSetup, at every start: SetupRequired, then StartFirstSetup
announceFirstSetup == ActiveOwners = {} /\ (\E t \in NewToken : StartFirstSetup(t)) /\ UNCHANGED req

ownerReset(o) == (\E t \in NewToken : ResetOwner(o, t)) /\ UNCHANGED req

MaintainJob == Maintain /\ UNCHANGED req

Tick ==
  /\ now < MaxTime
  /\ now' = now + 1
  /\ UNCHANGED <<credentials, holdings, switches, seq, codes, req>>

-----------------------------------------------------------------------------
Begin(c) ==
  \/ \E s \in SessionIds : BeginOwner(c, s)
  \/ \E o \in OwnerIds, counter \in CodeCounters : BeginLogin(c, o, counter)
  \/ \E s \in SessionIds, counter \in CodeCounters : BeginStepUp(c, s, counter)
  \/ \E t \in TokenIds, counter \in CodeCounters : BeginSetup(c, t, counter)
  \/ BeginLink(c)

Write(c) ==
  \/ setupComplete(c) \/ login(c) \/ stepUp(c)
  \/ inviteOwner(c) \/ removeOwner(c)
  \/ createMember(c) \/ renameMember(c) \/ deleteMember(c)
  \/ createPairing(c) \/ cancelPairing(c) \/ revokeDevice(c) \/ patchFlag(c)
  \/ desktopLink(c)

Device == \E d \in DeviceIds : desktopDisconnect(d)

Operator == announceFirstSetup \/ \E o \in OwnerIds : ownerReset(o)

Next ==
  \/ Tick \/ MaintainJob
  \/ \E c \in Clients : Begin(c) \/ Abandon(c)
  \/ \E t \in TokenIds : setupDetails(t)
  \/ \E s \in SessionIds : logout(s)
  \/ seq < MaxSeq /\ (Device \/ Operator \/ \E c \in Clients : Write(c))

\* A server with no owner, as prepare leaves a new database.
Empty ==
  /\ owners = [o \in OwnerIds |-> NoOwner] /\ members = [m \in MemberIds |-> NoMember]
  /\ tokens = [t \in TokenIds |-> NoToken] /\ sessions = [s \in SessionIds |-> NoSession]
  /\ pairings = [p \in PairingIds |-> NoPairing] /\ devices = [d \in DeviceIds |-> NoDevice]
  /\ linking = TRUE /\ syncing = FALSE
  /\ seq = 0 /\ now = 1 /\ accepted = {} /\ replayed = {}
  /\ req = [c \in Clients |-> Idle]

Init == Empty

Spec == Init /\ [][Next]_vars

-----------------------------------------------------------------------------
(* Properties *)

\* A session that is answered, a pairing code the console lists and a device that
\* authenticates belong to a holder who is still there, under the password that was set
\* when they were made: neither a removal, nor "owner reset", nor a request that read
\* its session or its code before one of them committed, leaves one behind.
HolderLives ==
  /\ \A s \in SessionIds : SessionValid(s) => sessions[s].hash = owners[sessions[s].owner].hash
  /\ \A p \in ListPairings : HolderLive(pairings[p].holder) /\ pairings[p].hash = HashOf(pairings[p].holder)
  /\ \A d \in ListDevices : HolderLive(devices[d].holder) /\ devices[d].hash = HashOf(devices[d].holder)

\* No authenticator code is accepted twice for one secret, whichever of setup, login and
\* step-up takes it: all of them check the code before the transaction that spends it.
CodeUsedOnce == replayed = {}

\* After every maintenance pass, every owner, member and device another row refers to
\* is still in its table, in whatever order rows ended.
ReferencesHold ==
  /\ \A s \in SessionIds : sessions[s] # NoSession => owners[sessions[s].owner] # NoOwner
  /\ \A t \in TokenIds : tokens[t].owner # 0 => owners[tokens[t].owner] # NoOwner
  /\ \A p \in PairingIds : pairings[p].device # 0 => devices[pairings[p].device] # NoDevice
  /\ \A h \in Holders :
        \/ \E p \in PairingIds : pairings[p].holder = h
        \/ \E d \in DeviceIds : devices[d].holder = h
        => IF h[1] = "owner" THEN owners[h[2]] # NoOwner ELSE members[h[2]] # NoMember

\* A server that has an owner who can sign in keeps one, unless the operator resets the
\* last of them on the host: two owners who remove each other at once cannot both do so.
LastOwnerStays ==
  [][ActiveOwners # {} /\ ActiveOwners' = {}
       => \E o \in OwnerIds : owners[o].state = "active" /\ owners'[o].state = "pending"]_vars

\* What has ended stays ended until its row is purged: a revoked device, a used or
\* cancelled pairing code, a used setup token, a removed owner or member.
EndedStays ==
  [][/\ \A d \in DeviceIds : devices[d].revokedAt # Never => devices'[d] \in {devices[d], NoDevice}
     /\ \A p \in PairingIds : pairings[p].state \in {"used", "cancelled"} => pairings'[p] \in {pairings[p], NoPairing}
     /\ \A t \in TokenIds : tokens[t].used => tokens'[t] \in {tokens[t], NoToken}
     /\ \A o \in OwnerIds : owners[o].state = "removed" => owners'[o] \in {owners[o], NoOwner}
     /\ \A m \in MemberIds : members[m].state = "removed" => members'[m] \in {members[m], NoMember}]_vars
=============================================================================
