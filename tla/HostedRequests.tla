--------------------------- MODULE HostedRequests ---------------------------
(***************************************************************************)
(* The hosted API's account requests over the tables of HostedAccounts      *)
(* (internal/httpapi: auth_routes, account_flows, passkey, desktop_account, *)
(* desktop_routes, and the user pages of admin_routes).                     *)
(*                                                                          *)
(* A request reads the session, the account or the password hash in one     *)
(* statement and writes in a later transaction.  In between it is in req    *)
(* with what it has read, and any other request may commit.  What the       *)
(* client sends is chosen when it writes; mail is what makes a pending      *)
(* token presentable.                                                       *)
(***************************************************************************)
EXTENDS HostedAccounts

CONSTANT Clients  \* requests in flight at once

VARIABLE req

vars == <<storeVars, req>>

Idle == [op |-> "idle"]

\* The transactions of mailed tokens that are under way.
Confirming == {c \in Clients : req[c].op \in {"confirm", "revoked"}}

\* An id no row has and no request remembers; ids are random, so the lowest stands for any.
Lowest(free) == {i \in free : \A j \in free : i <= j}

Free(table, none, remembered) == Lowest({i \in DOMAIN table \ remembered : table[i] = none})

NewPasskey == Free(passkeys, NoPasskey, UNION {req[c].begun.passkeys : c \in Confirming})
NewDevice == Free(devices, NoDevice, UNION {req[c].begun.devices : c \in Confirming})

\* A token id that is neither pending nor remembered as seen.
NewToken ==
  Lowest(TokenIds \ ({t.id : t \in tokens} \cup UNION {req[c].seen : c \in {x \in Clients : req[x].op = "replace"}}))

NewSession ==
  Free(sessions, NoSession, {req[c].session : c \in {x \in Clients : req[x].op \in {"session", "password"}}}
                              \cup UNION {req[c].gone : c \in {x \in Clients : req[x].op = "revoked"}})

Become(c, r) == req' = [req EXCEPT ![c] = r]
Done(c) == Become(c, Idle)

\* A refusal, a store error or a closed connection: the transaction rolls back.
Abandon(c) ==
  /\ req[c].op # "idle" /\ Done(c)
  /\ IF req[c].op = "revoked" THEN Rollback(req[c].token.account) ELSE UNCHANGED storeVars

-----------------------------------------------------------------------------
(* Reading *)

\* sessionForRequest; recent is recentSessionForRequest's test
BeginSession(c, s) ==
  LET a == sessions[s].account
  IN  /\ req[c].op = "idle" /\ SessionForToken(s)
      /\ Become(c, [op |-> "session", account |-> a, session |-> s, recent |-> sessions[s].recent,
                    generation |-> accounts[a].generation, verified |-> accounts[a].verified,
                    beta |-> accounts[a].beta])
      /\ UNCHANGED storeVars

\* The password of the body is the one of the row FindByID returns.
ReadPassword(c) ==
  LET r == req[c]
  IN  /\ r.op = "session" /\ Live(r.account) /\ accounts[r.account].hash # 0
      /\ Become(c, [op |-> "password", account |-> r.account, session |-> r.session, recent |-> r.recent,
                    hash |-> accounts[r.account].hash])
      /\ UNCHANGED storeVars

Signed(c) == req[c].op = "session"
Recent(c) == req[c].op = "session" /\ req[c].recent
Confirmed(c) == req[c].op = "password" /\ req[c].recent

-----------------------------------------------------------------------------
(* auth_routes.go *)

register ==
  /\ \E a \in AccountIds, e \in Emails, public \in BOOLEAN, i \in InviteIds \cup {0}, id \in NewToken :
        RegisterEligible(a, e, public, i, id)
  /\ UNCHANGED req

\* login: the password is right and the account is not suspended
BeginLogin(c, a) ==
  /\ req[c].op = "idle"
  /\ Live(a) /\ accounts[a].hash # 0 /\ ~accounts[a].suspended
  /\ Become(c, [op |-> IF accounts[a].hash \in OldHashes THEN "rehash" ELSE "signin", account |-> a])
  /\ UNCHANGED storeVars

\* login: NeedsRehash; the session follows in a statement of its own
rehash(c) ==
  /\ req[c].op = "rehash"
  /\ UpdatePassword(req[c].account)
  /\ Become(c, [op |-> "signin", account |-> req[c].account])

\* login and passkeyLoginFinish: CreateSession
signIn(c) ==
  /\ req[c].op = "signin"
  /\ \E s \in NewSession : CreateSession(req[c].account, s)
  /\ Done(c)

logout(s) == DeleteSession(s) /\ UNCHANGED req

changePassword(c) ==
  /\ Confirmed(c)
  /\ \E s \in NewSession : ChangePasswordAndRotateSession(req[c].account, req[c].hash, s)
  /\ Done(c)

setupPassword(c) == Recent(c) /\ EnrollPassword(req[c].account, req[c].generation) /\ Done(c)

deleteAccount(c) == Confirmed(c) /\ DeleteAccount(req[c].account) /\ Done(c)

-----------------------------------------------------------------------------
(* account_flows.go *)

\* The first statement of replaceAccountToken: its DELETE takes the tokens committed by now.
Replace(c, a, purpose) ==
  /\ Become(c, [op |-> "replace", account |-> a, purpose |-> purpose, seen |-> {t.id : t \in Pending(a, purpose)}])
  /\ UNCHANGED storeVars

requestEmailVerification(c) == Signed(c) /\ ~req[c].verified /\ Replace(c, req[c].account, "verify_email")

\* CreatePasswordRecovery's first statement: the account of the address
BeginRecovery(c, a) ==
  /\ req[c].op = "idle" /\ Live(a) /\ ~accounts[a].suspended
  /\ Become(c, [op |-> "recover", account |-> a])
  /\ UNCHANGED storeVars

requestPasswordRecovery(c) == req[c].op = "recover" /\ Replace(c, req[c].account, "recover_password")

\* The token is stored and mailed.
IssueToken(c) ==
  /\ req[c].op = "replace"
  /\ \E id \in NewToken : replaceAccountToken(req[c].account, req[c].purpose, req[c].seen, id)
  /\ Done(c)

\* The transaction begins, which is the time NOW() stands for, and finds the token.
BeginConfirm(c, t) ==
  /\ req[c].op = "idle" /\ t.purpose \in {"verify_email", "recover_password"}
  /\ Become(c, [op |-> "confirm", token |-> t,
                begun |-> [passkeys |-> CredentialsForAccount(t.account),
                           devices |-> DesktopConnectionsForAccount(t.account)]])
  /\ UNCHANGED storeVars

\* It has waited for the account's row, checked the password if there is one, and deleted
\* the sessions of this moment.
ConfirmHolding(c) ==
  LET t == req[c].token
      row == accounts[t.account]
  IN  /\ req[c].op = "confirm" /\ HoldAccount(t)
      /\ t.purpose = "recover_password" => ~row.suspended
      /\ \E confirmed \in BOOLEAN :
           /\ confirmed => t.purpose = "verify_email" /\ ~row.verified /\ row.hash # 0
           /\ Become(c, [op |-> "revoked", token |-> t, begun |-> req[c].begun,
                         gone |-> SessionsForAccount(t.account), confirmed |-> confirmed])

confirmEmailVerification(c) ==
  LET r == req[c]
  IN  /\ r.op = "revoked" /\ r.token.purpose = "verify_email"
      /\ \E s \in NewSession : VerifyEmail(r.token, r.begun, r.gone, r.confirmed, s)
      /\ Done(c)

confirmPasswordRecovery(c) ==
  LET r == req[c]
  IN  /\ r.op = "revoked" /\ r.token.purpose = "recover_password"
      /\ \E s \in NewSession : ResetPasswordAndRotateSession(r.token, r.begun, r.gone, s)
      /\ Done(c)

reauthenticate(c) ==
  /\ req[c].op = "password"
  /\ MarkSessionAuthenticated(req[c].session, req[c].account)
  /\ Done(c)

requestEmailChange(c) ==
  /\ Recent(c)
  /\ \E e \in (Emails \cup ForeignEmails) \ {accounts[req[c].account].email}, id \in NewToken :
        CreateEmailChange(req[c].account, req[c].generation, e, id)
  /\ Done(c)

confirmEmailChange(t) == (\E s \in NewSession : ConfirmEmailChangeAndRotateSession(t, s)) /\ UNCHANGED req

revokeAllAccountSessions(c) == Recent(c) /\ RevokeAllSessions(req[c].account) /\ Done(c)

accountSession(c) ==
  Recent(c) /\ (\E s \in SessionIds : DeleteSessionForAccount(req[c].account, s)) /\ Done(c)

-----------------------------------------------------------------------------
(* passkey.go *)

passkeyRegisterBegin(c) == Recent(c) /\ SaveWebAuthnSession(req[c].account) /\ Done(c)

\* The ceremony is taken, the authenticator's answer is checked, and the key is saved last.
passkeyRegisterFinish(c) ==
  /\ Recent(c)
  /\ TakeWebAuthnSession(req[c].account)
  /\ Become(c, [op |-> "enroll", account |-> req[c].account])
  /\ UNCHANGED <<identity, sessions, links, devices, passkeys>>

AddPasskey(c) ==
  req[c].op = "enroll" /\ (\E k \in NewPasskey : AddCredential(req[c].account, k)) /\ Done(c)

passkeyLoginBegin == SaveWebAuthnSession(0) /\ 0 \notin ceremonies /\ UNCHANGED req

passkeyLoginFinish(c, k) ==
  /\ req[c].op = "idle" /\ passkeys[k] # NoPasskey
  /\ TakeWebAuthnSession(0)
  /\ Become(c, [op |-> "assert", account |-> passkeys[k].account, passkey |-> k])
  /\ UNCHANGED <<identity, sessions, links, devices, passkeys>>

\* UpdateCredential refuses a key that was removed meanwhile; FindByID, the suspension.
persistPasskeyCredentialState(c) ==
  LET r == req[c]
  IN  /\ r.op = "assert" /\ passkeys[r.passkey].account = r.account /\ ~accounts[r.account].suspended
      /\ Become(c, [op |-> "signin", account |-> r.account])
      /\ UNCHANGED storeVars

deletePasskey(c) == Recent(c) /\ (\E k \in PasskeyIds : DeleteCredential(req[c].account, k)) /\ Done(c)

-----------------------------------------------------------------------------
(* desktop_account.go, desktop_routes.go *)

regenerateDesktopLink(c) ==
  /\ Recent(c) /\ req[c].beta /\ req[c].verified
  /\ CreateOrReplaceDesktopLink(req[c].account, req[c].generation)
  /\ Done(c)

cancelDesktopLink(c) == Recent(c) /\ CancelDesktopLink(req[c].account) /\ Done(c)

revokeAccountDevice(c) ==
  Recent(c) /\ (\E d \in DeviceIds : RevokeDesktopConnectionForAccount(req[c].account, d)) /\ Done(c)

linkDesktop(a) == (\E d \in NewDevice : RedeemDesktopLink(a, d)) /\ UNCHANGED req

revokeDesktopConnection(d) == RevokeDesktopConnection(d) /\ UNCHANGED req

-----------------------------------------------------------------------------
(* admin_routes.go: the pages of one user *)

adminUser(a) ==
  /\ \/ \E on \in BOOLEAN : accounts[a].beta # on /\ SetBeta(a, on)
     \/ \E on \in BOOLEAN : accounts[a].suspended # on /\ SetSuspended(a, on)
     \/ RevokeUserSessions(a)
     \/ \E d \in DeviceIds : RevokeDesktopConnectionForAccount(a, d)
     \/ DeleteAccount(a)
  /\ UNCHANGED req

adminInvite == (\E i \in InviteIds, e \in Emails : CreateBetaInvite(i, e)) /\ UNCHANGED req

-----------------------------------------------------------------------------
\* A session's authentication is no longer recent.
Age(s) ==
  /\ sessions[s].recent
  /\ sessions' = [sessions EXCEPT ![s].recent = FALSE]
  /\ UNCHANGED <<identity, links, devices, passkeys, ceremonies, req>>

Purge == PurgeExpired /\ UNCHANGED req

Begin(c) ==
  \/ \E s \in SessionIds : BeginSession(c, s)
  \/ \E a \in AccountIds : BeginLogin(c, a) \/ BeginRecovery(c, a)
  \/ \E k \in PasskeyIds : passkeyLoginFinish(c, k)
  \/ (\E t \in tokens : BeginConfirm(c, t)) \/ ConfirmHolding(c)
  \/ ReadPassword(c)
  \/ requestEmailVerification(c) \/ requestPasswordRecovery(c)
  \/ passkeyRegisterFinish(c) \/ persistPasskeyCredentialState(c)

Write(c) ==
  \/ rehash(c) \/ signIn(c)
  \/ changePassword(c) \/ setupPassword(c) \/ deleteAccount(c) \/ reauthenticate(c)
  \/ confirmEmailVerification(c) \/ confirmPasswordRecovery(c)
  \/ IssueToken(c) \/ requestEmailChange(c)
  \/ revokeAllAccountSessions(c) \/ accountSession(c)
  \/ passkeyRegisterBegin(c) \/ AddPasskey(c) \/ deletePasskey(c)
  \/ regenerateDesktopLink(c) \/ cancelDesktopLink(c) \/ revokeAccountDevice(c)

Next ==
  \/ register \/ adminInvite \/ passkeyLoginBegin \/ Purge
  \/ \E c \in Clients : Begin(c) \/ Write(c) \/ Abandon(c)
  \/ \E s \in SessionIds : logout(s) \/ Age(s)
  \/ \E t \in tokens : confirmEmailChange(t)
  \/ \E d \in DeviceIds : revokeDesktopConnection(d)
  \/ \E a \in AccountIds : linkDesktop(a) \/ adminUser(a)

\* No accounts yet, and any list of addresses the beta admits.
Init ==
  /\ accounts = [a \in AccountIds |-> NoAccount]
  /\ sessions = [s \in SessionIds |-> NoSession] /\ tokens = {}
  /\ links = [a \in AccountIds |-> NoLink] /\ devices = [d \in DeviceIds |-> NoDevice]
  /\ passkeys = [k \in PasskeyIds |-> NoPasskey] /\ ceremonies = {}
  /\ eligibility \in [Emails -> {"none", "eligible", "revoked"}]
  /\ invites = [i \in InviteIds |-> [state |-> "none", email |-> ""]]
  /\ hashes = 0
  /\ req = [c \in Clients |-> Idle]

Spec == Init /\ [][Next]_vars

-----------------------------------------------------------------------------
(* Properties *)

\* A desktop-link code that can be redeemed and an email-change link that can be
\* confirmed were issued since the account's sessions were last revoked: a request that
\* was authenticated before a password change, a reset, a first verification, an email
\* change or signing out everywhere, and reaches the database after it, issues neither.
CapabilitiesCurrent ==
  /\ \A a \in AccountIds : links[a].state = "pending" => Live(a) /\ links[a].generation = accounts[a].generation
  /\ \A t \in tokens : t.purpose = "change_email" =>
        Live(t.account) /\ accounts[t.account].verified /\ t.generation = accounts[t.account].generation

\* No desktop token outlives a first verification, a password change, a reset or signing
\* out everywhere, through whatever code it was linked.
DesktopsCurrent ==
  \A d \in DeviceIds : devices[d] # NoDevice => devices[d].generation >= accounts[devices[d].account].cutoff

\* No browser session and no passkey created while the account was unverified is left once
\* it is verified, as API.md says of the confirmation.  (Desktops are not linked to an
\* unverified account: regenerateDesktopLink refuses the code.)
UnverifiedLeavesNothing ==
  \A a \in AccountIds : accounts[a].verified =>
    /\ \A s \in SessionsForAccount(a) : ~sessions[s].early
    /\ \A k \in CredentialsForAccount(a) : ~passkeys[k].early
=============================================================================
