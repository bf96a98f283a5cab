--------------------------- MODULE HostedAccounts ---------------------------
(***************************************************************************)
(* The tables of the hosted website account and the transactions over them  *)
(* (internal/accounts, and the operations internal/admin has on accounts).  *)
(*                                                                          *)
(* Each operator is one committed transaction or one statement, except that *)
(* the transactions of VerifyEmail and ResetPasswordAndRotateSession begin, *)
(* take the account's row, and commit: they compare times with their own    *)
(* beginning, and rows inserted meanwhile are not held up by the row lock.  *)
(* An expired row is one no statement returns, so a row is dropped when it  *)
(* expires; a desktop-link code, whose status is still shown, becomes       *)
(* "expired".                                                               *)
(* Random ids, tokens and salts are drawn from small sets and never reused  *)
(* while anything remembers them.                                           *)
(***************************************************************************)
EXTENDS Integers, FiniteSets

CONSTANTS AccountIds, SessionIds, TokenIds, DeviceIds, PasskeyIds, InviteIds,
          Emails,        \* addresses in use
          ForeignEmails, \* addresses of accounts outside the model
          OldHashes,     \* password hashes made with earlier parameters (NeedsRehash)
          MaxHash,       \* bound of the password hashes made
          MaxGeneration  \* bound of the security generation

ASSUME AccountsAssumption ==
  /\ 0 \notin AccountIds \cup DeviceIds
  /\ MaxHash \in Nat /\ MaxGeneration \in Nat
  /\ OldHashes \subseteq 1..MaxHash
  /\ Emails # {} /\ Emails \cap ForeignEmails = {}

VARIABLES accounts, sessions, tokens, links, devices, passkeys, ceremonies,
          eligibility, invites, hashes

identity == <<accounts, tokens, eligibility, invites, hashes>>
access == <<sessions, links, devices, passkeys, ceremonies>>
storeVars == <<identity, access>>

\* locked: a transaction that has not ended holds the row (FOR NO KEY UPDATE).  cutoff is
\* a history variable: the generation under which desktop tokens were last revoked as a
\* whole.  early marks what was created while the account was unverified.
NoAccount == [state |-> "none", email |-> "", hash |-> 0, verified |-> FALSE, beta |-> FALSE,
              suspended |-> FALSE, generation |-> 0, locked |-> FALSE, cutoff |-> 0]
NoSession == [account |-> 0, recent |-> FALSE, early |-> FALSE]
NoLink == [state |-> "none", generation |-> 0, device |-> 0]
NoDevice == [account |-> 0, generation |-> 0]
NoPasskey == [account |-> 0, early |-> FALSE]

Live(a) == accounts[a].state = "live"

\* What a statement that writes or locks the account's row waits for.
Lockable(a) == Live(a) /\ ~accounts[a].locked

\* An empty password_hash is 0; every other hash has its own salt, so its own number.
NewHash == hashes + 1
HashMade == hashes < MaxHash /\ hashes' = NewHash

-----------------------------------------------------------------------------
(* Parts of several transactions *)

\* table without the rows named, and without those of account a
Deleted(table, none, ids) == [i \in DOMAIN table |-> IF i \in ids THEN none ELSE table[i]]
Without(table, none, a) == [i \in DOMAIN table |-> IF table[i].account = a THEN none ELSE table[i]]

Pending(a, purpose) == {t \in tokens : t.account = a /\ t.purpose = purpose}

insertSession(table, a, s, isVerified) ==
  [table EXCEPT ![s] = [account |-> a, recent |-> TRUE, early |-> ~isVerified]]

\* Every session of a goes, and s is the one it has.
RotateTo(a, s, isVerified) == sessions' = insertSession(Without(sessions, NoSession, a), a, s, isVerified)

\* An unused code that is not cancelled yet, expired or not.
Cancelled(link) == IF link.state \in {"pending", "expired"} THEN [link EXCEPT !.state = "cancelled"] ELSE link

\* The generation moves on with row, the new values of the account; consumed are the
\* tokens the caller has used or deletes.
invalidatePendingCapabilities(a, row, consumed) ==
  /\ ~row.locked /\ row.generation < MaxGeneration
  /\ accounts' = [accounts EXCEPT ![a] = [row EXCEPT !.generation = @ + 1]]
  /\ links' = [links EXCEPT ![a] = Cancelled(@)]
  /\ tokens' = (tokens \ consumed) \ Pending(a, "change_email")

lockSecurityGeneration(a, expected) == Lockable(a) /\ accounts[a].generation = expected

\* The account row once every desktop token is revoked with the coming generation.
Cutoff(row) == [row EXCEPT !.cutoff = row.generation + 1]

\* Only the tokens of codes that are still shown go.
DeleteUsedCodes(a) == devices' = [devices EXCEPT ![links[a].device] = NoDevice]

deleteDesktopConnections(a) == devices' = Without(devices, NoDevice, a)

\* lockAccountForToken and consumeAccountToken
Consumable(t, purpose) == t \in tokens /\ t.purpose = purpose /\ Live(t.account)

EmailTaken(e, a) == e \in ForeignEmails \/ \E b \in AccountIds \ {a} : Live(b) /\ accounts[b].email = e

-----------------------------------------------------------------------------
(* security.go: registration and sessions *)

InviteFits(i, e) == i # 0 /\ invites[i].state = "open" /\ invites[i].email = e

\* public is the registration mode; i is the invite presented, 0 for none.
RegisterEligible(a, e, public, i, id) ==
  LET invited == ~public /\ eligibility[e] = "none" /\ InviteFits(i, e)
  IN  /\ accounts[a] = NoAccount /\ ~EmailTaken(e, a)
      /\ public \/ eligibility[e] = "eligible" \/ invited
      /\ HashMade
      /\ accounts' = [accounts EXCEPT ![a] = [NoAccount EXCEPT !.state = "live", !.email = e,
                                                               !.hash = NewHash, !.beta = TRUE]]
      /\ tokens' = tokens \cup {[id |-> id, account |-> a, purpose |-> "verify_email", email |-> e, generation |-> 0]}
      /\ eligibility' = [eligibility EXCEPT ![e] = IF @ = "none" THEN @ ELSE "registered"]
      /\ invites' = IF invited THEN [invites EXCEPT ![i].state = "used"] ELSE invites
      /\ UNCHANGED access

\* What SessionForToken returns for the cookie of s, if anything.
SessionForToken(s) == sessions[s] # NoSession /\ ~accounts[sessions[s].account].suspended

MarkSessionAuthenticated(s, a) ==
  /\ sessions[s].account = a
  /\ sessions' = [sessions EXCEPT ![s].recent = TRUE]
  /\ UNCHANGED <<identity, links, devices, passkeys, ceremonies>>

SessionsForAccount(a) == {s \in SessionIds : sessions[s].account = a}

DeleteSessionForAccount(a, s) ==
  /\ sessions[s].account = a
  /\ sessions' = [sessions EXCEPT ![s] = NoSession]
  /\ UNCHANGED <<identity, links, devices, passkeys, ceremonies>>

RevokeAllSessions(a) ==
  /\ Live(a)
  /\ invalidatePendingCapabilities(a, Cutoff(accounts[a]), {})
  /\ sessions' = Without(sessions, NoSession, a)
  /\ deleteDesktopConnections(a)
  /\ UNCHANGED <<eligibility, invites, hashes, passkeys, ceremonies>>

CreateSession(a, s) ==
  /\ Live(a) /\ sessions[s] = NoSession
  /\ sessions' = insertSession(sessions, a, s, accounts[a].verified)
  /\ UNCHANGED <<identity, links, devices, passkeys, ceremonies>>

DeleteSession(s) ==
  /\ sessions[s] # NoSession
  /\ sessions' = [sessions EXCEPT ![s] = NoSession]
  /\ UNCHANGED <<identity, links, devices, passkeys, ceremonies>>

-----------------------------------------------------------------------------
(* security.go: passwords and addresses *)

ChangePasswordAndRotateSession(a, expected, s) ==
  /\ Live(a) /\ accounts[a].hash = expected
  /\ HashMade
  /\ invalidatePendingCapabilities(a, Cutoff([accounts[a] EXCEPT !.hash = NewHash]), {})
  /\ RotateTo(a, s, accounts[a].verified)
  /\ deleteDesktopConnections(a)
  /\ UNCHANGED <<eligibility, invites, passkeys, ceremonies>>

\* A transaction with a mailed token holds the account's row.  What it has done to other
\* tables is not seen before it commits.
HoldAccount(t) ==
  /\ Consumable(t, t.purpose) /\ Lockable(t.account)
  /\ accounts' = [accounts EXCEPT ![t.account].locked = TRUE]
  /\ UNCHANGED <<tokens, eligibility, invites, hashes, access>>

Released(row) == [row EXCEPT !.locked = FALSE]

Rollback(a) ==
  /\ accounts' = [accounts EXCEPT ![a] = Released(@)]
  /\ UNCHANGED <<tokens, eligibility, invites, hashes, access>>

\* Of an account that was not verified, the passkeys and the desktop tokens created before
\* the transaction began; both are found by created_at.  The codes of before are cancelled
\* with all others.
revokePreVerificationCredentials(table, none, older, wasVerified) ==
  IF wasVerified THEN table ELSE Deleted(table, none, older)

\* begun has what there was when the transaction began, gone the sessions that its DELETE
\* found.  confirmed: the request carries the password and it is the account's.
VerifyEmail(t, begun, gone, confirmed, s) ==
  LET a == t.account
      wasVerified == accounts[a].verified
      row == [Released(accounts[a]) EXCEPT !.verified = TRUE, !.hash = IF confirmed THEN @ ELSE 0]
  IN  /\ IF wasVerified
           THEN tokens' = tokens \ {t} /\ accounts' = [accounts EXCEPT ![a] = Released(@)] /\ UNCHANGED links
           ELSE invalidatePendingCapabilities(a, Cutoff(row), {t})
      /\ passkeys' = revokePreVerificationCredentials(passkeys, NoPasskey, begun.passkeys, wasVerified)
      /\ devices' = revokePreVerificationCredentials(devices, NoDevice, begun.devices, wasVerified)
      /\ sessions' = insertSession(Deleted(sessions, NoSession, gone), a, s, TRUE)
      /\ UNCHANGED <<eligibility, invites, hashes, ceremonies>>

ResetPasswordAndRotateSession(t, begun, gone, s) ==
  LET a == t.account
      row == [Released(accounts[a]) EXCEPT !.hash = NewHash]
  IN  /\ HashMade
      /\ invalidatePendingCapabilities(a, Cutoff(row), {t})
      /\ passkeys' = revokePreVerificationCredentials(passkeys, NoPasskey, begun.passkeys, accounts[a].verified)
      /\ deleteDesktopConnections(a)
      /\ sessions' = insertSession(Deleted(sessions, NoSession, gone), a, s, accounts[a].verified)
      /\ UNCHANGED <<eligibility, invites, ceremonies>>

CreateEmailChange(a, expected, e, id) ==
  /\ lockSecurityGeneration(a, expected)
  /\ accounts[a].verified /\ ~EmailTaken(e, a)
  /\ tokens' = (tokens \ Pending(a, "change_email"))
                 \cup {[id |-> id, account |-> a, purpose |-> "change_email", email |-> e, generation |-> expected]}
  /\ UNCHANGED <<accounts, eligibility, invites, hashes, access>>

\* Desktop tokens stay: only a password change, a reset or signing out everywhere
\* revokes them.
ConfirmEmailChangeAndRotateSession(t, s) ==
  LET a == t.account
  IN  /\ Consumable(t, "change_email")
      /\ accounts[a].verified /\ accounts[a].generation = t.generation
      /\ ~EmailTaken(t.email, a)
      /\ invalidatePendingCapabilities(a, [accounts[a] EXCEPT !.email = t.email], Pending(a, "recover_password"))
      /\ RotateTo(a, s, TRUE)
      /\ UNCHANGED <<eligibility, invites, hashes, devices, passkeys, ceremonies>>

EnrollPassword(a, expected) ==
  /\ lockSecurityGeneration(a, expected)
  /\ accounts[a].hash = 0 /\ accounts[a].verified /\ ~accounts[a].suspended
  /\ HashMade
  /\ invalidatePendingCapabilities(a, [accounts[a] EXCEPT !.hash = NewHash], {})
  /\ UNCHANGED <<eligibility, invites, sessions, devices, passkeys, ceremonies>>

\* The same password under new parameters, whatever hash the row has by now.
UpdatePassword(a) ==
  /\ Lockable(a) /\ HashMade
  /\ accounts' = [accounts EXCEPT ![a].hash = NewHash]
  /\ UNCHANGED <<tokens, eligibility, invites, access>>

CredentialSetupRequired(a) ==
  accounts[a].verified /\ accounts[a].hash = 0 /\ \A k \in PasskeyIds : passkeys[k].account # a

\* The second statement of replaceAccountToken: seen is what its DELETE found.
replaceAccountToken(a, purpose, seen, id) ==
  /\ Live(a)
  /\ tokens' = {t \in tokens : t.id \notin seen}
                 \cup {[id |-> id, account |-> a, purpose |-> purpose, email |-> accounts[a].email, generation |-> 0]}
  /\ UNCHANGED <<accounts, eligibility, invites, hashes, access>>

DeleteAccount(a) ==
  /\ Lockable(a)
  /\ accounts' = [accounts EXCEPT ![a] = [NoAccount EXCEPT !.state = "deleted"]]
  /\ tokens' = {t \in tokens : t.account # a}
  /\ sessions' = Without(sessions, NoSession, a)
  /\ links' = [links EXCEPT ![a] = NoLink]
  /\ deleteDesktopConnections(a)
  /\ passkeys' = Without(passkeys, NoPasskey, a)
  /\ ceremonies' = ceremonies \ {a}
  /\ UNCHANGED <<eligibility, invites, hashes>>

-----------------------------------------------------------------------------
(* desktop_links.go, accounts.go: linked desktops *)

\* Without the check that the generation is still the one the request was authenticated under.
CreateLinkUnlocked(a, expected) ==
  /\ Live(a)
  /\ links' = [links EXCEPT ![a] = [state |-> "pending", generation |-> expected, device |-> 0]]
  /\ UNCHANGED <<identity, sessions, devices, passkeys, ceremonies>>

CreateOrReplaceDesktopLink(a, expected) ==
  /\ lockSecurityGeneration(a, expected)
  /\ links' = [links EXCEPT ![a] = [state |-> "pending", generation |-> expected, device |-> 0]]
  /\ UNCHANGED <<identity, sessions, devices, passkeys, ceremonies>>

DesktopLinkStatus(a) ==
  CASE links[a].state \in {"none", "cancelled"} -> "none"
    [] links[a].state = "used" -> "connected"
    [] OTHER -> links[a].state

CancelDesktopLink(a) ==
  /\ links[a].state = "pending"
  /\ links' = [links EXCEPT ![a].state = "cancelled"]
  /\ UNCHANGED <<identity, sessions, devices, passkeys, ceremonies>>

RedeemDesktopLink(a, d) ==
  /\ Lockable(a) /\ links[a].state = "pending" /\ links[a].generation = accounts[a].generation
  /\ devices[d] = NoDevice
  /\ links' = [links EXCEPT ![a].state = "used", ![a].device = d]
  /\ devices' = [devices EXCEPT ![d] = [account |-> a, generation |-> links[a].generation]]
  /\ UNCHANGED <<identity, sessions, passkeys, ceremonies>>

DesktopConnectionForToken(d) == devices[d] # NoDevice /\ ~accounts[devices[d].account].suspended

DesktopConnectionsForAccount(a) == {d \in DeviceIds : devices[d].account = a}

RevokeDesktopConnection(d) ==
  /\ devices[d] # NoDevice
  /\ devices' = [devices EXCEPT ![d] = NoDevice]
  /\ UNCHANGED <<identity, sessions, links, passkeys, ceremonies>>

RevokeDesktopConnectionForAccount(a, d) == devices[d].account = a /\ RevokeDesktopConnection(d)

-----------------------------------------------------------------------------
(* webauthn.go: passkeys and their one-time ceremonies (0: a sign-in's) *)

SaveWebAuthnSession(owner) ==
  /\ IF owner = 0 THEN TRUE ELSE Live(owner)
  /\ ceremonies' = ceremonies \cup {owner}
  /\ UNCHANGED <<identity, sessions, links, devices, passkeys>>

TakeWebAuthnSession(owner) ==
  /\ owner \in ceremonies
  /\ ceremonies' = ceremonies \ {owner}

AddCredential(a, k) ==
  /\ Live(a) /\ passkeys[k] = NoPasskey
  /\ passkeys' = [passkeys EXCEPT ![k] = [account |-> a, early |-> ~accounts[a].verified]]
  /\ UNCHANGED <<identity, sessions, links, devices, ceremonies>>

CredentialsForAccount(a) == {k \in PasskeyIds : passkeys[k].account = a}

DeleteCredential(a, k) ==
  /\ passkeys[k].account = a
  /\ passkeys' = [passkeys EXCEPT ![k] = NoPasskey]
  /\ UNCHANGED <<identity, sessions, links, devices, ceremonies>>

-----------------------------------------------------------------------------
(* internal/admin: what an admin does to an account *)

SetBeta(a, on) ==
  /\ Lockable(a)
  /\ accounts' = [accounts EXCEPT ![a].beta = on]
  /\ UNCHANGED <<tokens, eligibility, invites, hashes, access>>

SetSuspended(a, on) ==
  /\ Lockable(a)
  /\ accounts' = [accounts EXCEPT ![a].suspended = on]
  /\ sessions' = IF on THEN Without(sessions, NoSession, a) ELSE sessions
  /\ UNCHANGED <<tokens, eligibility, invites, hashes, links, devices, passkeys, ceremonies>>

RevokeUserSessions(a) ==
  /\ Live(a)
  /\ sessions' = Without(sessions, NoSession, a)
  /\ UNCHANGED <<identity, links, devices, passkeys, ceremonies>>

CreateBetaInvite(i, e) ==
  /\ invites[i].state = "none"
  /\ invites' = [invites EXCEPT ![i] = [state |-> "open", email |-> e]]
  /\ UNCHANGED <<accounts, tokens, eligibility, hashes, access>>

-----------------------------------------------------------------------------
(* Time and PurgeExpired: a row's time is up.  The purge forgets a code that is a day old. *)

PurgeExpired ==
  \/ /\ \E s \in SessionIds : sessions[s] # NoSession /\ sessions' = [sessions EXCEPT ![s] = NoSession]
     /\ UNCHANGED <<identity, links, devices, passkeys, ceremonies>>
  \/ /\ \E t \in tokens : tokens' = tokens \ {t}
     /\ UNCHANGED <<accounts, eligibility, invites, hashes, access>>
  \/ /\ \E a \in AccountIds : \/ links[a].state = "pending" /\ links' = [links EXCEPT ![a].state = "expired"]
                              \/ links[a].state \notin {"none", "pending"} /\ links' = [links EXCEPT ![a] = NoLink]
     /\ UNCHANGED <<identity, sessions, devices, passkeys, ceremonies>>
  \/ \E d \in DeviceIds : RevokeDesktopConnection(d)
  \/ /\ \E owner \in ceremonies : ceremonies' = ceremonies \ {owner}
     /\ UNCHANGED <<identity, sessions, links, devices, passkeys>>
  \/ /\ \E i \in InviteIds : invites[i].state = "open" /\ invites' = [invites EXCEPT ![i].state = "expired"]
     /\ UNCHANGED <<accounts, tokens, eligibility, hashes, access>>
=============================================================================
