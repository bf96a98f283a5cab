# TLA+ models of the Sesame server

The server synchronises end-to-end encrypted vaults between a person's devices. It runs hosted
(PostgreSQL, accounts, administration, releases, support) and self-hosted (one process, one SQLite
data directory). The server never sees a key or a plaintext; what it keeps is a signed device list,
sealed key packages, a chain of signed headers with their ciphertexts, and the nonces of signed
requests. Around that core are two ways of deciding who may act, one per edition, and the work a
server does on its own: mail, audit, backups, update checks.

This directory models the parts where a wrong interleaving, crash or bound would lose data, leave
something behind that should have ended, or lock somebody out. TLC checks them on small instances;
the safety of the sync service, of signed requests, of the outbox, of the self-hosted server and of
the hosted console is proved with TLAPS for instances of any size.

`PROJECT.json` maps each definition to the source lines it models and lists the runs, the mutations
that each property is known to detect, the hazards, the findings and the theorems.

## The system and its modules

| Part | State | Operations | Module |
|---|---|---|---|
| Device list, `internal/syncproto/devicelist.go` | an append-only list of signed entries: create, add, remove, rotate, key | `Extend`, `VerifyDeviceList`, `MemberAt`, `Current`, `Epoch` | `DeviceList`, `DeviceListReplay` |
| Sync service, membership, `internal/syncsvc/service.go` | vault, device, pairing, key package rows and the list | `CreateVault`, the pairing handshake, `Approve`, `KeyPackage`, `Activate`, `Remove`, `Rotate`, `UpgradeKey`, `Reset`, `AdminReset`, `Maintain` | `SyncMembership` |
| Sync service, contents | current revision, headers, ciphertexts, checkpoints | `Upload`, `PutCheckpoint`, `Snapshot`, and what removal and reset do to contents | `SyncVault`, `VaultContract` |
| Signed requests, `nonce_keeper.go`, `request.go` | nonces with expiry, clocks, calls in flight | `verifyRequest`, `nonceKeeper.Update`, `PurgeExpired` | `RequestNonces` |
| Email outbox, `internal/notifications` | messages with status, lease, attempts; the workers' batches | `Enqueue`, `Poll`, `deliver`, `MarkDelivered`, `MarkFailed`, purges | `Outbox` |
| Self-host store, `internal/selfhost/sqlitestore` | owners, setup tokens, sessions, members, pairing codes, devices, two flags | setup, login, step-up, invite, remove, pair, redeem, revoke, maintain | `SelfHostStore` |
| Self-host requests and `owner reset`, `internal/selfhost/server`, `cmd/sesame-server` | what each request has read | one action for the reading and one for the writing part of each handler | `SelfHostServer` |
| Self-host audit log | chained rows, what the process has verified, an export under way | append, full and incremental check, pages, export, restart | `AuditLog` |
| Self-host update checks, `internal/selfhost/updates` | setting, sequences per key, the feed shown, a check under way | read, fetch, judge, record; configure; reset | `UpdateChecks` |
| Self-host data directory, `internal/selfhost/ops`, `serve.go` | database, secrets, lock, archives, the server, its backup job, commands, a restore | start, migrate, back up, rotate, restore, recover, host commands, crashes | `InstanceOps` |
| Restore, `internal/selfhost/ops/restore.go` | data directory, staging and aside directories, journal | `swap`, `finish`, `Recover`, `recoverLocked`, `cleanupCommitted` | `RestoreJournal` |
| Hosted accounts, `internal/accounts` | accounts with a security generation, invitations, sessions, one-time tokens, desktop links and connections, passkeys, ceremonies | one operator per transaction | `HostedAccounts` |
| Hosted account requests, `internal/httpapi` | what each request has read | register, sign in, verify, recover, change password or email, link a desktop, passkeys, delete; an administrator's actions on users; the purge | `HostedRequests` |
| Administrators, `internal/admin/store.go` | administrators, setup links, sessions, code counters | enrol, sign in, step up, invite, change, delete, reset | `AdminStore` |
| Releases and packages | releases with a manifest revision, download and update tickets, extension packages with evidence, the owner ring | accept, publish, pause, roll out, stop, withdraw; issue and redeem; transition | `ReleaseStore` |
| Support | requests, links that open them | create, reply, close, reopen, attach, assign, note; automatic close, purge | `SupportStore` |
| The console and the public side of these three | what each request has read | the handlers over `AdminStore`, `ReleaseStore`, `SupportStore` | `HostedConsole` |
| Hosted audit log, `internal/admin/audit_chain.go`, `cmd/api/main.go` | chained rows, checkpoints per key, each server's maintenance pass | append, verify the chain, compare checkpoints, sign | `HostedAudit` |

How they interact. Every sync call arrives through `syncv3http`, is verified and has its nonce
recorded inside the storage transaction of the operation it carries (`RequestNonces`). The operation
reads and writes membership and contents in that transaction (`SyncMembership`, `SyncVault`), after
replaying the device list (`DeviceListReplay`). Who the caller is comes from the edition: a linked
desktop of the hosted server (`HostedAccounts`) or a paired device of a holder (`SelfHostStore`).
A self-hosted server starts by finishing an interrupted restore, takes the lock, backs up and
migrates (`InstanceOps`, with `RestoreJournal` for what happens inside the swap).

Two conventions run through the store and request modules. A *store* operator is one transaction or
one statement in its committing form; where a guard fails the code rolls back and nothing changes. A
*request* is two or more steps: it reads a session, a row or a password hash in one statement and
writes in a later one, and `req` holds what it has read while anything else commits. What a client
sends is chosen at the step that uses it. Random identifiers and tokens come from small sets and are
not reused while a row or a request remembers them.

A transaction may be one step where nothing that overlaps it makes a difference to the properties. Most
write or lock the row that any other writer of theirs locks too. Those that delete an account's sessions
do not exclude a sign-in, which only inserts; but where no property asks when a session was made, one
inserted between such a DELETE and its commit is like one inserted after the commit. The two
transactions that redeem a mailed token for verification or recovery are different: see
`HostedAccounts` below.

### Notes on single modules

**`DeviceList`** defines membership, keys and epochs *by position* in the list, and for each kind of
entry the conditions under which `Extend` accepts it. **`DeviceListReplay`** is the stateful object
the code builds (members with from/until indexes, appended key versions), entry by entry.
`ExtendAgrees` and `ReplayAgrees` say the two are the same, which entitles the other modules to use
the short form. Signatures and digests are abstracted: an entry whose signature or previous digest
does not fit is one `Extend` refuses, and no other effect.

**`SyncMembership`** has one action per service operation. Operations are storage transactions and
hence atomic; between them any client may act, on what it read earlier. That staleness is in the
inputs: the index and the epoch a client signed may be the current next ones or those it saw before
another member's entry (`Signable`), the recipients of a re-key are any set of devices, and `held`
is the package the *client* last opened, which is what it names in `Activate` even when another has
replaced it. Expiry of a pairing is an action (`PairingLapses`); rows stay until `Maintain` or the
next `BeginPairing` purges them. Offers, answers and confirmations are reduced to the pairing's state.

**`SyncVault`** extends it with contents. A ciphertext is its size; eviction (`makeRoom`), the
pruning of headers and the drop of an earlier epoch's ciphertexts are all part of `Upload`.
**`VaultContract`** is what a client may rely on: one register, written one revision at a time by
members, whose reader always gets the last accepted write. `ImplementsContract` is the refinement.

**`RequestNonces`** has concurrent calls, each a transaction that commits, fails, or loses its
commit, followed by the keeper's second transaction, which may itself fail. `clock` is the wall clock
of whichever server takes the next step, at most `Drift` behind the latest reading. The code's
constants (skew 300 s, retention 660 s) satisfy `RetentionAssumption` for a drift below a minute.

**`Outbox`** takes each of the three statements of `Poll`, each delivery and each mark as a step of
one of several workers. A worker may be slow at any of them, stop, or lose a mark; a delivery that
reports an error may have happened. Rows carry status, attempts, next attempt, lease and expiry
against one clock, the database's. `until` and `sent` are not in the code: they record how long a
worker's lease lasts and what the mail server has accepted.

**`SelfHostStore`, `SelfHostServer`.** A password hash is the number of setups its owner has
completed, since every hash is salted afresh, and the same number stands for the authenticator secret
set with it. A code is the period it is of, and a server accepts the periods around the present one.
`hash` on a pairing or a device, `accepted` and `replayed` are not columns: they record under which
password a row was made and which codes were taken. `createPairing` asks for a recent sign-in
whoever the code is for, and so does the model; `SELF-HOSTING.md` ("Pairing a device for yourself
asks for no password") describes the console's use of it less strictly.

**`AuditLog`, `HostedAudit`.** A hash is the sequence of contents it covers, so two hashes are equal
exactly when they cover the same rows. Rows change only in the file or the database, behind the
server: `Damage` and the tampering actions. In `HostedAudit` several servers run the hourly pass at
once, each in the four statements of the code; a server may be given a new capability key between
passes.

**`InstanceOps`** composes what shares a data directory: a server with its backup job, a restore, and
up to two commands that take no lock (`backup`, `check`, `owner reset`, `updates reset-sequence`). A
database is the key that seals its owners' secrets and a schema version. A backup takes database and
secrets in separate steps and publishes by a hard link. A restore moves the two items one by one and
may crash after each; its journal writes, errors and the steps of its recovery are left to
`RestoreJournal`. Fewer than `Keep + 2` backups before a migration fall into one second.

**`RestoreJournal`** takes each rename, removal and journal write as a step. The process may die
between any two and any of them may fail; `MaxFaults` bounds both. A process crash is modelled, in
which completed file operations survive; power loss that reorders unsynced directory writes is not,
nor is a journal that does not parse (recovery refuses it). Verification and staging of the archive
precede the journal and are folded into `Begin`.

**`HostedAccounts`, `HostedRequests`.** An expired row is one no statement returns, so a row is
dropped when it expires. `generation` on a row is the account's security generation when it was
issued, `early` that the address was unverified then, `cutoff` the generation below which desktop
tokens were revoked; the latter two are not columns. `VerifyEmail` and `ResetPasswordAndRotateSession`
are three steps each. `BeginConfirm` is the beginning of the transaction: the code compares `created_at`
with `NOW()`, which is this time, so the request remembers the passkeys and desktops there are.
`ConfirmHolding` has waited for the account's row, checked the password and deleted the sessions of this
moment. The commit makes it all visible. Until it commits or rolls back the row is `locked`: whatever
writes or locks the row waits, and a sign-in or a new passkey, which only insert, do not. An insert is one
instant. A desktop is never linked to an unverified account, since `regenerateDesktopLink` refuses the
code, so the comparison by time spares no desktop.

**`AdminStore`, `ReleaseStore`, `SupportStore`, `HostedConsole`.** A version's content is the number
of the candidate accepted for it. Age is a fact about a row (a request is stale, its reopening window
is over, it is old) that an action sets. `redirects` counts how often a download link has led to the
artifact and `bySystem` which close was the job's.

## Runs

| Run | Module | Checks | Shows |
|---|---|---|---|
| `signed_inputs` | `MCSignedInputs` | `ReplayAgrees`, `ExtendAgrees`, `AcceptedOnce`, `RefusedStaysSpent` | Replaying a list gives exactly the members, keys and epoch its entries define, at every index. A signed request is accepted at most once, and one whose refusal was recorded never again |
| `membership` | `MCSyncMembership` | `TablesMatchList`, `MembershipSound`, `HistoryIsFinal` | The rows say what the list says. `MembershipSound`: no member is left without the current key and without a package to get it; a waiting package is one the device can open; who has activated holds the key; a removed device holds only keys of before; a token has one identity; the limits hold |
| `membership_liveness` | `MCSyncMembership` | `MembersActivate` | An approved device that keeps asking holds the current key in the end, or is taken out |
| `vault` | `MCSyncVault` | `RoomForNext`, `ContentsVerify`, `ImplementsContract` | A vault is never too full for the next upload; its headers form one verifiable chain within the window, its ciphertexts are of one epoch and its checkpoints of members; it is one register |
| `interrupted` | `MCInterrupted` | `LeavesOldOrNewData`, `OldDataKept`, `Finishes` | With at most one fault a restore leaves the old data or the new, keeps the old, and ends |
| | | `SettledStays`, `EverySettles` | A message is settled for a reason, stays settled, and is settled in the end |
| `restore_recrash` | `RestoreJournal` | `LeavesOldOrNewData` | With two faults it does not (a finding) |
| `outbox_lease` | `Outbox` | `LeaseIsExclusive` | Two workers can hold one message, each within its lease (a finding) |
| `self_host` | `MCSelfHost` | `HolderLives`, `CodeUsedOnce`, `ReferencesHold`, `LastOwnerStays`, `EndedStays` | Nothing outlives its holder or the password it was made under, a code is spent once, the purge never meets a row that is still referred to, an owner who can sign in remains, what has ended does not come back |
| `upkeep` | `MCUpkeep` | `FullCheckExact`, `IncrementalAgrees`, `ExportWhole`, `FeedMovesForward` | The audit log is judged rightly by both checks and exported whole; the feed shown never goes back |
| | | `SecretsOpenDatabase`, `ServerBackupsMatch`, `MigratedIsBackedUp`, `ArchivesStay` | Whatever was backed up, restored and interrupted, the secrets open the database; a server that migrates leaves a backup; archives are not overwritten and rotated only behind newer ones |
| | | `PassFindsRight` | A maintenance pass finds a log broken only if somebody changed it, and a log it finds right has the rows unchanged that checkpoints of its key covered when it began |
| `hosted_accounts` | `MCHosted` | `CapabilitiesCurrent`, `DesktopsCurrent` | No desktop-link code, email-change link or desktop token of before a revocation works after it, also when its request was under way. Nothing is claimed of sessions: a sign-in under way may commit after the revocation |
| `hosted_unverified` | `MCHosted` | `UnverifiedLeavesNothing` | A session or passkey made under an unverified address can survive its verification (a finding) |
| `hosted_console` | `MCHostedConsole` | `SuperStays`, `TicketOnce`, `LinksOpenRequests`, `ReleaseHistory`, `CommandsFollowView`, `PublicationHistory`, `AnswerKeepsOpen` | A super administrator remains; a ticket is redeemed once; a link opens an open request without account and no other; releases and packages move along their graphs, with their content fixed, and by commands that saw the present revision; an answered request is not closed by the job |

`MCSignedInputs`, `MCInterrupted` and `MCUpkeep` each put parts side by side that read and write disjoint state. A
behaviour of all of them is an interleaving of one of each, so each part is explored with the others
at rest, and nothing is lost.

### Bounds

- *membership*: three devices let a member be added, removed and a third act in between; five entries
  allow create, two adds, a key change or removal and a rotation. *vault*: two devices, three
  entries, four revisions, a header window of two and a byte budget of three with sizes one and two,
  so that eviction, pruning, epoch change and a full vault all happen.
- *signed_inputs*: two requests, two concurrent calls, time twice the retention; lists up to five
  entries.
- *interrupted*: one fault of a restore, from every set of items a directory may hold; one message,
  two workers, a lifetime of three ticks, a lease of two, a backoff of one: a lease runs out, a second
  worker claims the message, and both marks arrive in either order before and after expiry.
- *self_host*: three owners, one member, two setup tokens, three sessions, two pairing codes, one
  device, two requests at a time, and starts from a new server and from one in use. Lifetimes are one
  period and retentions none, so every row expires and is purged within the run.
- *upkeep*: three rows and one damage in the log; two sequences of a feed; one archive of a kind kept
  of three, four operator commands, one crash, one rotten archive, two releases; two hosted servers,
  two keys, two rows written and one change behind them. An export of more pages than the code's fixed limit is
  far beyond the bound.
- *hosted_accounts*: one account, two sessions, two tokens, one device, one passkey, two requests at a
  time, with at most `MaxInUse` rows, suspensions and withdrawn beta accesses at once, one less while
  requests are under way (a state constraint). Starts: registered with a verified or an unverified
  address, and unregistered.
- *hosted_console*: two administrators, two releases, one customer, one package, one request with two
  links, two requests at a time; `MaxInUse` within one area and `MaxMixed` across areas, because the
  areas share only the administrators; far into an area other than the staff, all administrators are
  super ones, who may do what any role may. Starts: staffed, and fresh.

Symmetry is declared for identifiers that are interchangeable, and in no run with a liveness
property. Runs that end by their bounds or by the system (a full list, a settled directory, all turns
used) do not check for deadlock.

### Fairness

`MembersActivate` assumes that a client which still needs the current key repeats `KeyPackage` and
`Activate`. Because lists are bounded, re-keys in the run are finitely many: a member could be outrun
by others that rotate for ever, and the property does not say otherwise. `Finishes` assumes that a
process holding the lock goes on and that something, the service manager or an operator, starts the
server again after it stops. `EverySettles` assumes that time passes and that each worker goes on
polling; it may stop and be replaced any number of times. No other run assumes fairness.

## What is proved

The theorems hold for every value of the constants that the named assumptions allow: any set of
devices, tokens, keys, rows or requests in flight, any limit, lifetime and retention. The bounds that
cap a model (`MaxIndex`, `MaxRevision`, `MaxTime` ...) are constants like the others, so the results
do not depend on their size.

| Theorem | Module | States | Assumptions |
|---|---|---|---|
| `MembershipSafe` | `SyncMembershipProofs` | `TypeOK`, `TablesMatchList`, `MembershipSound` | `KeysAssumption`, `ListBounds`, `TokensAssumption`, `PairingBound` |
| `HistoryFinal` | `SyncMembershipProofs` | `HistoryIsFinal` | the same |
| `ContentsSafe` | `SyncVaultProofs` | `ContentsVerify`, and the membership invariants of the whole service | the same and `ContentBounds` |
| `ServiceIsRegister` | `SyncVaultProofs` | `ImplementsContract`: `SyncVault` refines `VaultContract` | the same |
| `ReplaySafe` | `RequestNoncesProofs` | `AcceptedOnce` | `RetentionAssumption` |
| `RefusalFinal` | `RequestNoncesProofs` | `RefusedStaysSpent` | `RetentionAssumption` |
| `OutboxSettles` | `OutboxProofs` | `SettledStays` | `OutboxAssumption` |
| `SelfHostSafe` | `SelfHostProofs` | `HolderLives`, `CodeUsedOnce`, `ReferencesHold` | `StoreAssumption` |
| `LastOwnerKept` | `SelfHostProofs` | `LastOwnerStays` | `StoreAssumption` |
| `EndedFinal` | `SelfHostProofs` | `EndedStays` | `StoreAssumption` |
| `ConsoleSafe` | `HostedConsoleProofs` | `SuperStays`, `TicketOnce`, `LinksOpenRequests` | `AdminAssumption`, `ReleaseAssumption`, `SupportAssumption` |
| `ReleasesSettled` | `HostedConsoleProofs` | `ReleaseHistory` | the same |
| `CommandsFollowed` | `HostedConsoleProofs` | `CommandsFollowView` | the same |
| `PackagesRecorded` | `HostedConsoleProofs` | `PublicationHistory` | the same |
| `AnswersHeard` | `HostedConsoleProofs` | `AnswerKeepsOpen` | the same |

**Membership.** `MembershipSound` is not inductive: a package says which epoch and entry it was made
for but not that this is still so. `IInv` adds `Support`: without a vault nothing is pending, a
removal entry is of an id the list has used, a waiting package is a member's, of the current epoch and
made for an entry of the list, and nobody holds or has activated a later epoch than the vault's. The
lemmas about the list (`DeviceListProofs`: what appending each kind of entry does to membership, keys
and epoch) carry the handlers; `MembershipInvariant` has one lemma per handler, and
`SyncMembershipProofs` the step as a whole. The limits need a second invariant, `Counted`: members
and pending pairings are finite sets, because each handler adds one to a set it has just counted.

**Contents.** Every call of `SyncVault` is, to the membership tables, a call of `SyncMembership` or
none, so `IInv` carries over. `VInv` adds `ContentsVerify` and `Stored`: ciphertexts are of revisions
written, the newest among them, and without a vault there is no revision. A header verified once goes
on verifying because membership is defined by position and the list only grows while there is a vault.
The refinement takes the members, the epoch, the current revision and what `Snapshot` returns as the
register; each call is mapped to one operation of the register or to none.

**Signed requests.** Once a request was accepted, either its nonce is stored until its expiry, or
every clock has passed the time at which its stamp is within the skew. The first turns into the second
by the time a purge can remove the nonce, because retention exceeds twice the skew plus the drift. A
call in flight remembers the expiry it computed, which its recovery writes back; the invariant states
that this expiry is late enough too.

**Outbox.** `SettledStays` speaks of single steps, but two of its clauses depend on what came before.
`OInv` supplies them: a worker about to record a delivery has made it, and a live row has attempts
left, so that the attempt which gives up is exactly the last.

**Self-hosted server.** `SInv` says of rows what the properties say of answers, and so does not depend
on the clock: a session is an active owner's under the current password whether or not it has expired,
an open pairing and an unrevoked device have a live holder, an unused setup token has a listed owner,
what a row refers to is there (the purge keeps this because `PairingRetention <= DeviceRetention`),
and no accepted code is ahead of its owner's counter. Nothing is assumed of
what requests have read, beyond its type: every write re-reads what it depends on in its own
transaction, and the proof is the evidence that it re-reads enough.

**Console.** `CInv` has a part for each store and one for the requests. `AInv` is `SuperStays` with
the shape of the administrators' rows. `RInv`: a release that was stopped had been published. `TInv`:
a token is on one ticket and led nowhere while its ticket is good. `PInv`: nothing is recorded of a
state after the one a package is in, which is why moving on writes over nothing. `LInv` is
`LinksOpenRequests` with the shape of the rows. `QInv`: the row an administrator saw is the current
one or has a smaller revision, which is what makes comparing revisions enough. One lemma per operation
shows that it keeps its store's part and does to it only what the action properties allow
(`StepKeeps`); the handlers then combine these.

`SelfHostServer` and `HostedConsole` are proved about from `Init`, a new server. Their runs also start
from a server in use, so that two clients reach the interesting cases within the bounds.

These invariants, the row types in `SInv` aside, were also checked with TLC on small instances. Those
checks are not among the runs listed above: the proofs make them redundant.

Only model-checked, and why:

- the liveness properties `MembersActivate`, `EverySettles` and `Finishes`: outside the prover's reach;
- `ReplayAgrees` and `ExtendAgrees` (a recursive replay) and `RoomForNext` (a sum over the stored
  ciphertexts): they need induction over data, which the provers do not do;
- `LeavesOldOrNewData` and `OldDataKept`: `RestoreJournal` is one fixed directory with one restore, and
  TLC covers all of its states;
- the properties of hosted accounts (`CapabilitiesCurrent`, `DesktopsCurrent`), of the two audit logs,
  of update checks and of the data directory: not proved.

## Findings

- **An interrupted recovery of an interrupted restore loses data**
  (`internal/selfhost/ops/restore.go:328`). In phase `installing-new`, `recoverLocked` first removes
  each item of `New` that is no longer staged and then moves the old items back. If it stops after
  moving some back, the journal still says `installing-new`; the next recovery removes those old
  items as if they were new ones, and they are no longer aside. `SELF-HOSTING.md:219` promises that
  such a restore "finishes itself", and the test `TestInterruptedRestoreLeavesOldOrNewData`
  interrupts it once. Run `restore_recrash`.
- **A late mark ends another worker's lease** (`internal/notifications/outbox.go:221`), where the
  interface says "Atomically leases due messages so concurrent workers cannot deliver the same row"
  (`outbox.go:17`). `MarkFailed` names the row by id and status. From a worker whose lease has run out
  it makes a message that another worker holds pending again, and after the backoff (one minute at
  first, a lease is five) a further poll claims it. It takes a worker that is stalled for five minutes;
  the outcome is a duplicate email. Run `outbox_lease`.
- **What is committed while a verification is under way survives it** (`internal/accounts/security.go:595`,
  `:603`), where `API.md:150` says "Verification revokes every browser session, passkey, and desktop
  connection created while the account was unverified". The transaction locks the account's row, which
  does not hold up the insert of a session (`accounts.go:241`) or a passkey (`webauthn.go:56`). A session
  inserted after the DELETE and before the commit stays; a passkey stays when it was inserted after the
  transaction began, which is the time `created_at` is compared with, however long the transaction then
  waited for the row. Run `hosted_unverified` shows a sign-in, begun with the registration password.

Met while reading, without a run of their own:

- `serve` finishes an interrupted restore under the lock, lets go of the lock and takes it again. A
  restore that begins and crashes in between leaves its journal to a server that does not look for it
  a second time. `InstanceOps` models what the server then does: it begins anew beside the old data,
  or refuses to start and leaves an empty secrets directory, in whose place the next recovery does
  not put the old one. `SecretsOpenDatabase` and `ServerBackupsMatch` name this as their exception
  (`swap.met`).
- `owner reset` and `updates reset-sequence` open the database for writing without the lock. They
  migrate an older schema without the backup a server makes first, and make a database where a
  restore has just moved the old one out; if that restore then crashes, the recovery leaves the new,
  empty one in place and the old one aside.
- The `backup` command takes no lock either and may pair one side's database with the other side's
  secrets when a restore runs beside it. A restore refuses such an archive.
- Signing in rewrites an outdated password hash in a statement that names the account alone
  (`accounts.go:251`), also when the password was changed since it was checked.
- `web/admin/README-ADMIN.md:50` says a setup link reveals its secret once; within the grace period it can be
  opened again. The hourly purge (`accounts.go:494`) deletes a link that has been opened and is still
  within its grace.
- A reply through a support link is stored, and the request then read outside the transaction
  (`security.go:1305`): when it is closed in between, the requester is told it does not exist.
- Desktop update tickets (`security.go:966`) are inserted by every check that finds an update and
  deleted by no job.

## Not modelled, and why

The definitions stand for about 10,900 of the 34,000 lines of Go outside the tests (32%). The rest:

- *Cryptography and encodings* (canonical forms, key packages, signatures, sealing, password
  hashing, code generation). The models take signatures and digests as what they are for; what the
  code computes byte by byte is for tests with vectors.
- *HTTP plumbing* (decoding, cookies, origins, views, error texts, rate limits, request logs). It
  decides whether a handler is reached. A rate limit is one upsert and only removes behaviours.
- *Storage backends of the sync service* beyond their tables: SQL, and the retry of a serialization
  failure, which repeats a transaction that had no effect.
- *Migrations*, which run before the servers and under a lock; the self-hosted schema version is in
  `InstanceOps`.
- *Configuration, feed parsing, version order, artifact eligibility, install hints, evidence checks
  of one candidate*: functions of one input without state.
- *Parts of the modelled stores without a rule*: names, heartbeats, activity events, notification
  preferences, plans, saved replies, overview pages and summaries.
- *Public pages, public activity, metrics, command-line tools, the gateway, the web front ends*: reads,
  one-shot commands and user interface.
- *Power loss* that reorders unsynced directory writes, and platforms without file locks.
