---------------------------- MODULE ReleaseStore ----------------------------
(***************************************************************************)
(* Releases of the desktop application, the tickets that deliver them, and  *)
(* the record of each browser extension package (store_releases.go,         *)
(* store_publications.go, the ticket part of accounts/security.go), one     *)
(* committed transaction or statement per operator.                         *)
(*                                                                          *)
(* A release is a number: its version, and with it its row, for a row is    *)
(* unique per channel, platform, architecture and version.  What a version  *)
(* consists of is the candidate that was accepted for it.                   *)
(***************************************************************************)
EXTENDS Integers, FiniteSets, Sequences

CONSTANTS Releases, OwnerReleases,        \* versions, and those on the owner channel
          Candidates, EligibleCandidates, \* release sets, and those whose artifacts are all eligible
          Percents,                       \* rollout percentages administrators choose
          Customers, Keys, Tokens,        \* accounts, idempotency keys, ticket tokens
          DownloadCohort, UpdateCohort,   \* <<account, release>> within a partial rollout
          Publications, Evidences,        \* extension packages, what is recorded of a state
          MaxRevision                     \* bound of the changes to one release

ASSUME ReleaseAssumption ==
  /\ Releases \subseteq Nat \ {0} /\ OwnerReleases \subseteq Releases
  /\ EligibleCandidates \subseteq Candidates /\ 0 \notin Candidates
  /\ Percents \subseteq 0..100 /\ MaxRevision \in Nat
  /\ DownloadCohort \subseteq Customers \X Releases /\ UpdateCohort \subseteq Customers \X Releases
  /\ 0 \notin Tokens /\ "none" \notin Evidences

VARIABLES releases, customers,
          tickets,      \* <<account, key>> -> download ticket
          redirects,    \* history: how often each download token led to the artifact
          updates,      \* token -> desktop update ticket
          publications,
          flags         \* the feature flags that are on

releaseVars == <<releases, customers, tickets, redirects, updates, publications, flags>>
Flags == {"downloads_enabled", "updater_enabled"}

NoRelease == [status |-> "none", set |-> 0, rollout |-> 100, enabled |-> TRUE, kill |-> FALSE, revision |-> 1]
NoCustomer == [live |-> FALSE, beta |-> FALSE, suspended |-> FALSE, ring |-> FALSE]
NoTicket == [state |-> "none", release |-> 0, token |-> 0]
NoUpdate == [state |-> "none", customer |-> 0, release |-> 0]

-----------------------------------------------------------------------------
(* Releases *)

\* A pipeline that sends a version again replaces what was accepted.
AcceptOverwriting(r, set) ==
  /\ releases' = [releases EXCEPT ![r] = [@ EXCEPT !.set = set, !.status = IF @ = "none" THEN "draft" ELSE @]]
  /\ UNCHANGED <<customers, tickets, redirects, updates, publications, flags>>

\* The exact candidate again is answered with the row; another one is a conflict.
AcceptReleaseCandidate(r, set) ==
  /\ releases[r].status # "none" => releases[r].set = set
  /\ releases' = IF releases[r].status = "none"
                 THEN [releases EXCEPT ![r] = [NoRelease EXCEPT !.status = "draft", !.set = set]]
                 ELSE releases
  /\ UNCHANGED <<customers, tickets, redirects, updates, publications, flags>>

releaseEligible(r) == releases[r].set \in EligibleCandidates

\* The row a command makes of an accepted release, or the same row when the
\* command is refused.
PublishRelease(row, eligible) ==
  IF row.status = "draft" /\ eligible
  THEN [row EXCEPT !.status = "published", !.enabled = TRUE, !.kill = FALSE] ELSE row
SetReleaseRollout(row, percent) == IF row.status = "published" THEN [row EXCEPT !.rollout = percent] ELSE row
EmergencyStopRelease(row) ==
  IF row.status = "published" THEN [row EXCEPT !.kill = TRUE, !.enabled = FALSE] ELSE row
WithdrawRelease(row) ==
  IF row.status = "published" THEN [row EXCEPT !.status = "withdrawn", !.enabled = FALSE, !.kill = TRUE] ELSE row

Commands(r) ==
  LET row == releases[r]
  IN  {PublishRelease(row, releaseEligible(r)), EmergencyStopRelease(row), WithdrawRelease(row)}
        \cup {SetReleaseRollout(row, p) : p \in Percents}

\* Last writer wins: the revision of the request is not compared.
ApplyAnyRevision(r, expected, row) ==
  /\ releases[r].revision < MaxRevision
  /\ row \in Commands(r) /\ row # releases[r]
  /\ releases' = [releases EXCEPT ![r] = [row EXCEPT !.revision = @ + 1]]
  /\ UNCHANGED <<customers, tickets, redirects, updates, publications, flags>>

\* The trigger of migration 0018 counts the revision of a row that changed; a
\* command that changes nothing leaves only its audit entry.
applyReleaseCommand(r, expected, row) ==
  /\ releases[r].revision = expected /\ expected < MaxRevision
  /\ row \in Commands(r) /\ row # releases[r]
  /\ releases' = [releases EXCEPT ![r] = [row EXCEPT !.revision = @ + 1]]
  /\ UNCHANGED <<customers, tickets, redirects, updates, publications, flags>>

publishedReleases == {r \in Releases : releases[r].status = "published" /\ releases[r].enabled /\ ~releases[r].kill}

PublishedReleasesForUpdate(includeOwner) ==
  {r \in publishedReleases : releaseEligible(r) /\ (r \in OwnerReleases => includeOwner)}

IsOwnerReleaseRingMember(a) == customers[a].ring

SetOwnerReleaseRingMember(a, enabled) ==
  /\ customers[a].live
  /\ enabled => customers[a].beta /\ ~customers[a].suspended
  /\ customers' = [customers EXCEPT ![a].ring = enabled]
  /\ UNCHANGED <<releases, tickets, redirects, updates, publications, flags>>

-----------------------------------------------------------------------------
(* Accounts, as far as releases see them *)

Active(a) == customers[a].live /\ ~customers[a].suspended

SetBeta(a, enabled) ==
  /\ customers[a].live
  /\ customers' = [customers EXCEPT ![a].beta = enabled]
  /\ UNCHANGED <<releases, tickets, redirects, updates, publications, flags>>

SetSuspended(a, suspended) ==
  /\ customers[a].live
  /\ customers' = [customers EXCEPT ![a].suspended = suspended]
  /\ UNCHANGED <<releases, tickets, redirects, updates, publications, flags>>

\* The tickets of the account go with its row.
DeleteUser(a) ==
  /\ customers[a].live
  /\ customers' = [customers EXCEPT ![a] = NoCustomer]
  /\ tickets' = [k \in Customers \X Keys |-> IF k[1] = a THEN NoTicket ELSE tickets[k]]
  /\ updates' = [t \in Tokens |-> IF updates[t].customer = a THEN NoUpdate ELSE updates[t]]
  /\ UNCHANGED <<releases, redirects, publications, flags>>

-----------------------------------------------------------------------------
(* Feature flags *)

UpdateFeatureFlag(f) ==
  /\ flags' = IF f \in flags THEN flags \ {f} ELSE flags \cup {f}
  /\ UNCHANGED <<releases, customers, tickets, redirects, updates, publications>>

capabilityEnabled(f) == f \in flags

-----------------------------------------------------------------------------
(* Downloads *)

\* beta stands for all that DownloadsAllowed asks for.  An active licence would do in its
\* place, but nothing in this server issues one.
AccountAccess(a) == customers[a].live /\ customers[a].beta

rolloutIncludes(a, r) ==
  LET p == releases[r].rollout IN p >= 100 \/ (p > 0 /\ <<a, r>> \in DownloadCohort)

SignedDownloads(a) == IF AccountAccess(a) THEN {r \in publishedReleases : rolloutIncludes(a, r)} ELSE {}

CreateOrRefreshDownloadTicket(a, key, r, t) ==
  /\ customers[a].live
  /\ LET k == <<a, key>>
     IN  /\ tickets[k].state # "none" => tickets[k].release = r /\ tickets[k].state # "redeemed"
         /\ tickets' = [tickets EXCEPT ![k] = [state |-> "open", release |-> r, token |-> t]]
  /\ redirects' = [redirects EXCEPT ![t] = 0]
  /\ UNCHANGED <<releases, customers, updates, publications, flags>>

Redeemable(a, t, k) == k[1] = a /\ tickets[k].token = t /\ tickets[k].state = "open"

PeekDownloadTicket(a, t) == \E k \in Customers \X Keys : Redeemable(a, t, k)

\* An UPDATE by token alone.
MarkByToken(a, t) ==
  /\ \E k \in Customers \X Keys :
       /\ k[1] = a /\ tickets[k].token = t
       /\ tickets' = [tickets EXCEPT ![k].state = "redeemed"]
  /\ redirects' = [redirects EXCEPT ![t] = @ + 1]
  /\ UNCHANGED <<releases, customers, updates, publications, flags>>

\* Expiry is judged by the time the request looked at the ticket.
MarkDownloadTicketRedeemed(a, t) ==
  /\ \E k \in Customers \X Keys :
       /\ k[1] = a /\ tickets[k].token = t /\ tickets[k].state \in {"open", "expired"}
       /\ tickets' = [tickets EXCEPT ![k].state = "redeemed"]
  /\ redirects' = [redirects EXCEPT ![t] = @ + 1]
  /\ UNCHANGED <<releases, customers, updates, publications, flags>>

\* The time of a ticket is up; the purge deletes what is used or expired.
TicketExpires(k) ==
  /\ tickets[k].state = "open"
  /\ tickets' = [tickets EXCEPT ![k].state = "expired"]
  /\ UNCHANGED <<releases, customers, redirects, updates, publications, flags>>

PurgeTickets ==
  /\ tickets' = [k \in Customers \X Keys |-> IF tickets[k].state = "open" THEN tickets[k] ELSE NoTicket]
  /\ UNCHANGED <<releases, customers, redirects, updates, publications, flags>>

-----------------------------------------------------------------------------
(* Desktop updates *)

includedInRollout(a, r) ==
  LET p == releases[r].rollout IN p >= 100 \/ (p > 0 /\ <<a, r>> \in UpdateCohort)

\* The highest version above the current one that the account is offered.
highestEligibleDesktopRelease(a, current) ==
  LET above == {r \in PublishedReleasesForUpdate(IsOwnerReleaseRingMember(a)) : r > current /\ includedInRollout(a, r)}
  IN  {r \in above : \A o \in above : o <= r}

CreateDesktopUpdateTicket(a, r, t) ==
  /\ customers[a].live
  /\ updates' = [updates EXCEPT ![t] = [state |-> "open", customer |-> a, release |-> r]]
  /\ UNCHANGED <<releases, customers, tickets, redirects, publications, flags>>

\* A ticket serves as often as it is presented until it expires.
RedeemDesktopUpdateTicket(a, t) ==
  /\ updates[t].customer = a /\ updates[t].state \in {"open", "used"}
  /\ updates' = [updates EXCEPT ![t].state = "used"]
  /\ UNCHANGED <<releases, customers, tickets, redirects, publications, flags>>

-----------------------------------------------------------------------------
(* Extension packages *)

States == <<"built", "uploaded", "submitted", "approved", "published", "withdrawn">>
StateSet == {States[n] : n \in DOMAIN States}

\* extensionPublicationTransitions, as the next state of each.
Follows(s, to) == \E n \in 1..(Len(States) - 1) : States[n] = s /\ States[n + 1] = to

NoPublication == [status |-> "none", revision |-> 0, evidence |-> [s \in StateSet |-> "none"]]

AcceptExtensionPublication(p, e) ==
  /\ publications[p].status # "none" => publications[p].evidence["built"] = e
  /\ publications' = IF publications[p].status = "none"
                     THEN [publications EXCEPT ![p] = [NoPublication EXCEPT !.status = "built", !.revision = 1, !.evidence["built"] = e]]
                     ELSE publications
  /\ UNCHANGED <<releases, customers, tickets, redirects, updates, flags>>

MovedRow(row, to, e) == [row EXCEPT !.status = to, !.revision = @ + 1, !.evidence[to] = e]
Moved(p, to, e) == [publications EXCEPT ![p] = MovedRow(@, to, e)]

\* A repeated transition is merged like a first one.
TransitionMerging(p, expected, to, e) ==
  /\ publications[p].status = to \/ (publications[p].revision = expected /\ Follows(publications[p].status, to))
  /\ publications' = Moved(p, to, e)
  /\ UNCHANGED <<releases, customers, tickets, redirects, updates, flags>>

\* A request for the state the record is in answers a retry with the same
\* evidence; any other moves the record one state on.
TransitionExtensionPublication(p, expected, to, e) ==
  /\ IF publications[p].status = to
     THEN publications[p].evidence[to] = e /\ UNCHANGED publications
     ELSE /\ publications[p].revision = expected /\ Follows(publications[p].status, to)
          /\ publications' = Moved(p, to, e)
  /\ UNCHANGED <<releases, customers, tickets, redirects, updates, flags>>

\* What the public sees, of records of one store in the order they were made.
PublicExtensionListings == {p \in Publications : publications[p].status \in {"approved", "published", "withdrawn"}}
=============================================================================
