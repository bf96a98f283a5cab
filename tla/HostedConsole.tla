---------------------------- MODULE HostedConsole ----------------------------
(***************************************************************************)
(* The administrators' console of the hosted server and what it works on:   *)
(* administrators, releases with their tickets, extension packages, and     *)
(* support requests (httpapi/admin_auth.go, admin_routes.go,                *)
(* release_candidates.go, extension_publications.go, desktop_updates.go,    *)
(* account_flows.go, support_*.go).                                         *)
(*                                                                          *)
(* A request reads what it decides on and writes later: req holds what each *)
(* client's request has read.  Other requests, the purge and time run       *)
(* between the two, so the write can meet rows that changed.                *)
(***************************************************************************)
EXTENDS AdminStore, ReleaseStore, SupportStore

CONSTANTS Clients

VARIABLES req,
          sweep   \* the requests the maintenance job read as waiting for too long

vars == <<adminVars, releaseVars, supportVars, req, sweep>>

Idle == [op |-> "idle"]
Is(c, op) == req[c].op = op

Become(c, r) == req' = [req EXCEPT ![c] = r]
Done(c) == Become(c, Idle)

Lowest(S) == {n \in S : \A m \in S : n <= m}

\* Identifiers no row and no request in flight refers to.
NewSession == Lowest({s \in AdminSessions : adminSessions[s] = NoAdminSession
                        /\ \A c \in Clients : ~(Is(c, "stepup") /\ req[c].session = s)})
NewToken == Lowest({t \in Tokens : /\ updates[t] = NoUpdate
                                   /\ \A k \in Customers \X Keys : tickets[k].token # t
                                   /\ \A c \in Clients : ~(Is(c, "redeem") /\ req[c].token = t)})
NewLink == Lowest({l \in Links : links[l] = 0 /\ \A c \in Clients : ~(Is(c, "link") /\ req[c].link = l)})

\* An error answer: the request ends and its transaction is rolled back.
Abandon(c) ==
  /\ ~Is(c, "idle") /\ Done(c)
  /\ UNCHANGED <<adminVars, releaseVars, supportVars, sweep>>

-----------------------------------------------------------------------------
(* Signing in *)

adminLogin(c, i, p) ==
  /\ Is(c, "idle") /\ FindByEmail(i, p)
  /\ Become(c, [op |-> "login", admin |-> i, period |-> p])
  /\ UNCHANGED <<adminVars, releaseVars, supportVars, sweep>>

openSession(c) ==
  /\ Is(c, "login")
  /\ \E s \in NewSession : CreateSession(req[c].admin, s, req[c].period)
  /\ Done(c) /\ UNCHANGED <<releaseVars, supportVars, sweep>>

adminSetupBegin(i) ==
  /\ SetupDetails(i, admins[i].secret)
  /\ UNCHANGED <<releaseVars, supportVars, req, sweep>>

\* Opens the link and checks the code against its secret.
adminSetupComplete(c, i, p) ==
  /\ Is(c, "idle") /\ SetupDetails(i, admins[i].secret)
  /\ Become(c, [op |-> "setup", admin |-> i, secret |-> admins[i].secret, period |-> p])
  /\ UNCHANGED <<releaseVars, supportVars, sweep>>

enrol(c) ==
  /\ Is(c, "setup") /\ CompleteSetup(req[c].admin, req[c].secret, req[c].period)
  /\ Become(c, [op |-> "enrolled", admin |-> req[c].admin, period |-> req[c].period])
  /\ UNCHANGED <<releaseVars, supportVars, sweep>>

enter(c) ==
  /\ Is(c, "enrolled")
  /\ \E s \in NewSession : CreateSessionAfterSetup(req[c].admin, s, req[c].period)
  /\ Done(c) /\ UNCHANGED <<releaseVars, supportVars, sweep>>

\* With the password (p = 0) or a code.
adminStepUp(c, s, p) ==
  /\ Is(c, "idle") /\ AccountBySession(s)
  /\ LET i == adminSessions[s].admin
     IN  /\ IF p = 0 THEN PasswordHash(i) ELSE TOTPSecret(i, p)
         /\ Become(c, [op |-> "stepup", admin |-> i, session |-> s, period |-> p])
  /\ UNCHANGED <<adminVars, releaseVars, supportVars, sweep>>

confirm(c) ==
  /\ Is(c, "stepup") /\ MarkSessionAuthenticated(req[c].admin, req[c].session, req[c].period)
  /\ Done(c) /\ UNCHANGED <<releaseVars, supportVars, sweep>>

adminLogout(s) ==
  /\ AccountBySession(s) /\ DeleteSession(adminSessions[s].admin, s)
  /\ UNCHANGED <<releaseVars, supportVars, req, sweep>>

\* Who a request's cookie stands for, read before the request's transaction.
Signed(s) ==
  LET i == adminSessions[s].admin
  IN  [actor |-> i, role |-> admins[i].role, recent |-> adminSessions[s].recent]

adminSessionForRequest(c, s) ==
  /\ Is(c, "idle") /\ AccountBySession(s)
  /\ Become(c, [op |-> "admin", by |-> Signed(s)])
  /\ UNCHANGED <<adminVars, releaseVars, supportVars, sweep>>

requireAdminPermission(c, permission) == Is(c, "admin") /\ Allowed(req[c].by.role, permission)
requireAdminStepUp(c, permission) == requireAdminPermission(c, permission) /\ req[c].by.recent

-----------------------------------------------------------------------------
(* Administrators and accounts *)

inviteAdminAccount(c) ==
  /\ requireAdminStepUp(c, "admins:manage")
  /\ \E i \in Lowest({j \in AdminIds : admins[j] = NoAdmin}), role \in Roles : InviteAdmin(req[c].by.actor, i, role)
  /\ Done(c) /\ UNCHANGED <<releaseVars, supportVars, sweep>>

updateAdminAccount(c) ==
  /\ requireAdminStepUp(c, "admins:manage")
  /\ \E i \in AdminIds, role \in Roles, suspended \in BOOLEAN : UpdateAdmin(req[c].by.actor, i, role, suspended)
  /\ Done(c) /\ UNCHANGED <<releaseVars, supportVars, sweep>>

deleteAdminAccount(c) ==
  /\ requireAdminStepUp(c, "admins:manage")
  /\ \E i \in AdminIds : DeleteAdmin(req[c].by.actor, i, Authors) /\ AdminGone(i)
  /\ Done(c) /\ UNCHANGED <<releaseVars, sweep>>

\* A grant names the administrator; membership of the owner ring needs releases:write.
adminUserAction(c) ==
  /\ \E a \in Customers, enable \in BOOLEAN :
       \/ requireAdminStepUp(c, "users:manage") /\ (enable => Exists(req[c].by.actor)) /\ SetBeta(a, enable)
       \/ requireAdminStepUp(c, "users:manage") /\ SetSuspended(a, enable)
       \/ requireAdminStepUp(c, "releases:write") /\ SetOwnerReleaseRingMember(a, enable)
  /\ Done(c) /\ UNCHANGED <<adminVars, supportVars, sweep>>

adminUserDelete(c) ==
  /\ requireAdminStepUp(c, "users:delete")
  /\ \E a \in Customers : DeleteUser(a) /\ AccountGone(a)
  /\ Done(c) /\ UNCHANGED <<adminVars, sweep>>

adminFlag(c) ==
  /\ requireAdminStepUp(c, "flags:manage") /\ Exists(req[c].by.actor)
  /\ \E f \in Flags : UpdateFeatureFlag(f)
  /\ Done(c) /\ UNCHANGED <<adminVars, supportVars, sweep>>

-----------------------------------------------------------------------------
(* Releases *)

\* Somebody signed in with the permission, who proved themselves lately if asked.
Permitted(permission, stepUp) ==
  \E s \in AdminSessions : AccountBySession(s) /\ Allowed(Signed(s).role, permission) /\ (stepUp => Signed(s).recent)

\* The build pipeline; it repeats a request it has no answer to.
releaseCandidateIngest ==
  /\ \E r \in Releases, set \in Candidates : AcceptReleaseCandidate(r, set)
  /\ UNCHANGED <<adminVars, supportVars, req, sweep>>

\* An administrator looks at a release, and acts on what they saw later.
adminReleases(c, r) ==
  /\ Is(c, "idle") /\ Permitted("releases:write", FALSE) /\ releases[r].status # "none"
  /\ Become(c, [op |-> "view", release |-> r, seen |-> releases[r]])
  /\ UNCHANGED <<adminVars, releaseVars, supportVars, sweep>>

BeginRelease(c) ==
  /\ Is(c, "view") /\ Permitted("releases:write", TRUE)
  /\ Become(c, [req[c] EXCEPT !.op = "release"])
  /\ UNCHANGED <<adminVars, releaseVars, supportVars, sweep>>

ReleaseCommand(c, row) ==
  /\ Is(c, "release") /\ applyReleaseCommand(req[c].release, req[c].seen.revision, row)
  /\ Done(c) /\ UNCHANGED <<adminVars, supportVars, sweep>>

adminReleasePublish(c) ==
  Is(c, "release") /\ LET r == req[c].release IN ReleaseCommand(c, PublishRelease(releases[r], releaseEligible(r)))
adminReleaseRollout(c) ==
  Is(c, "release") /\ \E p \in Percents : ReleaseCommand(c, SetReleaseRollout(releases[req[c].release], p))
adminReleaseEmergencyStop(c) == Is(c, "release") /\ ReleaseCommand(c, EmergencyStopRelease(releases[req[c].release]))
adminReleaseWithdraw(c) == Is(c, "release") /\ ReleaseCommand(c, WithdrawRelease(releases[req[c].release]))

\* Extension packages: the same two steps.
adminExtensionPublications(c, p) ==
  /\ Is(c, "idle") /\ Permitted("releases:write", FALSE) /\ publications[p].status # "none"
  /\ Become(c, [op |-> "package", package |-> p, revision |-> publications[p].revision])
  /\ UNCHANGED <<adminVars, releaseVars, supportVars, sweep>>

adminExtensionPublicationAccept(c) ==
  /\ requireAdminStepUp(c, "releases:write")
  /\ \E p \in Publications, e \in Evidences : AcceptExtensionPublication(p, e)
  /\ Done(c) /\ UNCHANGED <<adminVars, supportVars, sweep>>

adminExtensionPublicationTransition(c) ==
  /\ Is(c, "package") /\ Permitted("releases:write", TRUE)
  /\ \E to \in StateSet \ {"built"}, e \in Evidences :
       TransitionExtensionPublication(req[c].package, req[c].revision, to, e)
  /\ Done(c) /\ UNCHANGED <<adminVars, supportVars, sweep>>

-----------------------------------------------------------------------------
(* Downloads and desktop updates *)

userForRequest(c, a) ==
  /\ Is(c, "idle") /\ Active(a)
  /\ Become(c, [op |-> "customer", customer |-> a])
  /\ UNCHANGED <<adminVars, releaseVars, supportVars, sweep>>

accountDownloads(c) ==
  /\ Is(c, "customer") /\ capabilityEnabled("downloads_enabled")
  /\ \E r \in SignedDownloads(req[c].customer) :
       releaseEligible(r) /\ Become(c, [op |-> "ticket", customer |-> req[c].customer, release |-> r])
  /\ UNCHANGED <<adminVars, releaseVars, supportVars, sweep>>

accountDownloadTickets(c) ==
  /\ Is(c, "ticket")
  /\ \E k \in Keys, t \in NewToken : CreateOrRefreshDownloadTicket(req[c].customer, k, req[c].release, t)
  /\ Done(c) /\ UNCHANGED <<adminVars, supportVars, sweep>>

BeginRedeem(c) ==
  /\ Is(c, "customer")
  /\ \E t \in Tokens :
       /\ PeekDownloadTicket(req[c].customer, t)
       /\ Become(c, [op |-> "redeem", customer |-> req[c].customer, token |-> t])
  /\ UNCHANGED <<adminVars, releaseVars, supportVars, sweep>>

\* The address was signed in between; the redirect follows the mark.
redeemDownloadTicket(c) ==
  /\ Is(c, "redeem") /\ MarkDownloadTicketRedeemed(req[c].customer, req[c].token)
  /\ Done(c) /\ UNCHANGED <<adminVars, supportVars, sweep>>

BeginUpdate(c, current) ==
  /\ Is(c, "customer") /\ capabilityEnabled("updater_enabled")
  /\ \E r \in highestEligibleDesktopRelease(req[c].customer, current) :
       Become(c, [op |-> "update", customer |-> req[c].customer, release |-> r])
  /\ UNCHANGED <<adminVars, releaseVars, supportVars, sweep>>

desktopUpdate(c) ==
  /\ Is(c, "update")
  /\ \E t \in NewToken : CreateDesktopUpdateTicket(req[c].customer, req[c].release, t)
  /\ Done(c) /\ UNCHANGED <<adminVars, supportVars, sweep>>

redeemDesktopUpdateTicket(c) ==
  /\ Is(c, "customer") /\ capabilityEnabled("updater_enabled")
  /\ \E t \in Tokens : RedeemDesktopUpdateTicket(req[c].customer, t)
  /\ Done(c) /\ UNCHANGED <<adminVars, supportVars, sweep>>

-----------------------------------------------------------------------------
(* Support *)

createSupportRequest(t, a) ==
  /\ a # 0 => Active(a)
  /\ t \in Lowest({u \in Requests : ~Stored(u)}) /\ CreateSupportRequest(t, a)
  /\ UNCHANGED <<adminVars, releaseVars, req, sweep>>

accountSupportTicket(c) ==
  /\ Is(c, "customer")
  /\ LET a == req[c].customer
     IN  \E t \in Requests : \/ ReplyToSupportTicket(a, t)
                             \/ CloseSupportTicket(a, t)
                             \/ ReopenSupportTicket(a, t)
                             \/ customers[a].live /\ AttachSupportTicket(a, t)
  /\ Done(c) /\ UNCHANGED <<adminVars, releaseVars, sweep>>

redeemSupportAccess(c, l) ==
  /\ Is(c, "idle") /\ SupportTicketForAccessToken(l)
  /\ Become(c, [op |-> "link", link |-> l])
  /\ UNCHANGED <<adminVars, releaseVars, supportVars, sweep>>

replyToSupportAccess(c) ==
  /\ Is(c, "link") /\ ReplyToSupportTicketWithAccessToken(req[c].link)
  /\ Done(c) /\ UNCHANGED <<adminVars, releaseVars, sweep>>

\* A reply looks at the request first: without an account the mail carries a link.
BeginReply(c, t, mail) ==
  /\ requireAdminPermission(c, "support:manage") /\ Stored(t)
  /\ Become(c, [op |-> "reply", by |-> req[c].by, request |-> t, link |-> mail /\ requests[t].account = 0])
  /\ UNCHANGED <<adminVars, releaseVars, supportVars, sweep>>

adminReply(c) ==
  /\ Is(c, "reply") /\ Exists(req[c].by.actor)
  /\ \E l \in IF req[c].link THEN NewLink ELSE {0} : ReplyTicket(req[c].request, l)
  /\ Done(c) /\ UNCHANGED <<adminVars, releaseVars, sweep>>

Assignable == {i \in AdminIds : Exists(i) /\ ~admins[i].suspended /\ admins[i].role \in {"super", "support"}}

\* Notes and closing name the administrator.
adminSupportTicketRoute(c) ==
  /\ requireAdminPermission(c, "support:manage")
  /\ \E t \in Requests :
       \/ Exists(req[c].by.actor) /\ AddTicketNote(req[c].by.actor, t)
       \/ \E to \in Assignable \cup {0} : AssignTicket(t, to)
       \/ \E status \in {"open", "in_progress", "waiting", "closed"} :
            (status = "closed" => Exists(req[c].by.actor)) /\ SetTicketStatus(t, status)
       \/ SetTicketPriority(t)
  /\ Done(c) /\ UNCHANGED <<adminVars, releaseVars, sweep>>

-----------------------------------------------------------------------------
(* The operator, the hourly job, and time *)

adminctl(i) ==
  /\ BootstrapSuper(i) \/ ResetSetup(i)
  /\ UNCHANGED <<releaseVars, supportVars, req, sweep>>

\* Links that were opened go with the expired ones.
Purge ==
  /\ admins' = [i \in AdminIds |-> IF admins[i].link = "opened" THEN [admins[i] EXCEPT !.link = "none"] ELSE admins[i]]
  /\ PurgeTickets /\ purgeSupportHistory
  /\ sweep' = waitingSupportTicketIDs
  /\ UNCHANGED <<adminSessions, req>>

AutoClose ==
  /\ sweep # {} /\ autoCloseWaitingSupportRequests(sweep)
  /\ sweep' = {}
  /\ UNCHANGED <<adminVars, releaseVars, req>>

AdminTime ==
  /\ \/ /\ \E s \in AdminSessions :
             /\ adminSessions[s].admin # 0
             /\ \/ adminSessions' = [adminSessions EXCEPT ![s] = NoAdminSession]
                \/ adminSessions[s].recent /\ adminSessions' = [adminSessions EXCEPT ![s].recent = FALSE]
        /\ UNCHANGED admins
     \/ /\ \E i \in AdminIds : admins[i].link # "none" /\ admins' = [admins EXCEPT ![i].link = "none"]
        /\ UNCHANGED adminSessions
  /\ UNCHANGED <<releaseVars, supportVars, req, sweep>>

Time ==
  \/ AdminTime
  \/ (\E k \in Customers \X Keys : TicketExpires(k)) /\ UNCHANGED <<adminVars, supportVars, req, sweep>>
  \/ /\ \E t \in Tokens : updates[t] # NoUpdate /\ updates' = [updates EXCEPT ![t] = NoUpdate]
     /\ UNCHANGED <<adminVars, releases, customers, tickets, redirects, publications, flags, supportVars, req, sweep>>
  \/ ((\E t \in Requests : RequestAges(t)) \/ (\E l \in Links : LinkExpires(l))) /\ UNCHANGED <<adminVars, releaseVars, req, sweep>>

SignIn(c) ==
  \/ \E i \in AdminIds, p \in Periods : adminLogin(c, i, p) \/ adminSetupComplete(c, i, p)
  \/ openSession(c) \/ enrol(c) \/ enter(c) \/ confirm(c)
  \/ \E s \in AdminSessions : adminSessionForRequest(c, s) \/ \E p \in Periods \cup {0} : adminStepUp(c, s, p)

Manage(c) ==
  \/ inviteAdminAccount(c) \/ updateAdminAccount(c) \/ deleteAdminAccount(c)
  \/ adminUserAction(c) \/ adminUserDelete(c) \/ adminFlag(c)

Release(c) ==
  \/ \E r \in Releases : adminReleases(c, r)
  \/ \E p \in Publications : adminExtensionPublications(c, p)
  \/ BeginRelease(c) \/ adminExtensionPublicationTransition(c)
  \/ adminReleasePublish(c) \/ adminReleaseRollout(c) \/ adminReleaseEmergencyStop(c) \/ adminReleaseWithdraw(c)
  \/ adminExtensionPublicationAccept(c)

Deliver(c) ==
  \/ \E a \in Customers : userForRequest(c, a)
  \/ accountDownloads(c) \/ accountDownloadTickets(c) \/ BeginRedeem(c) \/ redeemDownloadTicket(c)
  \/ (\E current \in Releases \cup {0} : BeginUpdate(c, current)) \/ desktopUpdate(c) \/ redeemDesktopUpdateTicket(c)

Support(c) ==
  \/ accountSupportTicket(c)
  \/ (\E l \in Links : redeemSupportAccess(c, l)) \/ replyToSupportAccess(c)
  \/ (\E t \in Requests, mail \in BOOLEAN : BeginReply(c, t, mail)) \/ adminReply(c)
  \/ adminSupportTicketRoute(c)

Next ==
  \/ \E c \in Clients : SignIn(c) \/ Manage(c) \/ Release(c) \/ Deliver(c) \/ Support(c) \/ Abandon(c)
  \/ \E i \in AdminIds : adminSetupBegin(i) \/ adminctl(i)
  \/ \E s \in AdminSessions : adminLogout(s)
  \/ releaseCandidateIngest
  \/ \E t \in Requests, a \in Customers \cup {0} : createSupportRequest(t, a)
  \/ Purge \/ AutoClose \/ Time

Init ==
  /\ admins = [i \in AdminIds |-> NoAdmin]
  /\ adminSessions = [s \in AdminSessions |-> NoAdminSession]
  /\ releases = [r \in Releases |-> NoRelease]
  /\ customers = [a \in Customers |-> [NoCustomer EXCEPT !.live = TRUE]]
  /\ tickets = [k \in Customers \X Keys |-> NoTicket]
  /\ redirects = [t \in Tokens |-> 0]
  /\ updates = [t \in Tokens |-> NoUpdate]
  /\ publications = [p \in Publications |-> NoPublication]
  /\ flags = Flags
  /\ requests = [t \in Requests |-> NoRequest]
  /\ links = [l \in Links |-> 0]
  /\ req = [c \in Clients |-> Idle] /\ sweep = {}

Spec == Init /\ [][Next]_vars

-----------------------------------------------------------------------------
(* Properties *)

\* Once there are administrators, one of them is a super administrator who is
\* not suspended, though demotions, suspensions and deletions of several
\* administrators, one by the other, are checked before and applied later
\* (ensureActiveSuperRemains).
SuperStays == (\E i \in AdminIds : Exists(i)) => ActiveSupers # {}

\* What a version consists of is settled when its candidate is accepted, and a
\* release that was stopped or withdrawn is never offered again, whatever
\* commands were under way (AcceptReleaseCandidate, applyReleaseCommand).
ReleaseHistory ==
  [][\A r \in Releases :
       /\ releases[r].status # "none" => releases'[r].set = releases[r].set
       /\ releases[r].kill => r \notin publishedReleases']_vars

\* A command changes a release only from the very row its administrator was
\* looking at: the revision tells two rows apart (adminReleasePublish and the
\* other commands, expectedManifestRevision).
CommandsFollowView ==
  [][\A c \in Clients :
       Is(c, "release") /\ req'[c] = Idle /\ releases' # releases => releases[req[c].release] = req[c].seen]_vars

\* A download link leads to the artifact once, though two requests look at it
\* before either marks it, and it is refreshed or purged meanwhile
\* (redeemDownloadTicket).
TicketOnce == \A t \in Tokens : redirects[t] <= 1

\* The record of an extension package moves on one state at a time, and what
\* was recorded of a state stays, however often a transition is sent
\* (TransitionExtensionPublication).
PublicationHistory ==
  [][\A p \in Publications :
       LET was == publications[p] is == publications'[p]
       IN  /\ \A s \in StateSet : was.evidence[s] # "none" => is.evidence[s] = was.evidence[s]
           /\ is # was => is.revision = was.revision + 1 /\ (was.status = "none" \/ Follows(was.status, is.status))]_vars

\* A link that is not revoked opens a request that is open and belongs to no
\* account, and a request has one such link at most (support.Close,
\* IssueAccessLink, AttachSupportTicket).
LinksOpenRequests ==
  /\ \A l \in Links : links[l] # 0 => LET t == links[l] IN Stored(t) /\ ~Closed(t) /\ requests[t].account = 0
  /\ \A l, m \in Links : links[l] # 0 /\ links[l] = links[m] => l = m

\* The hourly job closes only a request that waits for its requester, without
\* activity for the whole time, at that moment; an answer between the job's
\* two steps keeps it open (autoCloseWaitingSupportRequests).
AnswerKeepsOpen ==
  [][\A t \in Requests :
       ~requests[t].bySystem /\ requests'[t].bySystem => requests[t].status = "waiting" /\ requests[t].stale]_vars
=============================================================================
