---------------------------- MODULE SupportStore ----------------------------
(***************************************************************************)
(* Support requests and the links that open them without an account, as     *)
(* both the account side and the administrators' side write them            *)
(* (internal/support, store_tickets.go, accounts/security.go and            *)
(* support_maintenance.go), one committed transaction per operator.         *)
(*                                                                          *)
(* Times are facts about a row: stale (no activity for AutoCloseAfter),     *)
(* window (the account may still reopen it) and old (closed for longer      *)
(* than RetentionAfter).                                                    *)
(***************************************************************************)
EXTENDS Integers, FiniteSets

CONSTANTS Requests, Links

ASSUME SupportAssumption == 0 \notin Requests /\ 0 \notin Links

VARIABLES requests,
          links   \* link -> the request it opens; 0: not issued, revoked or expired

supportVars == <<requests, links>>

NoRequest == [status |-> "none", account |-> 0, assigned |-> 0, stale |-> FALSE, window |-> FALSE,
              bySystem |-> FALSE, old |-> FALSE, authors |-> {}]

Stored(t) == requests[t].status # "none"
Closed(t) == requests[t].status = "closed"

-----------------------------------------------------------------------------
(* What both sides share: internal/support *)

\* The links without the live ones of t.
RevokeAccessLinks(t) == [l \in Links |-> IF links[l] = t THEN 0 ELSE links[l]]

IssueAccessLink(t, l) == links' = [RevokeAccessLinks(t) EXCEPT ![l] = t]

ClosedRow(row) == [row EXCEPT !.status = "closed", !.stale = FALSE, !.window = TRUE, !.bySystem = FALSE, !.old = FALSE]

\* The status alone: a link sent before the request was closed still opens it.
CloseOnly(t) ==
  /\ requests' = [requests EXCEPT ![t] = ClosedRow(@)]
  /\ UNCHANGED links

Close(t) ==
  /\ requests' = [requests EXCEPT ![t] = ClosedRow(@)]
  /\ links' = RevokeAccessLinks(t)

OpenRow(row, status) == [row EXCEPT !.status = status, !.stale = FALSE, !.window = FALSE, !.bySystem = FALSE, !.old = FALSE]

SetOpenStatus(t, status) ==
  /\ requests' = [requests EXCEPT ![t] = OpenRow(@, status)]
  /\ UNCHANGED links

\* The requests of ids are closed as they were read.
CloseRead(ids) == ids

\* Of the requests read before, those still without an answer.
CloseAutomatically(ids) == {t \in ids : requests[t].status = "waiting" /\ requests[t].stale}

-----------------------------------------------------------------------------
(* The account's side *)

CreateSupportRequest(t, a) ==
  /\ ~Stored(t)
  /\ requests' = [requests EXCEPT ![t] = [NoRequest EXCEPT !.status = "open", !.account = a]]
  /\ UNCHANGED links

Own(a, t) == Stored(t) /\ requests[t].account = a

\* What the owner sees they may do.
SupportTicketForAccount(a, t) ==
  [canClose |-> Own(a, t) /\ ~Closed(t), canReopen |-> Own(a, t) /\ Closed(t) /\ requests[t].window]

CloseSupportTicket(a, t) == Own(a, t) /\ ~Closed(t) /\ Close(t)

ReopenSupportTicket(a, t) ==
  /\ SupportTicketForAccount(a, t).canReopen
  /\ SetOpenStatus(t, "open")

Answered(t) ==
  [requests EXCEPT ![t] = [@ EXCEPT !.status = IF requests[t].assigned = 0 THEN "open" ELSE "in_progress", !.stale = FALSE]]

ReplyToSupportTicket(a, t) ==
  /\ Own(a, t) /\ ~Closed(t)
  /\ requests' = Answered(t)
  /\ UNCHANGED links

\* The request a link opens, if any.
resolveSupportAccessLink(l) ==
  {t \in Requests : links[l] = t /\ Stored(t) /\ requests[t].account = 0 /\ ~Closed(t)}

SupportTicketForAccessToken(l) == resolveSupportAccessLink(l) # {}

ReplyToSupportTicketWithAccessToken(l) ==
  \E t \in resolveSupportAccessLink(l) :
    /\ requests' = Answered(t)
    /\ UNCHANGED links

\* For an account whose verified address is the one of the request: every account here
\* may be.
AttachSupportTicket(a, t) ==
  /\ Stored(t) /\ requests[t].account = 0
  /\ requests' = [requests EXCEPT ![t].account = a]
  /\ links' = RevokeAccessLinks(t)

-----------------------------------------------------------------------------
(* The administrators' side *)

\* l: the link of the mail that carries the reply, 0 when it carries none.
ReplyTicket(t, l) ==
  /\ Stored(t) /\ ~Closed(t)
  /\ requests' = [requests EXCEPT ![t].status = "waiting", ![t].stale = FALSE]
  /\ IF l # 0 /\ requests[t].account = 0 THEN IssueAccessLink(t, l) ELSE UNCHANGED links

AddTicketNote(actor, t) ==
  /\ Stored(t)
  /\ requests' = [requests EXCEPT ![t].authors = @ \cup {actor}]
  /\ UNCHANGED links

AssignedRow(row, to) ==
  [row EXCEPT !.assigned = to, !.stale = FALSE, !.status = IF to # 0 /\ @ = "open" THEN "in_progress" ELSE @]

\* to: 0 to take the request from whoever has it.
AssignTicket(t, to) ==
  /\ Stored(t)
  /\ requests' = [requests EXCEPT ![t] = AssignedRow(@, to)]
  /\ UNCHANGED links

SetTicketStatus(t, status) ==
  /\ Stored(t)
  /\ IF status = "closed" THEN Close(t) ELSE SetOpenStatus(t, status)

SetTicketPriority(t) ==
  /\ Stored(t)
  /\ requests' = [requests EXCEPT ![t].stale = FALSE]
  /\ UNCHANGED links

-----------------------------------------------------------------------------
(* Maintenance, and rows that go with others *)

waitingSupportTicketIDs == {t \in Requests : requests[t].status = "waiting" /\ requests[t].stale}

\* Requests closed long ago go, with their links.
purgeSupportHistory ==
  LET gone == {t \in Requests : Closed(t) /\ requests[t].old}
  IN  /\ requests' = [t \in Requests |-> IF t \in gone THEN NoRequest ELSE requests[t]]
      /\ links' = [l \in Links |-> IF links[l] \in gone THEN 0 ELSE links[l]]

autoCloseWaitingSupportRequests(ids) ==
  LET closing == CloseAutomatically(ids)
  IN  /\ requests' = [t \in Requests |-> IF t \in closing THEN [ClosedRow(requests[t]) EXCEPT !.bySystem = TRUE] ELSE requests[t]]
      /\ links' = [l \in Links |-> IF links[l] \in closing THEN 0 ELSE links[l]]

\* Foreign keys: a deleted account or administrator leaves the request.
AccountGone(a) ==
  /\ requests' = [t \in Requests |-> IF requests[t].account = a THEN [requests[t] EXCEPT !.account = 0] ELSE requests[t]]
  /\ UNCHANGED links

AdminGone(i) ==
  /\ requests' = [t \in Requests |-> IF requests[t].assigned = i THEN [requests[t] EXCEPT !.assigned = 0] ELSE requests[t]]
  /\ UNCHANGED links

Authors == UNION {requests[t].authors : t \in Requests}

\* Time passes for one request, or a link expires.
RequestAges(t) ==
  /\ \/ requests[t].status = "waiting" /\ requests' = [requests EXCEPT ![t].stale = TRUE]
     \/ Closed(t) /\ requests[t].window /\ requests' = [requests EXCEPT ![t].window = FALSE]
     \/ Closed(t) /\ ~requests[t].window /\ requests' = [requests EXCEPT ![t].old = TRUE]
  /\ UNCHANGED links

LinkExpires(l) ==
  /\ links[l] # 0
  /\ links' = [links EXCEPT ![l] = 0]
  /\ UNCHANGED requests
=============================================================================
