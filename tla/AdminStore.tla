----------------------------- MODULE AdminStore -----------------------------
(***************************************************************************)
(* The hosted server's administrators: their rows, setup links and sessions *)
(* (internal/admin/store.go), one committed transaction per operator.       *)
(*                                                                          *)
(* A secret is the number of the enrolment that made it, and names the      *)
(* setup link made with it.  A one-time code is the period it is of.  The   *)
(* audit log has no foreign key to the administrators (migration 0007), so  *)
(* a write of an administrator deleted meanwhile fails only where a column  *)
(* refers to them.                                                          *)
(***************************************************************************)
EXTENDS Integers, FiniteSets

CONSTANTS AdminIds, AdminSessions,
          Roles,      \* the roles of the instance
          Periods,    \* 1..n, the periods codes are presented of
          MaxSecret   \* bound of the enrolments of one administrator

ASSUME AdminAssumption ==
  /\ 0 \notin AdminIds
  /\ {"super"} \subseteq Roles /\ Roles \subseteq {"super", "support", "ops", "billing", "readonly"}
  /\ Periods \subseteq Nat \ {0} /\ MaxSecret \in Nat

VARIABLES admins, adminSessions

adminVars == <<admins, adminSessions>>

NoAdmin == [state |-> "none", role |-> "readonly", suspended |-> FALSE, verified |-> FALSE,
            secret |-> 0, counter |-> 0, link |-> "none"]
NoAdminSession == [admin |-> 0, recent |-> FALSE]

Exists(i) == admins[i].state = "live"

\* What a role may do.
Allowed(role, permission) ==
  \/ role = "super"
  \/ permission = "users:read" /\ role \in {"support", "billing", "readonly"}
  \/ permission = "users:manage" /\ role = "support"
  \/ permission \in {"flags:manage", "releases:write"} /\ role = "ops"
  \/ permission = "plans:write" /\ role = "billing"
  \/ permission = "audit:all" /\ role = "readonly"
  \/ permission = "system:read" /\ role \in {"ops", "readonly"}
  \/ permission = "support:manage" /\ role = "support"
  \/ permission = "support:read" /\ role \in {"support", "readonly"}

-----------------------------------------------------------------------------
(* Enrolment *)

\* A row that waits for its setup link to be used.
Enrolling(row, role) ==
  [row EXCEPT !.state = "live", !.role = role, !.verified = FALSE, !.secret = @ + 1,
              !.counter = 0, !.link = "fresh"]

BootstrapSuper(i) ==
  /\ \A j \in AdminIds : ~Exists(j)
  /\ admins[i] = NoAdmin
  /\ admins' = [admins EXCEPT ![i] = Enrolling(NoAdmin, "super")]
  /\ UNCHANGED adminSessions

SessionsWithout(i) ==
  [s \in AdminSessions |-> IF adminSessions[s].admin = i THEN NoAdminSession ELSE adminSessions[s]]

ResetSetup(i) ==
  /\ Exists(i) /\ ~admins[i].suspended /\ admins[i].secret < MaxSecret
  /\ admins' = [admins EXCEPT ![i] = Enrolling(@, @.role)]
  /\ adminSessions' = SessionsWithout(i)

\* The link of enrolment n works: unexpired, and unopened or within the grace.
LinkWorks(i, n) ==
  Exists(i) /\ admins[i].secret = n /\ admins[i].link \in {"fresh", "opened"} /\ ~admins[i].verified

SetupDetails(i, n) ==
  /\ LinkWorks(i, n) /\ ~admins[i].suspended
  /\ admins' = [admins EXCEPT ![i].link = "opened"]
  /\ UNCHANGED adminSessions

Greater(m, n) == IF m > n THEN m ELSE n

CompleteSetup(i, n, p) ==
  /\ LinkWorks(i, n) /\ ~admins[i].suspended
  /\ admins' = [admins EXCEPT ![i].link = "opened", ![i].verified = TRUE, ![i].counter = Greater(@, p)]
  /\ UNCHANGED adminSessions

-----------------------------------------------------------------------------
(* Sessions *)

\* What adminLogin reads: the code's period is later than any accepted before.
FindByEmail(i, p) ==
  Exists(i) /\ ~admins[i].suspended /\ admins[i].verified /\ p > admins[i].counter

Opened(i, s) == [adminSessions EXCEPT ![s] = [admin |-> i, recent |-> TRUE]]

Consume(i, p) ==
  /\ Exists(i) /\ ~admins[i].suspended /\ admins[i].counter < p
  /\ admins' = [admins EXCEPT ![i].counter = p]

CreateSession(i, s, p) == Consume(i, p) /\ adminSessions' = Opened(i, s)

CreateSessionAfterSetup(i, s, p) ==
  /\ Exists(i) /\ ~admins[i].suspended /\ admins[i].counter = p
  /\ adminSessions' = Opened(i, s)
  /\ UNCHANGED admins

\* What the cookie of s gives access to, if anything.
AccountBySession(s) ==
  LET i == adminSessions[s].admin
  IN  IF i = 0 THEN FALSE ELSE Exists(i) /\ ~admins[i].suspended /\ admins[i].verified

PasswordHash(i) == Exists(i) /\ ~admins[i].suspended /\ admins[i].verified
TOTPSecret(i, p) == PasswordHash(i) /\ p > admins[i].counter

\* p is the period of the code, 0 for the password.
MarkSessionAuthenticated(i, s, p) ==
  /\ adminSessions[s].admin = i
  /\ adminSessions' = [adminSessions EXCEPT ![s].recent = TRUE]
  /\ IF p = 0 THEN UNCHANGED admins ELSE Consume(i, p)

DeleteSession(i, s) ==
  /\ adminSessions' = IF adminSessions[s].admin = i THEN [adminSessions EXCEPT ![s] = NoAdminSession] ELSE adminSessions
  /\ UNCHANGED admins

-----------------------------------------------------------------------------
(* The set of administrators *)

ActiveSupers == {i \in AdminIds : Exists(i) /\ admins[i].role = "super" /\ ~admins[i].suspended}

\* Counts after the change to the target, as if the target were a second one.
EnsureSuperCounted(i, stays) == Exists(i) /\ (i \in ActiveSupers /\ ~stays => Cardinality(ActiveSupers) > 0)

ensureActiveSuperRemains(i, stays) ==
  Exists(i) /\ (i \in ActiveSupers /\ ~stays => Cardinality(ActiveSupers) > 1)

InviteAdmin(actor, i, role) ==
  /\ Exists(actor)  \* created_by
  /\ admins[i] = NoAdmin
  /\ admins' = [admins EXCEPT ![i] = Enrolling(NoAdmin, role)]
  /\ UNCHANGED adminSessions

UpdateAdmin(actor, i, role, suspended) ==
  /\ i = actor => role = "super" /\ ~suspended
  /\ ensureActiveSuperRemains(i, role = "super" /\ ~suspended)
  /\ admins' = [admins EXCEPT ![i].role = role, ![i].suspended = suspended]
  /\ adminSessions' = IF suspended THEN SessionsWithout(i) ELSE adminSessions

\* authors: administrators a support note refers to; the column is NOT NULL.
DeleteAdmin(actor, i, authors) ==
  /\ i # actor /\ i \notin authors
  /\ ensureActiveSuperRemains(i, FALSE)
  /\ admins' = [admins EXCEPT ![i] = [NoAdmin EXCEPT !.state = "deleted"]]
  /\ adminSessions' = SessionsWithout(i)

Admins == {i \in AdminIds : Exists(i)}
=============================================================================
