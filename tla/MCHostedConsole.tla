--------------------------- MODULE MCHostedConsole ---------------------------
(***************************************************************************)
(* A small hosted server: the console's behaviours up to a bound on the     *)
(* rows, requests and changes in use at a time.                             *)
(***************************************************************************)
EXTENDS HostedConsole, TLC

CONSTANTS MaxInUse, MaxMixed  \* bounds of one area's rows and requests, and of several areas'

Symmetry == Permutations(Clients)

\* The account is within a partial rollout of the first release for updates.
Cohort == {<<1, 1>>}

Count(S) == Cardinality(S)

Enrolled(role) == [NoAdmin EXCEPT !.state = "live", !.role = role, !.verified = TRUE, !.secret = 1]

\* A server whose first two administrators have enrolled and are signed in.
Staffed ==
  /\ \E role \in Roles :
       admins = [i \in AdminIds |-> IF i = 1 THEN Enrolled("super") ELSE IF i = 2 THEN Enrolled(role) ELSE NoAdmin]
  /\ adminSessions = [s \in AdminSessions |-> [admin |-> s, recent |-> TRUE]]

Fresh ==
  /\ admins = [i \in AdminIds |-> NoAdmin]
  /\ adminSessions = [s \in AdminSessions |-> NoAdminSession]

MCInit ==
  /\ Staffed \/ Fresh
  /\ releases = [r \in Releases |-> NoRelease]
  /\ customers = [a \in Customers |-> [NoCustomer EXCEPT !.live = TRUE, !.beta = TRUE]]
  /\ tickets = [k \in Customers \X Keys |-> NoTicket]
  /\ redirects = [t \in Tokens |-> 0]
  /\ updates = [t \in Tokens |-> NoUpdate]
  /\ publications = [p \in Publications |-> NoPublication]
  /\ flags = Flags
  /\ requests = [t \in Requests |-> NoRequest]
  /\ links = [l \in Links |-> 0]
  /\ req = [c \in Clients |-> Idle] /\ sweep = {}

MCSpec == MCInit /\ [][Next]_vars

Busy(ops) == Count({c \in Clients : req[c].op \in ops})

\* How far each area is from the server it started as, and the requests under way in it.
StaffLoad ==
  Count({i \in AdminIds : admins[i].state = "deleted"}) + Count({i \in AdminIds : admins[i].suspended})
  + Count({i \in AdminIds : Exists(i) /\ ~admins[i].verified}) + Count({i \in AdminIds : admins[i].secret > 1})
  + Count({i \in AdminIds : admins[i].counter > 0}) + Count({s \in AdminSessions : ~adminSessions[s].recent /\ ActiveSupers # {}})
  + Busy({"login", "setup", "enrolled", "stepup"})

DeliveryLoad ==
  Count({r \in Releases : releases[r].status # "none"}) + Count({r \in Releases : releases[r].revision > 2})
  + Count({a \in Customers : ~customers[a].beta}) + Count({a \in Customers : customers[a].suspended \/ customers[a].ring})
  + Count(Flags \ flags)
  + Count({k \in DOMAIN tickets : tickets[k] # NoTicket}) + Count({t \in Tokens : updates[t] # NoUpdate})
  + Busy({"view", "release", "ticket", "redeem", "update"})

PackageLoad ==
  Count({p \in Publications : publications[p].revision > 0}) + Count({p \in Publications : publications[p].revision > 2})
  + Busy({"package"})

SupportLoad ==
  Count({t \in Requests : Stored(t)}) + Count({t \in Requests : requests[t].stale \/ requests[t].old})
  + Count({t \in Requests : requests[t].assigned # 0}) + Count({t \in Requests : requests[t].authors # {}})
  + Count({l \in Links : links[l] # 0}) + Busy({"link", "reply"})

\* One area may go far, or several a little way.  Outside the staff a second role adds
\* nothing: what it may do there, a super administrator may.
Limits ==
  LET loads == <<StaffLoad, DeliveryLoad, PackageLoad, SupportLoad>>
      total == loads[1] + loads[2] + loads[3] + loads[4] + Busy({"admin", "customer"})
      alone == Count({n \in DOMAIN loads : loads[n] > 0}) <= 1 /\ (StaffLoad > 0 \/ ActiveSupers = AdminIds)
  IN  total <= IF alone THEN MaxInUse ELSE MaxMixed
==============================================================================
