------------------------- MODULE HostedConsoleProofs -------------------------
(***************************************************************************)
(* The administrators' console of the hosted server, for every set of       *)
(* administrators, accounts, releases, packages and support requests and    *)
(* any number of requests in flight.                                        *)
(*                                                                          *)
(* The stores share no tables, so the inductive invariant CInv has a part   *)
(* for each: the administrators', the releases', the tickets', the          *)
(* packages' and the support requests', and one for what requests in flight *)
(* have read.  Each operation is shown to keep the part of its store        *)
(* (AInv', ReleaseStep, TInv', PackageStep, SupportStep); the steps of the  *)
(* console then put the stores together (StepKeeps).                        *)
(***************************************************************************)
EXTENDS HostedConsole, TLAPS, FiniteSetTheorems

\* The administrators' rows are records, and a super administrator remains.
AdminFields == {"state", "role", "suspended", "verified", "secret", "counter", "link"}
AdminRow(row) == row = [f \in AdminFields |-> row[f]]

AInv ==
  /\ admins = [i \in AdminIds |-> admins[i]]
  /\ \A i \in AdminIds : AdminRow(admins[i])
  /\ adminSessions \in [AdminSessions -> [admin : AdminIds \cup {0}, recent : BOOLEAN]]
  /\ SuperStays

\* Releases: one that was stopped had been published.
ReleaseRows ==
  [status : {"none", "draft", "published", "withdrawn"}, set : Candidates \cup {0}, rollout : Nat,
   enabled : BOOLEAN, kill : BOOLEAN, revision : Nat]

RInv ==
  /\ releases \in [Releases -> ReleaseRows]
  /\ \A r \in Releases : releases[r].kill => releases[r].status \in {"published", "withdrawn"}

\* Download tickets: a token is on one ticket, and led nowhere while the ticket is good.
TicketRow(row) ==
  /\ row = [f \in {"state", "release", "token"} |-> row[f]]
  /\ row.token \in Tokens \cup {0}
  /\ row.state \in {"open", "expired"} => row.token \in Tokens

TInv ==
  /\ tickets = [k \in Customers \X Keys |-> tickets[k]]
  /\ redirects \in [Tokens -> {0, 1}]
  /\ \A k \in Customers \X Keys :
       /\ TicketRow(tickets[k])
       /\ tickets[k].state \in {"open", "expired"} => redirects[tickets[k].token] = 0
       /\ \A l \in Customers \X Keys : tickets[k].token # 0 /\ tickets[k].token = tickets[l].token => k = l

\* Packages: nothing is recorded of a state after the one the record is in.
PackageRows ==
  [status : StateSet \cup {"none"}, revision : Nat, evidence : [StateSet -> Evidences \cup {"none"}]]

PInv ==
  /\ publications \in [Publications -> PackageRows]
  /\ \A p \in Publications : publications[p].status = "none" => publications[p].revision = 0
  /\ \A p \in Publications, n \in 1..6 :
       publications[p].evidence[States[n]] # "none" =>
         \E m \in 1..6 : States[m] = publications[p].status /\ n <= m

\* Support requests: rows are records, and links open requests.
RequestFields == {"status", "account", "assigned", "stale", "window", "bySystem", "old", "authors"}
RequestRow(row) == row = [f \in RequestFields |-> row[f]]

LInv ==
  /\ requests = [t \in Requests |-> requests[t]]
  /\ \A t \in Requests : RequestRow(requests[t])
  /\ links \in [Links -> Requests \cup {0}]
  /\ LinksOpenRequests

\* Requests in flight: whom they are of, the request a reply is for, and the release a
\* command is for.  A row that changed since it was read has a later revision.
Viewing(r, rows) ==
  /\ r = [f \in {"op", "release", "seen"} |-> r[f]]
  /\ r.release \in Releases /\ r.seen \in ReleaseRows
  /\ rows[r.release].status # "none"
  /\ r.seen.revision <= rows[r.release].revision
  /\ r.seen.revision = rows[r.release].revision => r.seen = rows[r.release]

ReqOK(r, rows) ==
  /\ r.op \in {"login", "setup", "enrolled"} => r.admin \in AdminIds
  /\ r.op = "admin" => r.by.actor \in AdminIds
  /\ r.op = "reply" => r.request \in Requests
  /\ r.op \in {"view", "release"} => Viewing(r, rows)

QInv ==
  /\ req = [c \in Clients |-> req[c]]
  /\ \A c \in Clients : ReqOK(req[c], releases)

CInv == AInv /\ RInv /\ TInv /\ PInv /\ LInv /\ QInv

-----------------------------------------------------------------------------
(* Administrators *)

\* The columns SuperStays is about are as before.
StandingKept ==
  /\ admins' = [i \in AdminIds |-> admins'[i]]
  /\ \A i \in AdminIds :
       /\ AdminRow(admins'[i])
       /\ admins'[i].state = admins[i].state /\ admins'[i].role = admins[i].role
       /\ admins'[i].suspended = admins[i].suspended

\* With every administrator's standing kept, the same super administrators remain.
LEMMA StandingSuper ==
  ASSUME AInv, StandingKept
  PROVE  SuperStays'
  <1>1. ActiveSupers' = ActiveSupers
    BY DEF StandingKept, ActiveSupers, Exists
  <1>2. \A i \in AdminIds : Exists(i)' = Exists(i)
    BY DEF StandingKept, Exists
  <1> QED BY <1>1, <1>2 DEF AInv, SuperStays

SessionRows == [admin : AdminIds \cup {0}, recent : BOOLEAN]

\* Sessions: the writes the store makes keep the table's type.
LEMMA SessionMarks ==
  ASSUME AInv, NEW s
  PROVE  /\ adminSessions \in [AdminSessions -> SessionRows]
         /\ [adminSessions EXCEPT ![s] = NoAdminSession] \in [AdminSessions -> SessionRows]
         /\ [adminSessions EXCEPT ![s].recent = TRUE] \in [AdminSessions -> SessionRows]
         /\ [adminSessions EXCEPT ![s].recent = FALSE] \in [AdminSessions -> SessionRows]
  <1>0. adminSessions \in [AdminSessions -> SessionRows]
    BY DEF AInv, SessionRows
  <1>1. NoAdminSession \in SessionRows
    BY DEF NoAdminSession, SessionRows
  <1>2. [adminSessions EXCEPT ![s] = NoAdminSession] \in [AdminSessions -> SessionRows]
    BY <1>0, <1>1
  <1>3. ASSUME NEW x \in BOOLEAN
        PROVE  [adminSessions EXCEPT ![s].recent = x] \in [AdminSessions -> SessionRows]
    BY <1>0 DEF SessionRows
  <1> QED BY <1>0, <1>2, <1>3

\* The same for the sessions of one administrator.
LEMMA SessionWrites ==
  ASSUME AInv, NEW i \in AdminIds, NEW s
  PROVE  /\ SessionsWithout(i) \in [AdminSessions -> SessionRows]
         /\ Opened(i, s) \in [AdminSessions -> SessionRows]
  <1>0. adminSessions \in [AdminSessions -> SessionRows]
    BY DEF AInv, SessionRows
  <1>1. NoAdminSession \in SessionRows /\ [admin |-> i, recent |-> TRUE] \in SessionRows
    BY DEF NoAdminSession, SessionRows
  <1>2. SessionsWithout(i) \in [AdminSessions -> SessionRows]
    BY <1>0, <1>1 DEF SessionsWithout
  <1>3. Opened(i, s) \in [AdminSessions -> SessionRows]
    BY <1>0, <1>1 DEF Opened
  <1> QED BY <1>2, <1>3

\* A step that keeps everyone's standing and writes sessions of administrators.
LEMMA StandingAInv ==
  ASSUME AInv, StandingKept, adminSessions' \in [AdminSessions -> SessionRows]
  PROVE  AInv'
  BY StandingSuper DEF StandingKept, AInv, SessionRows

\* A row with some of its other columns written.
SameStanding(row, was) ==
  /\ AdminRow(row)
  /\ row.state = was.state /\ row.role = was.role /\ row.suspended = was.suspended

\* A write of the counter or of the link is such a row.
LEMMA RowsStanding ==
  ASSUME NEW was, AdminRow(was), NEW x, NEW row,
         \/ row = [was EXCEPT !.counter = x]
         \/ row = [was EXCEPT !.link = x]
         \/ row = was
  PROVE  SameStanding(row, was)
  BY DEF SameStanding, AdminRow, AdminFields

\* Steps that write such columns of one administrator, or of several.
LEMMA StandingByRow ==
  ASSUME admins' = [i \in AdminIds |-> admins'[i]],
         \A i \in AdminIds : SameStanding(admins'[i], admins[i])
  PROVE  StandingKept
  BY DEF StandingKept, SameStanding

\* One of those columns of one administrator is written.
LEMMA ColumnWritten ==
  ASSUME AInv, NEW i, NEW x,
         \/ admins' = [admins EXCEPT ![i].counter = x]
         \/ admins' = [admins EXCEPT ![i].link = x]
         \/ admins' = admins
  PROVE  StandingKept
  <1>0. admins = [j \in AdminIds |-> admins[j]] /\ \A j \in AdminIds : AdminRow(admins[j])
    BY DEF AInv
  <1>1. admins' = [j \in AdminIds |-> admins'[j]]
    BY <1>0
  <1>2. ASSUME NEW j \in AdminIds PROVE SameStanding(admins'[j], admins[j])
    <2>1. \/ admins'[j] = [admins[j] EXCEPT !.counter = x]
          \/ admins'[j] = [admins[j] EXCEPT !.link = x]
          \/ admins'[j] = admins[j]
      BY <1>0
    <2> QED BY <1>0, <2>1, RowsStanding
  <1> QED BY <1>1, <1>2, StandingByRow

\* So such a write, with sessions of administrators, keeps the administrators' invariant.
LEMMA ColumnAInv ==
  ASSUME AInv, adminSessions' \in [AdminSessions -> SessionRows], NEW i, NEW x
  PROVE  /\ admins' = [admins EXCEPT ![i].counter = x] => AInv'
         /\ admins' = [admins EXCEPT ![i].link = x] => AInv'
         /\ admins' = admins => AInv'
  <1>1. ASSUME \/ admins' = [admins EXCEPT ![i].counter = x]
               \/ admins' = [admins EXCEPT ![i].link = x]
               \/ admins' = admins
        PROVE  AInv'
    <2>1. StandingKept
      BY <1>1, ColumnWritten
    <2> QED BY <2>1, StandingAInv
  <1> QED BY <1>1

\* Completing a setup writes three columns.
LEMMA CompleteSetupKeeps ==
  ASSUME AInv, NEW i, NEW n, NEW p, CompleteSetup(i, n, p)
  PROVE  StandingKept
  <1>0. admins = [j \in AdminIds |-> admins[j]] /\ \A j \in AdminIds : AdminRow(admins[j])
    BY DEF AInv
  <1>1. admins' = [admins EXCEPT ![i].link = "opened", ![i].verified = TRUE, ![i].counter = Greater(@, p)]
    BY DEF CompleteSetup
  <1>2. admins' = [j \in AdminIds |-> admins'[j]]
    BY <1>0, <1>1
  <1>3. ASSUME NEW j \in AdminIds PROVE SameStanding(admins'[j], admins[j])
    <2>1. CASE j = i
      <3>1. admins'[j] = [admins[j] EXCEPT !.link = "opened", !.verified = TRUE, !.counter = Greater(@, p)]
        BY <1>0, <1>1, <2>1
      <3>2. AdminRow(admins[j])
        BY <1>0
      <3> QED BY <3>1, <3>2 DEF SameStanding, AdminRow, AdminFields
    <2>2. CASE j # i
      BY <1>0, <1>1, <2>2, RowsStanding
    <2> QED BY <2>1, <2>2
  <1> QED BY <1>2, <1>3, StandingByRow

\* A row that waits for its link has the role it is given, and is suspended as before.
LEMMA EnrollingRow ==
  ASSUME NEW row, AdminRow(row), NEW role
  PROVE  LET new == Enrolling(row, role)
         IN  /\ AdminRow(new) /\ new.state = "live" /\ new.role = role
             /\ new.suspended = row.suspended
  <1> DEFINE new == Enrolling(row, role)
  <1>1. new = [row EXCEPT !.state = "live", !.role = role, !.verified = FALSE, !.secret = @ + 1,
                          !.counter = 0, !.link = "fresh"]
    BY DEF Enrolling
  <1> HIDE DEF new
  <1>2. /\ AdminRow(new) /\ new.state = "live" /\ new.role = role
        /\ new.suspended = row.suspended
    BY <1>1 DEF AdminRow, AdminFields
  <1> QED BY <1>2 DEF new

\* A blank row.
LEMMA BlankAdmin ==
  AdminRow(NoAdmin) /\ NoAdmin.suspended = FALSE /\ NoAdmin.state = "none"
  BY DEF NoAdmin, AdminRow, AdminFields

(***************************************************************************)
(* One row is written.  If a super administrator who is not suspended is    *)
(* left, or becomes one, or nobody was there and nobody is, one remains.    *)
(***************************************************************************)
LEMMA OneRow ==
  ASSUME AInv, NEW i \in AdminIds, NEW row, AdminRow(row),
         admins' = [admins EXCEPT ![i] = row],
         adminSessions' \in [AdminSessions -> SessionRows],
         \/ row.state = "live" /\ row.role = "super" /\ row.suspended = FALSE
         \/ \E j \in AdminIds : j # i /\ j \in ActiveSupers
  PROVE  AInv'
  <1>0. admins = [j \in AdminIds |-> admins[j]] /\ \A j \in AdminIds : AdminRow(admins[j])
    BY DEF AInv
  <1>1. admins' = [j \in AdminIds |-> admins'[j]]
    BY <1>0
  <1>2. \A j \in AdminIds : admins'[j] = IF j = i THEN row ELSE admins[j]
    BY <1>0
  <1>3. \A j \in AdminIds : AdminRow(admins'[j])
    BY <1>0, <1>2
  <1>4. \E j \in AdminIds : Exists(j)' /\ admins'[j].role = "super" /\ ~admins'[j].suspended
    BY <1>2 DEF ActiveSupers, Exists
  <1>5. SuperStays'
    BY <1>4 DEF SuperStays, ActiveSupers
  <1> QED BY <1>1, <1>3, <1>5 DEF AInv, SessionRows

\* Somebody other than i is an active super administrator when two are counted.
LEMMA AnotherSuper ==
  ASSUME NEW i \in ActiveSupers, Cardinality(ActiveSupers) > 1
  PROVE  \E j \in AdminIds : j # i /\ j \in ActiveSupers
  <1> SUFFICES ASSUME \A j \in ActiveSupers : j = i PROVE FALSE
    BY DEF ActiveSupers
  <1>1. ActiveSupers = {i}
    OBVIOUS
  <1>2. Cardinality({i}) = 1
    BY FS_Singleton
  <1> QED BY <1>1, <1>2

\* ensureActiveSuperRemains: another one remains, or the change leaves its target one.
LEMMA SuperRemains ==
  ASSUME AInv, NEW i \in AdminIds, NEW stays \in BOOLEAN, ensureActiveSuperRemains(i, stays)
  PROVE  stays \/ \E j \in AdminIds : j # i /\ j \in ActiveSupers
  <1> SUFFICES ASSUME ~stays PROVE \E j \in AdminIds : j # i /\ j \in ActiveSupers
    OBVIOUS
  <1>1. Exists(i) /\ (i \in ActiveSupers => Cardinality(ActiveSupers) > 1)
    BY DEF ensureActiveSuperRemains
  <1>2. CASE i \in ActiveSupers
    BY <1>1, <1>2, AnotherSuper
  <1>3. CASE i \notin ActiveSupers
    <2>1. ActiveSupers # {} /\ ActiveSupers \subseteq AdminIds
      BY <1>1 DEF AInv, SuperStays, ActiveSupers
    <2> QED BY <1>3, <2>1
  <1> QED BY <1>2, <1>3

\* The first administrator is a super administrator.
LEMMA BootstrapAInv ==
  ASSUME AInv, NEW i \in AdminIds, BootstrapSuper(i)
  PROVE  AInv'
  <1> DEFINE row == Enrolling(NoAdmin, "super")
  <1>1. AdminRow(row) /\ row.state = "live" /\ row.role = "super" /\ row.suspended = FALSE
    BY EnrollingRow, BlankAdmin
  <1>2. admins' = [admins EXCEPT ![i] = row] /\ UNCHANGED adminSessions
    BY DEF BootstrapSuper
  <1>3. adminSessions' \in [AdminSessions -> SessionRows]
    BY <1>2 DEF AInv, SessionRows
  <1> HIDE DEF row
  <1> QED BY <1>1, <1>2, <1>3, OneRow

\* Setting up again keeps the role, and whether the administrator is suspended.
LEMMA ResetSetupAInv ==
  ASSUME AInv, NEW i \in AdminIds, ResetSetup(i)
  PROVE  AInv'
  <1>0. admins = [j \in AdminIds |-> admins[j]] /\ \A j \in AdminIds : AdminRow(admins[j])
    BY DEF AInv
  <1> DEFINE row == Enrolling(admins[i], admins[i].role)
  <1>1. /\ AdminRow(row) /\ row.state = "live" /\ row.role = admins[i].role
        /\ row.suspended = admins[i].suspended
    BY <1>0, EnrollingRow
  <1>2. /\ admins' = [admins EXCEPT ![i] = row] /\ adminSessions' = SessionsWithout(i)
        /\ admins[i].state = "live"
    BY <1>0 DEF ResetSetup, Exists
  <1> HIDE DEF row
  <1>3. admins' = [j \in AdminIds |-> admins'[j]]
    BY <1>0, <1>2
  <1>4. \A j \in AdminIds : admins'[j] = IF j = i THEN row ELSE admins[j]
    BY <1>0, <1>2
  <1>5. StandingKept
    BY <1>0, <1>1, <1>2, <1>3, <1>4 DEF StandingKept
  <1> QED BY <1>2, <1>5, SessionWrites, StandingAInv

\* Whoever invites is an administrator, so a super administrator is there already.
LEMMA InviteAInv ==
  ASSUME AInv, NEW actor \in AdminIds, NEW i \in AdminIds, NEW role, InviteAdmin(actor, i, role)
  PROVE  AInv'
  <1> DEFINE row == Enrolling(NoAdmin, role)
  <1>1. AdminRow(row)
    BY EnrollingRow, BlankAdmin
  <1>2. /\ Exists(actor) /\ admins[i] = NoAdmin
        /\ admins' = [admins EXCEPT ![i] = row] /\ UNCHANGED adminSessions
    BY DEF InviteAdmin
  <1>3. adminSessions' \in [AdminSessions -> SessionRows]
    BY <1>2 DEF AInv, SessionRows
  <1>4. \E j \in AdminIds : j # i /\ j \in ActiveSupers
    <2>1. ActiveSupers # {}
      BY <1>2 DEF AInv, SuperStays
    <2>2. i \notin ActiveSupers
      BY <1>2, BlankAdmin DEF ActiveSupers, Exists
    <2> QED BY <2>1, <2>2 DEF ActiveSupers
  <1> HIDE DEF row
  <1> QED BY <1>1, <1>2, <1>3, <1>4, OneRow

\* Changing a role or a suspension leaves its target a super administrator, or another one.
LEMMA UpdateAInv ==
  ASSUME AInv, NEW actor, NEW i \in AdminIds, NEW role, NEW suspended \in BOOLEAN,
         UpdateAdmin(actor, i, role, suspended)
  PROVE  AInv'
  <1>0. admins = [j \in AdminIds |-> admins[j]] /\ \A j \in AdminIds : AdminRow(admins[j])
    BY DEF AInv
  <1> DEFINE row == [admins[i] EXCEPT !.role = role, !.suspended = suspended]
  <1>1. /\ ensureActiveSuperRemains(i, role = "super" /\ ~suspended)
        /\ admins' = [admins EXCEPT ![i] = row]
        /\ adminSessions' = IF suspended THEN SessionsWithout(i) ELSE adminSessions
    BY <1>0 DEF UpdateAdmin
  <1>2. /\ AdminRow(row) /\ row.state = admins[i].state /\ row.role = role
        /\ row.suspended = suspended
    BY <1>0 DEF AdminRow, AdminFields
  <1> HIDE DEF row
  <1>3. adminSessions' \in [AdminSessions -> SessionRows]
    BY <1>1, SessionWrites DEF AInv, SessionRows
  <1>4. admins[i].state = "live"
    BY <1>1 DEF ensureActiveSuperRemains, Exists
  <1>5. (role = "super" /\ ~suspended) \/ \E j \in AdminIds : j # i /\ j \in ActiveSupers
    BY <1>1, SuperRemains
  <1>6. \/ row.state = "live" /\ row.role = "super" /\ row.suspended = FALSE
        \/ \E j \in AdminIds : j # i /\ j \in ActiveSupers
    BY <1>2, <1>4, <1>5
  <1> QED BY <1>1, <1>2, <1>3, <1>6, OneRow

\* Deleting an administrator leaves another active super administrator.
LEMMA DeleteAInv ==
  ASSUME AInv, NEW actor, NEW i \in AdminIds, NEW authors, DeleteAdmin(actor, i, authors)
  PROVE  AInv'
  <1> DEFINE row == [NoAdmin EXCEPT !.state = "deleted"]
  <1>1. /\ ensureActiveSuperRemains(i, FALSE)
        /\ admins' = [admins EXCEPT ![i] = row]
        /\ adminSessions' = SessionsWithout(i)
    BY DEF DeleteAdmin
  <1>2. AdminRow(row)
    BY BlankAdmin DEF AdminRow, AdminFields
  <1> HIDE DEF row
  <1>3. \E j \in AdminIds : j # i /\ j \in ActiveSupers
    BY <1>1, SuperRemains
  <1> QED BY <1>1, <1>2, <1>3, OneRow, SessionWrites

\* The purge takes opened links.
LEMMA PurgeLinksAInv ==
  ASSUME AInv, UNCHANGED adminSessions,
         admins' = [i \in AdminIds |-> IF admins[i].link = "opened"
                                       THEN [admins[i] EXCEPT !.link = "none"] ELSE admins[i]]
  PROVE  AInv'
  <1>0. \A j \in AdminIds : AdminRow(admins[j])
    BY DEF AInv
  <1>1. ASSUME NEW j \in AdminIds PROVE SameStanding(admins'[j], admins[j])
    <2>1. admins'[j] = [admins[j] EXCEPT !.link = "none"] \/ admins'[j] = admins[j]
      OBVIOUS
    <2> QED BY <1>0, <2>1, RowsStanding
  <1>2. StandingKept
    BY <1>1, StandingByRow
  <1>3. adminSessions' \in [AdminSessions -> SessionRows]
    BY DEF AInv, SessionRows
  <1> QED BY <1>2, <1>3, StandingAInv

-----------------------------------------------------------------------------
(* Releases *)

\* What a step may do to the releases: a row that changes is a new candidate's, or has the
\* next revision; its set is settled and what was stopped is not offered.
ReleaseStep ==
  /\ RInv'
  /\ \A r \in Releases :
       /\ releases[r].status # "none" =>
            /\ releases'[r].status # "none" /\ releases'[r].set = releases[r].set
            /\ releases'[r] = releases[r] \/ releases'[r].revision > releases[r].revision
       /\ releases[r].kill => r \notin publishedReleases'

\* Releases that are not written.
LEMMA QuietReleases ==
  ASSUME RInv, UNCHANGED releases
  PROVE  ReleaseStep
  <1>1. \A r \in Releases : releases[r].kill => r \notin publishedReleases'
    BY DEF publishedReleases
  <1>2. RInv'
    BY DEF RInv
  <1> QED BY <1>1, <1>2 DEF ReleaseStep

\* A row with kill set is not offered, and keeps it.
LEMMA WrittenRelease ==
  ASSUME RInv, NEW q, NEW row \in ReleaseRows, releases' = [releases EXCEPT ![q] = row],
         row.kill => row.status \in {"published", "withdrawn"},
         q \in Releases /\ releases[q].status # "none" =>
           /\ row.status # "none" /\ row.set = releases[q].set
           /\ row.revision > releases[q].revision
           /\ releases[q].kill => row.kill,
         q \in Releases /\ releases[q].kill => releases[q].status # "none"
  PROVE  ReleaseStep
  <1>0. releases \in [Releases -> ReleaseRows]
    BY DEF RInv
  <1>1. \A r \in Releases : releases'[r] = IF r = q THEN row ELSE releases[r]
    BY <1>0
  <1>2. releases' \in [Releases -> ReleaseRows]
    BY <1>0
  <1>3. RInv'
    BY <1>1, <1>2 DEF RInv
  <1>4. \A r \in Releases : releases[r].kill => releases'[r].kill
    BY <1>1
  <1>5. \A r \in Releases : releases[r].kill => r \notin publishedReleases'
    BY <1>4 DEF publishedReleases
  <1>6. \A r \in Releases : releases[r].status # "none" =>
            /\ releases'[r].status # "none" /\ releases'[r].set = releases[r].set
            /\ releases'[r] = releases[r] \/ releases'[r].revision > releases[r].revision
    BY <1>1
  <1> QED BY <1>3, <1>5, <1>6 DEF ReleaseStep

\* A candidate makes a draft of a version that had none.
LEMMA AcceptStep ==
  ASSUME RInv, NEW q \in Releases, NEW set \in Candidates, AcceptReleaseCandidate(q, set)
  PROVE  ReleaseStep
  <1> DEFINE row == [NoRelease EXCEPT !.status = "draft", !.set = set]
  <1>1. CASE releases[q].status # "none"
    <2>1. UNCHANGED releases
      BY <1>1 DEF AcceptReleaseCandidate
    <2> QED BY <2>1, QuietReleases
  <1>2. CASE releases[q].status = "none"
    <2>1. releases' = [releases EXCEPT ![q] = row]
      BY <1>2 DEF AcceptReleaseCandidate
    <2>2. row = [NoRelease EXCEPT !.status = "draft", !.set = set]
      OBVIOUS
    <2> HIDE DEF row
    <2>3. row \in ReleaseRows /\ ~row.kill
      BY <2>2 DEF ReleaseRows, NoRelease
    <2>4. ~releases[q].kill
      BY <1>2 DEF RInv
    <2> QED BY <1>2, <2>1, <2>3, <2>4, WrittenRelease
  <1> QED BY <1>1, <1>2

\* What every command leaves of the row it is given.
CommandKeeps(new, row) ==
  /\ new \in ReleaseRows /\ new.set = row.set /\ new.revision = row.revision
  /\ new.status # "none"
  /\ new.kill => new.status \in {"published", "withdrawn"}
  /\ row.kill => new.kill

\* The four commands keep the set and the revision, and never take a stop back.
LEMMA CommandRows ==
  ASSUME NEW row \in ReleaseRows, row.status # "none",
         row.kill => row.status \in {"published", "withdrawn"},
         NEW eligible, NEW percent \in Nat
  PROVE  /\ CommandKeeps(PublishRelease(row, eligible), row)
         /\ CommandKeeps(SetReleaseRollout(row, percent), row)
         /\ CommandKeeps(EmergencyStopRelease(row), row)
         /\ CommandKeeps(WithdrawRelease(row), row)
  <1>0. CommandKeeps(row, row)
    BY DEF CommandKeeps
  <1>1. CommandKeeps(PublishRelease(row, eligible), row)
    <2> DEFINE new == PublishRelease(row, eligible)
    <2>1. CASE row.status = "draft" /\ eligible
      <3>1. new = [row EXCEPT !.status = "published", !.enabled = TRUE, !.kill = FALSE]
        BY <2>1 DEF PublishRelease
      <3> HIDE DEF new
      <3>2. /\ new \in ReleaseRows /\ new.set = row.set /\ new.revision = row.revision
            /\ new.status = "published"
        BY <2>1, <3>1 DEF ReleaseRows
      <3>3. ~row.kill
        BY <2>1
      <3> QED BY <3>2, <3>3 DEF CommandKeeps, new
    <2>2. CASE ~(row.status = "draft" /\ eligible)
      BY <1>0, <2>2 DEF PublishRelease
    <2> QED BY <2>1, <2>2
  <1>2. CommandKeeps(SetReleaseRollout(row, percent), row)
    <2> DEFINE new == SetReleaseRollout(row, percent)
    <2>1. CASE row.status = "published"
      <3>1. new = [row EXCEPT !.rollout = percent]
        BY <2>1 DEF SetReleaseRollout
      <3> HIDE DEF new
      <3>2. /\ new \in ReleaseRows /\ new.set = row.set /\ new.revision = row.revision
            /\ new.status = "published" /\ new.kill = row.kill
        BY <2>1, <3>1 DEF ReleaseRows
      <3> QED BY <3>2 DEF CommandKeeps, new
    <2>2. CASE ~(row.status = "published")
      BY <1>0, <2>2 DEF SetReleaseRollout
    <2> QED BY <2>1, <2>2
  <1>3. CommandKeeps(EmergencyStopRelease(row), row)
    <2> DEFINE new == EmergencyStopRelease(row)
    <2>1. CASE row.status = "published"
      <3>1. new = [row EXCEPT !.kill = TRUE, !.enabled = FALSE]
        BY <2>1 DEF EmergencyStopRelease
      <3> HIDE DEF new
      <3>2. /\ new \in ReleaseRows /\ new.set = row.set /\ new.revision = row.revision
            /\ new.status = "published" /\ new.kill
        BY <2>1, <3>1 DEF ReleaseRows
      <3> QED BY <3>2 DEF CommandKeeps, new
    <2>2. CASE ~(row.status = "published")
      BY <1>0, <2>2 DEF EmergencyStopRelease
    <2> QED BY <2>1, <2>2
  <1>4. CommandKeeps(WithdrawRelease(row), row)
    <2> DEFINE new == WithdrawRelease(row)
    <2>1. CASE row.status = "published"
      <3>1. new = [row EXCEPT !.status = "withdrawn", !.enabled = FALSE, !.kill = TRUE]
        BY <2>1 DEF WithdrawRelease
      <3> HIDE DEF new
      <3>2. /\ new \in ReleaseRows /\ new.set = row.set /\ new.revision = row.revision
            /\ new.status = "withdrawn" /\ new.kill
        BY <2>1, <3>1 DEF ReleaseRows
      <3> QED BY <3>2 DEF CommandKeeps, new
    <2>2. CASE ~(row.status = "published")
      BY <1>0, <2>2 DEF WithdrawRelease
    <2> QED BY <2>1, <2>2
  <1> QED BY <1>1, <1>2, <1>3, <1>4

\* A command is applied to an accepted release and counts its revision.
LEMMA CommandStep ==
  ASSUME RInv, NEW q \in Releases, releases[q].status # "none", NEW expected, NEW row,
         applyReleaseCommand(q, expected, row)
  PROVE  ReleaseStep /\ releases[q].revision = expected
  <1> DEFINE new == [row EXCEPT !.revision = @ + 1]
  <1>1. /\ releases[q].revision = expected /\ row \in Commands(q)
        /\ releases' = [releases EXCEPT ![q] = new]
    BY DEF applyReleaseCommand
  <1>2. /\ releases[q] \in ReleaseRows
        /\ releases[q].kill => releases[q].status \in {"published", "withdrawn"}
    BY DEF RInv
  <1>3. Percents \subseteq Nat /\ 0 \in Nat
    BY ReleaseAssumption
  <1>4. CommandKeeps(row, releases[q])
    BY <1>1, <1>2, <1>3, CommandRows DEF Commands
  <1>5. /\ new \in ReleaseRows /\ new.set = row.set /\ new.revision = row.revision + 1
        /\ new.status = row.status /\ new.kill = row.kill /\ row.revision \in Nat
    <2>1. row \in ReleaseRows
      BY <1>4 DEF CommandKeeps
    <2>2. new = [row EXCEPT !.revision = @ + 1]
      OBVIOUS
    <2> HIDE DEF new
    <2> QED BY <2>1, <2>2 DEF ReleaseRows
  <1> HIDE DEF new
  <1>6. /\ new.kill => new.status \in {"published", "withdrawn"}
        /\ new.status # "none" /\ new.set = releases[q].set
        /\ new.revision > releases[q].revision
        /\ releases[q].kill => new.kill
    BY <1>4, <1>5 DEF CommandKeeps
  <1> QED BY <1>1, <1>5, <1>6, WrittenRelease

-----------------------------------------------------------------------------
(* Download tickets *)

\* A blank ticket.
LEMMA BlankTicket ==
  TicketRow(NoTicket) /\ NoTicket.state = "none" /\ NoTicket.token = 0
  BY DEF TicketRow, NoTicket

\* A ticket with its state written.
LEMMA TicketWritten ==
  ASSUME NEW was, TicketRow(was), NEW state \in {"expired", "redeemed"},
         was.state \in {"open", "expired"},
         NEW row, row = [was EXCEPT !.state = state]
  PROVE  TicketRow(row) /\ row.state = state /\ row.token = was.token
  BY DEF TicketRow

\* Steps that only let tickets go, or take them out of use, with no redirect.
LEMMA TicketsEnd ==
  ASSUME TInv, UNCHANGED redirects, tickets' = [k \in Customers \X Keys |-> tickets'[k]],
         \A k \in Customers \X Keys :
           \/ tickets'[k] = NoTicket
           \/ /\ TicketRow(tickets'[k]) /\ tickets'[k].token = tickets[k].token
              /\ tickets'[k].state = "expired" => tickets[k].state \in {"open", "expired"}
              /\ tickets'[k].state = "open" => tickets[k].state = "open"
  PROVE  TInv'
  <1>1. \A k \in Customers \X Keys :
          /\ TicketRow(tickets'[k])
          /\ tickets'[k].token # 0 => tickets'[k].token = tickets[k].token
          /\ tickets'[k].state \in {"open", "expired"} =>
               /\ tickets[k].state \in {"open", "expired"} /\ tickets'[k].token = tickets[k].token
    BY BlankTicket
  <1> QED BY <1>1 DEF TInv

\* A ticket whose time is up is out of use, and led nowhere.
LEMMA TicketExpiresTInv ==
  ASSUME TInv, NEW q \in Customers \X Keys, TicketExpires(q)
  PROVE  TInv'
  <1> DEFINE row == [tickets[q] EXCEPT !.state = "expired"]
  <1>0. /\ tickets = [k \in Customers \X Keys |-> tickets[k]]
        /\ \A k \in Customers \X Keys : TicketRow(tickets[k])
    BY DEF TInv
  <1>1. tickets' = [tickets EXCEPT ![q] = row] /\ tickets[q].state = "open" /\ UNCHANGED redirects
    BY <1>0 DEF TicketExpires
  <1>2. TicketRow(row) /\ row.state = "expired" /\ row.token = tickets[q].token
    BY <1>0, <1>1, TicketWritten
  <1> HIDE DEF row
  <1>3. tickets' = [k \in Customers \X Keys |-> tickets'[k]]
    BY <1>0, <1>1
  <1>4. \A k \in Customers \X Keys : tickets'[k] = IF k = q THEN row ELSE tickets[k]
    BY <1>0, <1>1
  <1> QED BY <1>0, <1>1, <1>2, <1>3, <1>4, TicketsEnd

\* The purge, and the deletion of an account, take whole tickets.
LEMMA DropTicketsTInv ==
  ASSUME TInv, UNCHANGED redirects, tickets' = [k \in Customers \X Keys |-> tickets'[k]],
         \A k \in Customers \X Keys : tickets'[k] \in {tickets[k], NoTicket}
  PROVE  TInv'
  <1>1. \A k \in Customers \X Keys : TicketRow(tickets[k])
    BY DEF TInv
  <1> QED BY <1>1, TicketsEnd

\* A new token is on no ticket, and its count starts again.
LEMMA CreateTicketTInv ==
  ASSUME TInv, NEW a, NEW key, NEW r, NEW t \in NewToken, CreateOrRefreshDownloadTicket(a, key, r, t)
  PROVE  TInv'
  <1> DEFINE q == <<a, key>>
             row == [state |-> "open", release |-> r, token |-> t]
  <1>0. /\ tickets = [k \in Customers \X Keys |-> tickets[k]]
        /\ redirects \in [Tokens -> {0, 1}]
    BY DEF TInv
  <1>1. tickets' = [tickets EXCEPT ![q] = row] /\ redirects' = [redirects EXCEPT ![t] = 0]
    BY DEF CreateOrRefreshDownloadTicket
  <1>2. t \in Tokens /\ \A k \in Customers \X Keys : tickets[k].token # t
    BY DEF NewToken, Lowest
  <1>3. TicketRow(row) /\ row.state = "open" /\ row.token = t
    BY <1>2 DEF TicketRow
  <1> HIDE DEF row, q
  <1>4. /\ \A k \in Customers \X Keys : tickets'[k] = IF k = q THEN row ELSE tickets[k]
        /\ tickets' = [k \in Customers \X Keys |-> tickets'[k]]
    BY <1>0, <1>1
  <1>5. /\ redirects' \in [Tokens -> {0, 1}] /\ redirects'[t] = 0
        /\ \A u \in Tokens : redirects[u] = 0 => redirects'[u] = 0
    BY <1>0, <1>1, <1>2
  <1>6. ASSUME NEW k \in Customers \X Keys
        PROVE  /\ TicketRow(tickets'[k])
               /\ tickets'[k].state \in {"open", "expired"} => redirects'[tickets'[k].token] = 0
               /\ \A l \in Customers \X Keys :
                    tickets'[k].token # 0 /\ tickets'[k].token = tickets'[l].token => k = l
    <2>1. TicketRow(tickets[k]) /\ (tickets[k].state \in {"open", "expired"} => tickets[k].token \in Tokens)
      BY DEF TInv, TicketRow
    <2>2. CASE k = q
      BY <1>2, <1>3, <1>4, <1>5, <2>2
    <2>3. CASE k # q
      BY <1>2, <1>3, <1>4, <1>5, <2>1, <2>3 DEF TInv
    <2> QED BY <2>2, <2>3
  <1> QED BY <1>4, <1>5, <1>6 DEF TInv

\* Marking a ticket counts its first redirect, and takes it out of use.
LEMMA MarkTInv ==
  ASSUME TInv, NEW a, NEW t, MarkDownloadTicketRedeemed(a, t)
  PROVE  TInv'
  <1>0. /\ tickets = [k \in Customers \X Keys |-> tickets[k]]
        /\ redirects \in [Tokens -> {0, 1}]
        /\ \A k \in Customers \X Keys : TicketRow(tickets[k])
    BY DEF TInv
  <1>1. PICK q \in Customers \X Keys :
          /\ tickets[q].token = t /\ tickets[q].state \in {"open", "expired"}
          /\ tickets' = [tickets EXCEPT ![q].state = "redeemed"]
    BY DEF MarkDownloadTicketRedeemed
  <1>2. redirects' = [redirects EXCEPT ![t] = @ + 1]
    BY DEF MarkDownloadTicketRedeemed
  <1>3. t \in Tokens /\ redirects[t] = 0
    BY <1>1 DEF TInv, TicketRow
  <1> DEFINE row == [tickets[q] EXCEPT !.state = "redeemed"]
  <1>4. TicketRow(row) /\ row.state = "redeemed" /\ row.token = t
    BY <1>0, <1>1, TicketWritten
  <1>5. tickets' = [tickets EXCEPT ![q] = row]
    BY <1>0, <1>1
  <1> HIDE DEF row
  <1>6. /\ \A k \in Customers \X Keys : tickets'[k] = IF k = q THEN row ELSE tickets[k]
        /\ tickets' = [k \in Customers \X Keys |-> tickets'[k]]
    BY <1>0, <1>5
  <1>7. /\ redirects' \in [Tokens -> {0, 1}]
        /\ \A u \in Tokens : u # t => redirects'[u] = redirects[u]
    BY <1>0, <1>2, <1>3
  <1>8. ASSUME NEW k \in Customers \X Keys
        PROVE  /\ TicketRow(tickets'[k])
               /\ tickets'[k].state \in {"open", "expired"} => redirects'[tickets'[k].token] = 0
               /\ \A l \in Customers \X Keys :
                    tickets'[k].token # 0 /\ tickets'[k].token = tickets'[l].token => k = l
    <2>1. \A l \in Customers \X Keys : tickets'[l].token = tickets[l].token
      BY <1>1, <1>4, <1>6
    <2>2. /\ tickets[k].state \in {"open", "expired"} =>
               tickets[k].token \in Tokens /\ redirects[tickets[k].token] = 0
          /\ \A l \in Customers \X Keys :
               tickets[k].token # 0 /\ tickets[k].token = tickets[l].token => k = l
      BY DEF TInv, TicketRow
    <2>3. 0 \notin Tokens
      BY ReleaseAssumption
    <2>4. CASE k = q
      BY <1>4, <1>6, <2>1, <2>2, <2>4
    <2>5. CASE k # q
      BY <1>0, <1>1, <1>3, <1>6, <1>7, <2>1, <2>2, <2>3, <2>5
    <2> QED BY <2>4, <2>5
  <1> QED BY <1>6, <1>7, <1>8 DEF TInv

-----------------------------------------------------------------------------
(* Extension packages *)

\* The states in their order.
LEMMA StateFacts ==
  /\ DOMAIN States = 1..6 /\ Len(States) = 6
  /\ \A n, m \in 1..6 : States[n] = States[m] => n = m
  /\ \A n \in 1..6 : States[n] \in StateSet /\ States[n] # "none"
  /\ \A s \in StateSet : \E n \in 1..6 : States[n] = s
  /\ States[1] = "built"
  <1>1. DOMAIN States = 1..6 /\ Len(States) = 6
    BY DEF States
  <1>2. /\ States[1] = "built" /\ States[2] = "uploaded" /\ States[3] = "submitted"
        /\ States[4] = "approved" /\ States[5] = "published" /\ States[6] = "withdrawn"
    BY DEF States
  <1>3. \A n \in 1..6 : n = 1 \/ n = 2 \/ n = 3 \/ n = 4 \/ n = 5 \/ n = 6
    OBVIOUS
  <1>4. \A n, m \in 1..6 : States[n] = States[m] => n = m
    BY <1>2, <1>3
  <1>5. \A n \in 1..6 : States[n] # "none"
    BY <1>2, <1>3
  <1>6. StateSet = {States[n] : n \in 1..6}
    BY <1>1 DEF StateSet
  <1> QED BY <1>1, <1>2, <1>4, <1>5, <1>6

\* What a step may do to a package's record, as PublicationHistory says.
PackageStep ==
  /\ PInv'
  /\ \A p \in Publications :
       /\ \A s \in StateSet : publications[p].evidence[s] # "none" =>
            publications'[p].evidence[s] = publications[p].evidence[s]
       /\ publications'[p] # publications[p] =>
            /\ publications'[p].revision = publications[p].revision + 1
            /\ publications[p].status = "none" \/ Follows(publications[p].status, publications'[p].status)

\* Records that are not written.
LEMMA QuietPackages ==
  ASSUME PInv, UNCHANGED publications
  PROVE  PackageStep
  BY DEF PInv, PackageStep

(***************************************************************************)
(* A record that moves to its next state: nothing was recorded of that      *)
(* state yet, so nothing that was is written over.                          *)
(***************************************************************************)
LEMMA RecordMoves ==
  ASSUME PInv, NEW q \in Publications, NEW row \in PackageRows, publications' = [publications EXCEPT ![q] = row],
         NEW k \in 1..6, row.status = States[k],
         row.revision = publications[q].revision + 1,
         \A s \in StateSet : s # States[k] => row.evidence[s] = publications[q].evidence[s],
         \/ publications[q].status = "none"
         \/ k - 1 \in 1..6 /\ States[k - 1] = publications[q].status
  PROVE  PackageStep
  <1>0. publications \in [Publications -> PackageRows]
    BY DEF PInv
  <1>1. /\ \A p \in Publications : publications'[p] = IF p = q THEN row ELSE publications[p]
        /\ publications' \in [Publications -> PackageRows]
    BY <1>0
  <1>2. \A n \in 1..6 : publications[q].evidence[States[n]] # "none" => n < k
    <2> TAKE n \in 1..6
    <2> HAVE publications[q].evidence[States[n]] # "none"
    <2>1. PICK m \in 1..6 : States[m] = publications[q].status /\ n <= m
      BY DEF PInv
    <2>2. publications[q].status # "none"
      BY <2>1, StateFacts
    <2>3. m = k - 1
      BY <2>1, <2>2, StateFacts
    <2> QED BY <2>1, <2>3
  <1>3. \A n \in 1..6 : n # k => row.evidence[States[n]] = publications[q].evidence[States[n]]
    BY StateFacts
  <1>4. PInv'
    <2>1. \A p \in Publications : publications'[p].status = "none" => publications'[p].revision = 0
      BY <1>1, StateFacts DEF PInv
    <2>2. ASSUME NEW p \in Publications, NEW n \in 1..6, publications'[p].evidence[States[n]] # "none"
          PROVE  \E m \in 1..6 : States[m] = publications'[p].status /\ n <= m
      <3>1. CASE p # q
        BY <1>1, <2>2, <3>1 DEF PInv
      <3>2. CASE p = q
        <4>1. n <= k
          BY <1>1, <1>2, <1>3, <2>2, <3>2
        <4> QED BY <1>1, <3>2, <4>1
      <3> QED BY <3>1, <3>2
    <2> QED BY <1>1, <2>1, <2>2 DEF PInv
  <1>5. ASSUME NEW p \in Publications
        PROVE  /\ \A s \in StateSet : publications[p].evidence[s] # "none" =>
                    publications'[p].evidence[s] = publications[p].evidence[s]
               /\ publications'[p] # publications[p] =>
                    /\ publications'[p].revision = publications[p].revision + 1
                    /\ publications[p].status = "none" \/ Follows(publications[p].status, publications'[p].status)
    <2>1. CASE p # q
      BY <1>1, <2>1
    <2>2. CASE p = q
      <3>1. ASSUME NEW s \in StateSet, publications[p].evidence[s] # "none"
            PROVE  publications'[p].evidence[s] = publications[p].evidence[s]
        <4>1. PICK n \in 1..6 : States[n] = s
          BY StateFacts
        <4>2. n < k
          BY <1>2, <2>2, <3>1, <4>1
        <4> QED BY <1>1, <1>3, <2>2, <4>1, <4>2
      <3>2. publications[p].status = "none" \/ Follows(publications[p].status, publications'[p].status)
        <4>1. CASE k - 1 \in 1..6 /\ States[k - 1] = publications[q].status
          <5>1. k - 1 \in 1..(Len(States) - 1) /\ (k - 1) + 1 = k
            BY <4>1, StateFacts
          <5> QED BY <1>1, <2>2, <4>1, <5>1 DEF Follows
        <4> QED BY <2>2, <4>1
      <3> QED BY <1>1, <2>2, <3>1, <3>2
    <2> QED BY <2>1, <2>2
  <1> QED BY <1>4, <1>5 DEF PackageStep

\* A package is recorded as built, or found recorded.
LEMMA AcceptPackageStep ==
  ASSUME PInv, NEW q \in Publications, NEW e \in Evidences, AcceptExtensionPublication(q, e)
  PROVE  PackageStep
  <1> DEFINE row == [NoPublication EXCEPT !.status = "built", !.revision = 1, !.evidence["built"] = e]
  <1>1. CASE publications[q].status # "none"
    <2>1. UNCHANGED publications
      BY <1>1 DEF AcceptExtensionPublication
    <2> QED BY <2>1, QuietPackages
  <1>2. CASE publications[q].status = "none"
    <2>1. publications' = [publications EXCEPT ![q] = row]
      BY <1>2 DEF AcceptExtensionPublication
    <2>2. row = [NoPublication EXCEPT !.status = "built", !.revision = 1, !.evidence["built"] = e]
      OBVIOUS
    <2> HIDE DEF row
    <2>3. "built" \in StateSet /\ States[1] = "built"
      BY StateFacts
    <2>4. /\ row.status = "built" /\ row.revision = 1
          /\ row.evidence = [[s \in StateSet |-> "none"] EXCEPT !["built"] = e]
          /\ row \in PackageRows
      BY <2>2, <2>3 DEF NoPublication, PackageRows
    <2>5. publications[q].evidence = [s \in StateSet |-> "none"] /\ publications[q].revision = 0
      <3>1. /\ publications[q] \in PackageRows /\ publications[q].revision = 0
            /\ \A n \in 1..6 : publications[q].evidence[States[n]] = "none"
        BY <1>2, StateFacts DEF PInv
      <3>2. \A s \in StateSet : publications[q].evidence[s] = "none"
        BY <3>1, StateFacts
      <3>3. publications[q].evidence \in [StateSet -> Evidences \cup {"none"}]
        BY <3>1 DEF PackageRows
      <3> QED BY <3>1, <3>2, <3>3
    <2>6. /\ 1 \in 1..6 /\ row.status = States[1] /\ row.revision = publications[q].revision + 1
          /\ \A s \in StateSet : s # States[1] => row.evidence[s] = publications[q].evidence[s]
      BY <2>3, <2>4, <2>5
    <2>7. row \in PackageRows
      BY <2>4
    <2> QED BY <1>2, <2>1, <2>6, <2>7, RecordMoves
  <1> QED BY <1>1, <1>2

\* The row a transition makes of a record.
LEMMA MovedRowIs ==
  ASSUME NEW was \in PackageRows, NEW to \in StateSet, NEW e \in Evidences
  PROVE  /\ MovedRow(was, to, e)
              = [status |-> to, revision |-> was.revision + 1, evidence |-> [was.evidence EXCEPT ![to] = e]]
         /\ [status |-> to, revision |-> was.revision + 1, evidence |-> [was.evidence EXCEPT ![to] = e]]
              \in PackageRows
  <1> DEFINE new == MovedRow(was, to, e)
             ev == [was.evidence EXCEPT ![to] = e]
  <1>1. ev \in [StateSet -> Evidences \cup {"none"}] /\ was.revision + 1 \in Nat
    BY DEF PackageRows
  <1>2. new = [was EXCEPT !.status = to, !.revision = was.revision + 1, !.evidence = ev]
    BY DEF PackageRows, MovedRow
  <1> HIDE DEF ev
  <1> HIDE DEF new
  <1>3. new = [status |-> to, revision |-> was.revision + 1, evidence |-> ev]
    BY <1>2 DEF PackageRows
  <1>4. [status |-> to, revision |-> was.revision + 1, evidence |-> ev] \in PackageRows
    BY <1>1 DEF PackageRows
  <1> QED BY <1>3, <1>4 DEF ev, new

\* A transition moves the record one state on, or answers a retry.
LEMMA TransitionPackageStep ==
  ASSUME PInv, NEW q, NEW expected, NEW to \in StateSet, NEW e \in Evidences,
         TransitionExtensionPublication(q, expected, to, e)
  PROVE  PackageStep
  <1>0. publications \in [Publications -> PackageRows]
    BY DEF PInv
  <1>1. CASE publications[q].status = to \/ q \notin Publications
    <2>1. UNCHANGED publications
      BY <1>0, <1>1 DEF TransitionExtensionPublication, Moved
    <2> QED BY <2>1, QuietPackages
  <1>2. CASE publications[q].status # to /\ q \in Publications
    <2> DEFINE was == publications[q]
               row == [status |-> to, revision |-> was.revision + 1, evidence |-> [was.evidence EXCEPT ![to] = e]]
    <2>1. Follows(publications[q].status, to) /\ publications' = Moved(q, to, e)
      BY <1>2 DEF TransitionExtensionPublication
    <2>2. was \in PackageRows
      BY <1>0, <1>2
    <2>3. publications' = [publications EXCEPT ![q] = MovedRow(was, to, e)]
      BY <1>0, <1>2, <2>1 DEF Moved
    <2>4. /\ publications' = [publications EXCEPT ![q] = row] /\ row \in PackageRows
      BY <2>2, <2>3, MovedRowIs
    <2>5. PICK n \in 1..5 : States[n] = publications[q].status /\ States[n + 1] = to
      BY <2>1, StateFacts DEF Follows
    <2>6. n + 1 \in 1..6 /\ (n + 1) - 1 \in 1..6 /\ (n + 1) - 1 = n
      BY <2>5
    <2>7. /\ row.status = States[n + 1] /\ row.revision = publications[q].revision + 1
          /\ States[(n + 1) - 1] = publications[q].status
      BY <2>5, <2>6
    <2>8. \A s \in StateSet : s # States[n + 1] => row.evidence[s] = publications[q].evidence[s]
      BY <2>2, <2>5 DEF PackageRows
    <2> HIDE DEF row
    <2> QED BY <1>2, <2>4, <2>6, <2>7, <2>8, RecordMoves
  <1> QED BY <1>1, <1>2

-----------------------------------------------------------------------------
(* Support requests *)

\* What a step may do to the support requests, as AnswerKeepsOpen says.
SupportStep ==
  /\ LInv'
  /\ \A t \in Requests :
       ~requests[t].bySystem /\ requests'[t].bySystem => requests[t].status = "waiting" /\ requests[t].stale

\* Requests that are not written.
LEMMA QuietSupport ==
  ASSUME LInv, UNCHANGED supportVars
  PROVE  SupportStep
  BY DEF LInv, SupportStep, supportVars, LinksOpenRequests, Stored, Closed

(***************************************************************************)
(* Rows are written and links are revoked.  The links that are left lead    *)
(* where they led, to requests that are still open and without an account.  *)
(***************************************************************************)
LEMMA RequestsWritten ==
  ASSUME LInv, requests' = [t \in Requests |-> requests'[t]],
         \A t \in Requests : RequestRow(requests'[t]),
         \A t \in Requests : ~requests[t].bySystem /\ requests'[t].bySystem =>
                               requests[t].status = "waiting" /\ requests[t].stale,
         links' \in [Links -> Requests \cup {0}],
         \A l \in Links : links'[l] # 0 =>
           /\ links'[l] = links[l]
           /\ requests'[links[l]].status \notin {"none", "closed"} /\ requests'[links[l]].account = 0
  PROVE  SupportStep
  <1>1. LinksOpenRequests'
    BY DEF LInv, LinksOpenRequests, Stored, Closed
  <1> QED BY <1>1 DEF SupportStep, LInv

\* A row that is open if the one before it was, and without an account if that was.
StillOpen(row, was) ==
  /\ RequestRow(row)
  /\ was.status \notin {"none", "closed"} =>
       row.status \notin {"none", "closed"} /\ (was.account = 0 => row.account = 0)
  /\ row.bySystem => was.bySystem

\* A row is written that stays open, with no link revoked.
LEMMA OpenRequestWritten ==
  ASSUME LInv, NEW q \in Requests, NEW row, StillOpen(row, requests[q]),
         requests' = [requests EXCEPT ![q] = row], UNCHANGED links
  PROVE  SupportStep
  <1>0. /\ requests = [t \in Requests |-> requests[t]] /\ \A t \in Requests : RequestRow(requests[t])
        /\ links \in [Links -> Requests \cup {0}]
        /\ \A l \in Links : links[l] # 0 =>
             /\ links[l] \in Requests
             /\ requests[links[l]].status \notin {"none", "closed"} /\ requests[links[l]].account = 0
    BY DEF LInv, LinksOpenRequests, Stored, Closed
  <1>1. /\ requests' = [t \in Requests |-> requests'[t]]
        /\ \A t \in Requests : requests'[t] = IF t = q THEN row ELSE requests[t]
    BY <1>0
  <1>2. \A t \in Requests : RequestRow(requests'[t])
    BY <1>0, <1>1 DEF StillOpen
  <1>3. \A t \in Requests : requests'[t].bySystem => requests[t].bySystem
    BY <1>1 DEF StillOpen
  <1>4. \A l \in Links : links[l] # 0 =>
          requests'[links[l]].status \notin {"none", "closed"} /\ requests'[links[l]].account = 0
    BY <1>0, <1>1 DEF StillOpen
  <1> QED BY <1>0, <1>1, <1>2, <1>3, <1>4, RequestsWritten

\* A row is written and its links are revoked.
LEMMA RequestRevoked ==
  ASSUME LInv, NEW q \in Requests, NEW row, RequestRow(row), row.bySystem => requests[q].bySystem,
         requests' = [requests EXCEPT ![q] = row], links' = RevokeAccessLinks(q)
  PROVE  SupportStep
  <1>0. /\ requests = [t \in Requests |-> requests[t]] /\ \A t \in Requests : RequestRow(requests[t])
        /\ links \in [Links -> Requests \cup {0}]
        /\ \A l \in Links : links[l] # 0 =>
             /\ links[l] \in Requests
             /\ requests[links[l]].status \notin {"none", "closed"} /\ requests[links[l]].account = 0
    BY DEF LInv, LinksOpenRequests, Stored, Closed
  <1>1. /\ requests' = [t \in Requests |-> requests'[t]]
        /\ \A t \in Requests : requests'[t] = IF t = q THEN row ELSE requests[t]
    BY <1>0
  <1>2. links' = [l \in Links |-> IF links[l] = q THEN 0 ELSE links[l]]
    BY DEF RevokeAccessLinks
  <1>3. /\ links' \in [Links -> Requests \cup {0}]
        /\ \A l \in Links : links'[l] # 0 => links'[l] = links[l] /\ links[l] # q
    BY <1>0, <1>2
  <1>4. \A l \in Links : links'[l] # 0 => requests'[links[l]] = requests[links[l]]
    BY <1>0, <1>1, <1>3
  <1>5. \A t \in Requests : RequestRow(requests'[t])
    BY <1>0, <1>1
  <1>6. \A t \in Requests : requests'[t].bySystem => requests[t].bySystem
    BY <1>1
  <1>7. \A l \in Links : links'[l] # 0 =>
           /\ links'[l] = links[l]
           /\ requests'[links[l]].status \notin {"none", "closed"} /\ requests'[links[l]].account = 0
    BY <1>0, <1>3, <1>4
  <1> QED BY <1>1, <1>3, <1>5, <1>6, <1>7, RequestsWritten

OpenStatus == {"open", "in_progress", "waiting"}

\* The rows the two sides write: columns beside the status, or a status of an open request.
LEMMA OpenRows ==
  ASSUME NEW was, RequestRow(was), NEW status \in OpenStatus, NEW x, NEW row,
         \/ row = OpenRow(was, status)
         \/ row = [was EXCEPT !.status = status, !.stale = FALSE]
         \/ row = [was EXCEPT !.authors = x]
         \/ row = [was EXCEPT !.stale = x]
         \/ row = [was EXCEPT !.window = x]
         \/ row = [was EXCEPT !.old = x]
         \/ row = [was EXCEPT !.assigned = x]
  PROVE  StillOpen(row, was)
  <1>1. CASE row = OpenRow(was, status)
    <2>1. row = [was EXCEPT !.status = status, !.stale = FALSE, !.window = FALSE, !.bySystem = FALSE, !.old = FALSE]
      BY <1>1 DEF OpenRow
    <2>2. RequestRow(row) /\ row.status = status /\ row.account = was.account /\ row.bySystem = FALSE
      BY <2>1 DEF RequestRow, RequestFields
    <2> QED BY <2>2 DEF StillOpen, OpenStatus
  <1>2. CASE row = [was EXCEPT !.status = status, !.stale = FALSE]
    <2>1. RequestRow(row) /\ row.status = status /\ row.account = was.account /\ row.bySystem = was.bySystem
      BY <1>2 DEF RequestRow, RequestFields
    <2> QED BY <2>1 DEF StillOpen, OpenStatus
  <1>3. CASE \/ row = [was EXCEPT !.authors = x]
             \/ row = [was EXCEPT !.stale = x]
             \/ row = [was EXCEPT !.window = x]
             \/ row = [was EXCEPT !.old = x]
             \/ row = [was EXCEPT !.assigned = x]
    <2>1. RequestRow(row) /\ row.status = was.status /\ row.account = was.account /\ row.bySystem = was.bySystem
      BY <1>3 DEF RequestRow, RequestFields
    <2> QED BY <2>1 DEF StillOpen
  <1> QED BY <1>1, <1>2, <1>3

\* Assigning a request keeps it open.
LEMMA AssignedOpen ==
  ASSUME NEW was, RequestRow(was), NEW to
  PROVE  StillOpen(AssignedRow(was, to), was)
  <1> DEFINE row == AssignedRow(was, to)
             st == IF to # 0 /\ was.status = "open" THEN "in_progress" ELSE was.status
  <1>1. row = [was EXCEPT !.assigned = to, !.stale = FALSE, !.status = st]
    BY DEF AssignedRow
  <1>2. st \in {was.status, "in_progress"}
    OBVIOUS
  <1> HIDE DEF row, st
  <1>3. RequestRow(row) /\ row.status = st /\ row.account = was.account /\ row.bySystem = was.bySystem
    BY <1>1 DEF RequestRow, RequestFields
  <1>4. StillOpen(row, was)
    BY <1>2, <1>3 DEF StillOpen
  <1> QED BY <1>4 DEF row

\* The row of a request that was closed, and a new one.
LEMMA ClosedAndNewRows ==
  ASSUME NEW was, RequestRow(was), NEW a
  PROVE  /\ RequestRow(ClosedRow(was)) /\ ClosedRow(was).bySystem = FALSE
         /\ RequestRow([ClosedRow(was) EXCEPT !.bySystem = TRUE])
         /\ RequestRow(NoRequest) /\ NoRequest.bySystem = FALSE
         /\ RequestRow([NoRequest EXCEPT !.status = "open", !.account = a])
         /\ [NoRequest EXCEPT !.status = "open", !.account = a].bySystem = FALSE
         /\ RequestRow([was EXCEPT !.account = a]) /\ [was EXCEPT !.account = a].bySystem = was.bySystem
  <1> DEFINE row == ClosedRow(was)
             new == [NoRequest EXCEPT !.status = "open", !.account = a]
  <1>1. row = [was EXCEPT !.status = "closed", !.stale = FALSE, !.window = TRUE, !.bySystem = FALSE, !.old = FALSE]
    BY DEF ClosedRow
  <1>2. new = [NoRequest EXCEPT !.status = "open", !.account = a]
    OBVIOUS
  <1>3. RequestRow([was EXCEPT !.account = a]) /\ [was EXCEPT !.account = a].bySystem = was.bySystem
    BY DEF RequestRow, RequestFields
  <1>4. RequestRow(NoRequest) /\ NoRequest.bySystem = FALSE
    BY DEF NoRequest, RequestRow, RequestFields
  <1> HIDE DEF row, new
  <1>5. RequestRow(row) /\ row.bySystem = FALSE
    BY <1>1 DEF RequestRow, RequestFields
  <1>6. RequestRow([row EXCEPT !.bySystem = TRUE])
    BY <1>5 DEF RequestRow, RequestFields
  <1>7. RequestRow(new) /\ new.bySystem = FALSE
    BY <1>2, <1>4 DEF RequestRow, RequestFields
  <1> QED BY <1>3, <1>4, <1>5, <1>6, <1>7 DEF row, new

\* Closing revokes the links of the request.
LEMMA CloseStep ==
  ASSUME LInv, NEW q \in Requests, Close(q)
  PROVE  SupportStep
  <1>1. RequestRow(requests[q]) /\ requests = [t \in Requests |-> requests[t]]
    BY DEF LInv
  <1> DEFINE row == ClosedRow(requests[q])
  <1>2. requests' = [requests EXCEPT ![q] = row] /\ links' = RevokeAccessLinks(q)
    BY <1>1 DEF Close
  <1>3. RequestRow(row) /\ row.bySystem = FALSE
    BY <1>1, ClosedAndNewRows
  <1> HIDE DEF row
  <1> QED BY <1>2, <1>3, RequestRevoked

\* An open status may be given to a closed request: it had no links.
LEMMA SetOpenStep ==
  ASSUME LInv, NEW q \in Requests, NEW status \in OpenStatus, SetOpenStatus(q, status)
  PROVE  SupportStep
  <1>1. RequestRow(requests[q]) /\ requests = [t \in Requests |-> requests[t]]
    BY DEF LInv
  <1> DEFINE row == OpenRow(requests[q], status)
  <1>2. requests' = [requests EXCEPT ![q] = row] /\ UNCHANGED links
    BY <1>1 DEF SetOpenStatus
  <1>3. StillOpen(row, requests[q])
    BY <1>1, OpenRows
  <1> HIDE DEF row
  <1> QED BY <1>2, <1>3, OpenRequestWritten

\* The requester answers.
LEMMA AnsweredStep ==
  ASSUME LInv, NEW q \in Requests, requests' = Answered(q), UNCHANGED links
  PROVE  SupportStep
  <1>1. RequestRow(requests[q]) /\ requests = [t \in Requests |-> requests[t]]
    BY DEF LInv
  <1> DEFINE st == IF requests[q].assigned = 0 THEN "open" ELSE "in_progress"
             row == [requests[q] EXCEPT !.status = st, !.stale = FALSE]
  <1>2. requests' = [requests EXCEPT ![q] = row] /\ UNCHANGED links
    BY <1>1 DEF Answered
  <1>3. st \in OpenStatus
    BY DEF OpenStatus
  <1> HIDE DEF st
  <1>4. StillOpen(row, requests[q])
    BY <1>1, <1>3, OpenRows
  <1> HIDE DEF row
  <1> QED BY <1>2, <1>4, OpenRequestWritten

\* A new request takes the place of a row that is not stored, so no link led to it.
LEMMA CreateRequestStep ==
  ASSUME LInv, NEW q \in Requests, NEW a, CreateSupportRequest(q, a)
  PROVE  SupportStep
  <1>1. RequestRow(requests[q])
    BY DEF LInv
  <1> DEFINE row == [NoRequest EXCEPT !.status = "open", !.account = a]
  <1>2. /\ requests' = [requests EXCEPT ![q] = row] /\ UNCHANGED links
        /\ requests[q].status = "none"
    BY DEF CreateSupportRequest, Stored
  <1>3. RequestRow(row) /\ row.bySystem = FALSE
    BY <1>1, ClosedAndNewRows
  <1> HIDE DEF row
  <1>4. StillOpen(row, requests[q])
    BY <1>2, <1>3 DEF StillOpen
  <1> QED BY <1>2, <1>4, OpenRequestWritten

\* An account takes a request over, and its links with it.
LEMMA AttachStep ==
  ASSUME LInv, NEW q \in Requests, NEW a, AttachSupportTicket(a, q)
  PROVE  SupportStep
  <1>1. RequestRow(requests[q]) /\ requests = [t \in Requests |-> requests[t]]
    BY DEF LInv
  <1> DEFINE row == [requests[q] EXCEPT !.account = a]
  <1>2. requests' = [requests EXCEPT ![q] = row] /\ links' = RevokeAccessLinks(q)
    BY <1>1 DEF AttachSupportTicket
  <1>3. RequestRow(row) /\ row.bySystem = requests[q].bySystem
    BY <1>1, ClosedAndNewRows
  <1> HIDE DEF row
  <1> QED BY <1>2, <1>3, RequestRevoked

\* What the owner of a request may do to it.
LEMMA OwnerSteps ==
  ASSUME LInv, NEW q \in Requests, NEW a,
         \/ ReplyToSupportTicket(a, q)
         \/ CloseSupportTicket(a, q)
         \/ ReopenSupportTicket(a, q)
         \/ AttachSupportTicket(a, q)
  PROVE  SupportStep
  <1>1. CASE ReplyToSupportTicket(a, q)
    BY <1>1, AnsweredStep DEF ReplyToSupportTicket
  <1>2. CASE CloseSupportTicket(a, q)
    BY <1>2, CloseStep DEF CloseSupportTicket
  <1>3. CASE ReopenSupportTicket(a, q)
    BY <1>3, SetOpenStep DEF ReopenSupportTicket, OpenStatus
  <1>4. CASE AttachSupportTicket(a, q)
    BY <1>4, AttachStep
  <1> QED BY <1>1, <1>2, <1>3, <1>4

(***************************************************************************)
(* A reply that mails a link revokes the request's other links and issues   *)
(* one, for a request that is open and has no account.                      *)
(***************************************************************************)
LEMMA ReplyStep ==
  ASSUME LInv, NEW q \in Requests, NEW l, l # 0 => l \in NewLink, ReplyTicket(q, l)
  PROVE  SupportStep
  <1>0. /\ requests = [t \in Requests |-> requests[t]] /\ \A t \in Requests : RequestRow(requests[t])
        /\ links \in [Links -> Requests \cup {0}]
    BY DEF LInv
  <1> DEFINE row == [requests[q] EXCEPT !.status = "waiting", !.stale = FALSE]
  <1>1. /\ requests' = [requests EXCEPT ![q] = row]
        /\ requests[q].status \notin {"none", "closed"}
    BY <1>0 DEF ReplyTicket, Stored, Closed
  <1>2. StillOpen(row, requests[q]) /\ row.status = "waiting" /\ row.account = requests[q].account
    <2>1. StillOpen(row, requests[q])
      BY <1>0, OpenRows DEF OpenStatus
    <2>2. row.status = "waiting" /\ row.account = requests[q].account
      BY <1>0 DEF RequestRow, RequestFields
    <2> QED BY <2>1, <2>2
  <1> HIDE DEF row
  <1>3. CASE ~(l # 0 /\ requests[q].account = 0)
    <2>1. UNCHANGED links
      BY <1>3 DEF ReplyTicket
    <2> QED BY <1>1, <1>2, <2>1, OpenRequestWritten
  <1>4. CASE l # 0 /\ requests[q].account = 0
    <2>1. links' = [RevokeAccessLinks(q) EXCEPT ![l] = q] /\ l \in Links
      BY <1>4 DEF ReplyTicket, IssueAccessLink, NewLink, Lowest
    <2>2. /\ \A m \in Links : links'[m] = IF m = l THEN q ELSE IF links[m] = q THEN 0 ELSE links[m]
          /\ links' \in [Links -> Requests \cup {0}]
      BY <1>0, <2>1 DEF RevokeAccessLinks
    <2>3. /\ requests' = [t \in Requests |-> requests'[t]]
          /\ \A t \in Requests : requests'[t] = IF t = q THEN row ELSE requests[t]
      BY <1>0, <1>1
    <2>4. ASSUME NEW m \in Links, links'[m] # 0
          PROVE  /\ requests'[links'[m]].status \notin {"none", "closed"}
                 /\ requests'[links'[m]].account = 0
      <3>1. CASE m = l
        BY <1>2, <1>4, <2>2, <2>3, <3>1
      <3>2. CASE m # l
        <4>1. links'[m] = links[m] /\ links[m] # q /\ links[m] \in Requests
          BY <1>0, <2>2, <2>4, <3>2
        <4>2. requests'[links[m]] = requests[links[m]]
          BY <2>3, <4>1
        <4> QED BY <2>4, <4>1, <4>2 DEF LInv, LinksOpenRequests, Stored, Closed
      <3> QED BY <3>1, <3>2
    <2>5. \A m, n \in Links : links'[m] # 0 /\ links'[m] = links'[n] => m = n
      <3>1. \A m, n \in Links : links[m] # 0 /\ links[m] = links[n] => m = n
        BY DEF LInv, LinksOpenRequests
      <3>2. q # 0
        BY SupportAssumption
      <3> QED BY <2>2, <3>1, <3>2
    <2>6. LinksOpenRequests'
      BY <2>4, <2>5 DEF LinksOpenRequests, Stored, Closed
    <2>7. \A t \in Requests : RequestRow(requests'[t]) /\ (requests'[t].bySystem => requests[t].bySystem)
      BY <1>0, <1>2, <2>3 DEF StillOpen
    <2> QED BY <2>2, <2>3, <2>6, <2>7 DEF SupportStep, LInv
  <1> QED BY <1>3, <1>4

\* What administrators do to a request beside replying.
LEMMA AdminSteps ==
  ASSUME LInv, NEW q \in Requests, NEW actor, NEW to, NEW status \in OpenStatus \cup {"closed"},
         \/ AddTicketNote(actor, q)
         \/ AssignTicket(q, to)
         \/ SetTicketStatus(q, status)
         \/ SetTicketPriority(q)
  PROVE  SupportStep
  <1>0. requests = [t \in Requests |-> requests[t]] /\ RequestRow(requests[q])
    BY DEF LInv
  <1>1. CASE AddTicketNote(actor, q)
    <2> DEFINE x == requests[q].authors \cup {actor}
               row == [requests[q] EXCEPT !.authors = x]
    <2>1. requests' = [requests EXCEPT ![q] = row] /\ UNCHANGED links
      BY <1>0, <1>1 DEF AddTicketNote
    <2> HIDE DEF x
    <2>2. StillOpen(row, requests[q])
      BY <1>0, OpenRows DEF OpenStatus
    <2> HIDE DEF row
    <2> QED BY <2>1, <2>2, OpenRequestWritten
  <1>2. CASE AssignTicket(q, to)
    <2> DEFINE row == AssignedRow(requests[q], to)
    <2>1. requests' = [requests EXCEPT ![q] = row] /\ UNCHANGED links
      BY <1>0, <1>2 DEF AssignTicket
    <2>2. StillOpen(row, requests[q])
      BY <1>0, AssignedOpen
    <2> HIDE DEF row
    <2> QED BY <2>1, <2>2, OpenRequestWritten
  <1>3. CASE SetTicketStatus(q, status)
    <2>1. CASE status = "closed"
      BY <1>3, <2>1, CloseStep DEF SetTicketStatus
    <2>2. CASE status # "closed"
      BY <1>3, <2>2, SetOpenStep DEF SetTicketStatus
    <2> QED BY <2>1, <2>2
  <1>4. CASE SetTicketPriority(q)
    <2> DEFINE row == [requests[q] EXCEPT !.stale = FALSE]
    <2>1. requests' = [requests EXCEPT ![q] = row] /\ UNCHANGED links
      BY <1>0, <1>4 DEF SetTicketPriority
    <2>2. StillOpen(row, requests[q])
      BY <1>0, OpenRows DEF OpenStatus
    <2> HIDE DEF row
    <2> QED BY <2>1, <2>2, OpenRequestWritten
  <1> QED BY <1>1, <1>2, <1>3, <1>4

\* Rows go, or are closed by the job, with the links that led to them.
LEMMA RowsGo ==
  ASSUME LInv, NEW gone, requests' = [t \in Requests |-> requests'[t]],
         \A t \in Requests : t \notin gone => requests'[t] = requests[t],
         \A t \in Requests : t \in gone => RequestRow(requests'[t]),
         \A t \in Requests : t \in gone /\ requests'[t].bySystem =>
                               requests[t].status = "waiting" /\ requests[t].stale,
         links' = [l \in Links |-> IF links[l] \in gone THEN 0 ELSE links[l]]
  PROVE  SupportStep
  <1>0. /\ \A t \in Requests : RequestRow(requests[t])
        /\ links \in [Links -> Requests \cup {0}]
        /\ \A l \in Links : links[l] # 0 =>
             /\ links[l] \in Requests
             /\ requests[links[l]].status \notin {"none", "closed"} /\ requests[links[l]].account = 0
    BY DEF LInv, LinksOpenRequests, Stored, Closed
  <1>1. /\ links' \in [Links -> Requests \cup {0}]
        /\ \A l \in Links : links'[l] # 0 => links'[l] = links[l] /\ links[l] \notin gone
    BY <1>0
  <1>2. \A l \in Links : links'[l] # 0 =>
           /\ links'[l] = links[l]
           /\ requests'[links[l]].status \notin {"none", "closed"} /\ requests'[links[l]].account = 0
    BY <1>0, <1>1
  <1>3. \A t \in Requests : RequestRow(requests'[t])
    BY <1>0
  <1>4. \A t \in Requests : ~requests[t].bySystem /\ requests'[t].bySystem =>
                               requests[t].status = "waiting" /\ requests[t].stale
    OBVIOUS
  <1> QED BY <1>1, <1>2, <1>3, <1>4, RequestsWritten

\* The purge takes requests closed long ago.
LEMMA PurgeStep ==
  ASSUME LInv, purgeSupportHistory
  PROVE  SupportStep
  <1> DEFINE gone == {t \in Requests : Closed(t) /\ requests[t].old}
  <1>1. /\ requests' = [t \in Requests |-> IF t \in gone THEN NoRequest ELSE requests[t]]
        /\ links' = [l \in Links |-> IF links[l] \in gone THEN 0 ELSE links[l]]
    BY DEF purgeSupportHistory
  <1>2. RequestRow(NoRequest) /\ ~NoRequest.bySystem
    BY DEF NoRequest, RequestRow, RequestFields
  <1> HIDE DEF gone
  <1> QED BY <1>1, <1>2, RowsGo

\* The job closes, of the requests it read, those that still wait without an answer.
LEMMA AutoCloseStep ==
  ASSUME LInv, NEW ids, autoCloseWaitingSupportRequests(ids)
  PROVE  SupportStep
  <1> DEFINE gone == CloseAutomatically(ids)
             row(t) == [ClosedRow(requests[t]) EXCEPT !.bySystem = TRUE]
  <1>1. /\ requests' = [t \in Requests |-> IF t \in gone THEN row(t) ELSE requests[t]]
        /\ links' = [l \in Links |-> IF links[l] \in gone THEN 0 ELSE links[l]]
    BY DEF autoCloseWaitingSupportRequests
  <1>2. \A t \in gone : requests[t].status = "waiting" /\ requests[t].stale
    BY DEF CloseAutomatically
  <1>3. \A t \in Requests : RequestRow(row(t))
    BY ClosedAndNewRows DEF LInv
  <1> HIDE DEF gone, row
  <1> QED BY <1>1, <1>2, <1>3, RowsGo

\* Rows lose their account or who they were assigned to.
LEMMA GoneSteps ==
  ASSUME LInv, NEW x, AccountGone(x) \/ AdminGone(x)
  PROVE  SupportStep
  <1>0. /\ requests = [t \in Requests |-> requests[t]] /\ \A t \in Requests : RequestRow(requests[t])
        /\ links \in [Links -> Requests \cup {0}]
        /\ \A l \in Links : links[l] # 0 =>
             /\ links[l] \in Requests
             /\ requests[links[l]].status \notin {"none", "closed"} /\ requests[links[l]].account = 0
    BY DEF LInv, LinksOpenRequests, Stored, Closed
  <1>1. /\ requests' = [t \in Requests |-> requests'[t]] /\ UNCHANGED links
        /\ \A t \in Requests : \/ requests'[t] = requests[t]
                               \/ requests'[t] = [requests[t] EXCEPT !.account = 0]
                               \/ requests'[t] = [requests[t] EXCEPT !.assigned = 0]
    BY DEF AccountGone, AdminGone
  <1>2. ASSUME NEW was, RequestRow(was), NEW row,
               \/ row = was \/ row = [was EXCEPT !.account = 0] \/ row = [was EXCEPT !.assigned = 0]
        PROVE  /\ RequestRow(row) /\ row.status = was.status /\ row.bySystem = was.bySystem
               /\ was.account = 0 => row.account = 0
    BY <1>2 DEF RequestRow, RequestFields
  <1>3. \A t \in Requests :
          /\ RequestRow(requests'[t]) /\ requests'[t].status = requests[t].status
          /\ requests'[t].bySystem = requests[t].bySystem
          /\ requests[t].account = 0 => requests'[t].account = 0
    BY <1>0, <1>1, <1>2
  <1>4. \A l \in Links : links'[l] # 0 =>
           /\ links'[l] = links[l]
           /\ requests'[links[l]].status \notin {"none", "closed"} /\ requests'[links[l]].account = 0
    BY <1>0, <1>1, <1>3
  <1>5. \A t \in Requests : requests'[t].bySystem => requests[t].bySystem
    BY <1>3
  <1>6. links' \in [Links -> Requests \cup {0}] /\ \A t \in Requests : RequestRow(requests'[t])
    BY <1>0, <1>1, <1>3
  <1> QED BY <1>1, <1>4, <1>5, <1>6, RequestsWritten

\* Time: a request ages, or a link expires.
LEMMA AgeSteps ==
  ASSUME LInv, (\E t \in Requests : RequestAges(t)) \/ (\E l \in Links : LinkExpires(l))
  PROVE  SupportStep
  <1>0. /\ requests = [t \in Requests |-> requests[t]] /\ \A t \in Requests : RequestRow(requests[t])
        /\ links \in [Links -> Requests \cup {0}]
        /\ \A l \in Links : links[l] # 0 =>
             requests[links[l]].status \notin {"none", "closed"} /\ requests[links[l]].account = 0
    BY DEF LInv, LinksOpenRequests, Stored, Closed
  <1>1. ASSUME NEW q \in Requests, RequestAges(q) PROVE SupportStep
    <2>1. PICK row : /\ requests' = [requests EXCEPT ![q] = row]
                     /\ \/ row = [requests[q] EXCEPT !.stale = TRUE]
                        \/ row = [requests[q] EXCEPT !.window = FALSE]
                        \/ row = [requests[q] EXCEPT !.old = TRUE]
      BY <1>0, <1>1 DEF RequestAges
    <2>2. StillOpen(row, requests[q])
      BY <1>0, <2>1, OpenRows DEF OpenStatus
    <2>3. UNCHANGED links
      BY <1>1 DEF RequestAges
    <2> QED BY <2>1, <2>2, <2>3, OpenRequestWritten
  <1>2. ASSUME NEW l \in Links, LinkExpires(l) PROVE SupportStep
    <2>1. links' = [links EXCEPT ![l] = 0] /\ UNCHANGED requests
      BY <1>2 DEF LinkExpires
    <2>2. /\ links' \in [Links -> Requests \cup {0}]
          /\ \A m \in Links : links'[m] # 0 => links'[m] = links[m]
      BY <1>0, <2>1
    <2>3. /\ requests' = [t \in Requests |-> requests'[t]] /\ \A t \in Requests : RequestRow(requests'[t])
          /\ \A m \in Links : links'[m] # 0 =>
               requests'[links[m]].status \notin {"none", "closed"} /\ requests'[links[m]].account = 0
      BY <1>0, <2>1, <2>2
    <2>4. \A t \in Requests : requests'[t].bySystem => requests[t].bySystem
      BY <2>1
    <2> QED BY <2>2, <2>3, <2>4, RequestsWritten
  <1> QED BY <1>1, <1>2

-----------------------------------------------------------------------------
(* Requests in flight, and the stores together *)

\* What a step may do to the requests in flight while no release is written.
RequestStep ==
  \/ UNCHANGED req
  \/ \E c \in Clients : Done(c)
  \/ \E c \in Clients : \E r : ReqOK(r, releases) /\ Become(c, r)

\* Commands apply to the row that was looked at, as CommandsFollowView says.
CommandsFollow ==
  \A c \in Clients :
    Is(c, "release") /\ req'[c] = Idle /\ releases' # releases => releases[req[c].release] = req[c].seen

\* A request that has read nothing fits any releases.
LEMMA IdleOK ==
  ASSUME NEW rows
  PROVE  ReqOK(Idle, rows)
  BY DEF ReqOK, Idle

\* What a request has read still fits: a release that changed has a later revision.
LEMMA RequestKept ==
  ASSUME RInv, ReleaseStep, NEW r, ReqOK(r, releases)
  PROVE  ReqOK(r, releases')
  <1>1. ASSUME Viewing(r, releases) PROVE Viewing(r, releases')
    <2>1. /\ r.release \in Releases /\ r.seen \in ReleaseRows
          /\ releases[r.release].status # "none"
          /\ r.seen.revision <= releases[r.release].revision
          /\ r.seen.revision = releases[r.release].revision => r.seen = releases[r.release]
      BY <1>1 DEF Viewing
    <2>2. /\ releases'[r.release].status # "none"
          /\ releases'[r.release] = releases[r.release]
               \/ releases'[r.release].revision > releases[r.release].revision
      BY <2>1 DEF ReleaseStep
    <2>3. /\ releases[r.release].revision \in Nat /\ releases'[r.release].revision \in Nat
          /\ r.seen.revision \in Nat
      BY <2>1 DEF RInv, ReleaseStep, ReleaseRows
    <2>4. /\ r.seen.revision <= releases'[r.release].revision
          /\ r.seen.revision = releases'[r.release].revision => r.seen = releases'[r.release]
      BY <2>1, <2>2, <2>3
    <2> QED BY <1>1, <2>1, <2>2, <2>4 DEF Viewing
  <1> QED BY <1>1 DEF ReqOK

\* One request goes on or ends, or none does.
LEMMA RequestsFit ==
  ASSUME QInv, RInv, ReleaseStep,
         \/ UNCHANGED req
         \/ \E c \in Clients : Done(c)
         \/ UNCHANGED releases /\ RequestStep
  PROVE  QInv'
  <1>0. req = [c \in Clients |-> req[c]] /\ \A c \in Clients : ReqOK(req[c], releases)
    BY DEF QInv
  <1>1. \A d \in Clients : ReqOK(req[d], releases')
    BY <1>0, RequestKept
  <1>2. CASE UNCHANGED req
    BY <1>0, <1>1, <1>2 DEF QInv
  <1>3. ASSUME NEW c \in Clients, NEW r, ReqOK(r, releases'), Become(c, r)
        PROVE  QInv'
    <2>1. /\ req' = [d \in Clients |-> req'[d]]
          /\ \A d \in Clients : req'[d] = IF d = c THEN r ELSE req[d]
      BY <1>0, <1>3 DEF Become
    <2>2. \A d \in Clients : ReqOK(req'[d], releases')
      BY <1>1, <1>3, <2>1
    <2> QED BY <2>1, <2>2 DEF QInv
  <1>4. CASE \E c \in Clients : Done(c)
    BY <1>3, <1>4, IdleOK DEF Done
  <1>5. CASE UNCHANGED releases /\ \E c \in Clients : \E r : ReqOK(r, releases) /\ Become(c, r)
    BY <1>3, <1>5
  <1> QED BY <1>2, <1>4, <1>5 DEF RequestStep

\* Stores that are not written.
LEMMA Quiet ==
  ASSUME CInv
  PROVE  /\ UNCHANGED adminVars => AInv'
         /\ UNCHANGED <<tickets, redirects>> => TInv'
         /\ UNCHANGED publications => PackageStep
         /\ UNCHANGED supportVars => SupportStep
  <1>1. ASSUME UNCHANGED adminVars PROVE AInv'
    BY <1>1 DEF CInv, AInv, adminVars, SuperStays, ActiveSupers, Exists
  <1>2. ASSUME UNCHANGED <<tickets, redirects>> PROVE TInv'
    BY <1>2 DEF CInv, TInv
  <1> QED BY <1>1, <1>2, QuietPackages, QuietSupport DEF CInv

\* What every step keeps, and what it may do.
StepKeeps ==
  AInv' /\ ReleaseStep /\ TInv' /\ PackageStep /\ SupportStep /\ QInv' /\ CommandsFollow

\* Steps that write no release.
LEMMA OtherStores ==
  ASSUME CInv, AInv', TInv', PackageStep, SupportStep, UNCHANGED releases, RequestStep
  PROVE  StepKeeps
  <1>1. ReleaseStep
    BY QuietReleases DEF CInv
  <1>2. QInv'
    BY <1>1, RequestsFit DEF CInv
  <1>3. CommandsFollow
    BY DEF CommandsFollow
  <1> QED BY <1>1, <1>2, <1>3 DEF StepKeeps

\* Steps of the administrators' store alone.
LEMMA AdminsAlone ==
  ASSUME CInv, AInv', UNCHANGED <<releaseVars, supportVars>>, RequestStep
  PROVE  StepKeeps
  BY OtherStores, Quiet DEF releaseVars

\* Steps of the support store alone.
LEMMA SupportAlone ==
  ASSUME CInv, SupportStep, UNCHANGED <<adminVars, releaseVars>>, RequestStep
  PROVE  StepKeeps
  BY OtherStores, Quiet DEF releaseVars

\* Steps that only read.
LEMMA ReadsOnly ==
  ASSUME CInv, UNCHANGED <<adminVars, releaseVars, supportVars>>, RequestStep
  PROVE  StepKeeps
  BY OtherStores, Quiet DEF releaseVars

\* A request that ends, and one that goes on with what it has read.
LEMMA Ends ==
  ASSUME NEW c \in Clients, Done(c)
  PROVE  RequestStep
  BY DEF RequestStep

\* A request goes on with what it has read, if that fits the releases.
LEMMA GoesOn ==
  ASSUME NEW c \in Clients, NEW r, ReqOK(r, releases), Become(c, r)
  PROVE  RequestStep
  BY DEF RequestStep

\* Signing in, setting up and confirming.
LEMMA SignInKeeps ==
  ASSUME CInv, NEW c \in Clients, SignIn(c)
  PROVE  StepKeeps
  <1>0. AInv /\ ReqOK(req[c], releases)
    BY DEF CInv, QInv
  <1>1. ASSUME NEW i \in AdminIds, NEW p, adminLogin(c, i, p) PROVE StepKeeps
    <2>1. ReqOK([op |-> "login", admin |-> i, period |-> p], releases)
      BY DEF ReqOK
    <2>2. RequestStep
      BY <1>1, <2>1, GoesOn DEF adminLogin
    <2> QED BY <1>1, <2>2, ReadsOnly DEF adminLogin
  <1>2. ASSUME NEW i \in AdminIds, NEW p, adminSetupComplete(c, i, p) PROVE StepKeeps
    <2>1. ReqOK([op |-> "setup", admin |-> i, secret |-> admins[i].secret, period |-> p], releases)
      BY DEF ReqOK
    <2>2. RequestStep
      BY <1>2, <2>1, GoesOn DEF adminSetupComplete
    <2>3. admins' = [admins EXCEPT ![i].link = "opened"] /\ UNCHANGED adminSessions
      BY <1>2 DEF adminSetupComplete, SetupDetails
    <2>4. AInv'
      <3>1. adminSessions' \in [AdminSessions -> SessionRows]
        BY <1>0, <2>3, SessionMarks
      <3> QED BY <1>0, <2>3, <3>1, ColumnAInv
    <2> QED BY <1>2, <2>2, <2>4, AdminsAlone DEF adminSetupComplete
  <1>3. CASE openSession(c)
    <2>1. req[c].admin \in AdminIds
      BY <1>0, <1>3 DEF openSession, Is, ReqOK
    <2>2. PICK s : CreateSession(req[c].admin, s, req[c].period)
      BY <1>3 DEF openSession
    <2>3. /\ admins' = [admins EXCEPT ![req[c].admin].counter = req[c].period]
          /\ adminSessions' = Opened(req[c].admin, s)
      BY <2>2 DEF CreateSession, Consume
    <2>4. AInv'
      <3>1. adminSessions' \in [AdminSessions -> SessionRows]
        BY <1>0, <2>1, <2>3, SessionWrites
      <3> QED BY <1>0, <2>3, <3>1, ColumnAInv
    <2> QED BY <1>3, <2>4, Ends, AdminsAlone DEF openSession
  <1>4. CASE enrol(c)
    <2>1. req[c].admin \in AdminIds
      BY <1>0, <1>4 DEF enrol, Is, ReqOK
    <2>2. ReqOK([op |-> "enrolled", admin |-> req[c].admin, period |-> req[c].period], releases)
      BY <2>1 DEF ReqOK
    <2>3. RequestStep
      BY <1>4, <2>2, GoesOn DEF enrol
    <2>4. CompleteSetup(req[c].admin, req[c].secret, req[c].period)
      BY <1>4 DEF enrol
    <2>5. StandingKept
      BY <1>0, <2>4, CompleteSetupKeeps
    <2>6. AInv'
      <3>1. adminSessions' \in [AdminSessions -> SessionRows]
        BY <1>0, <2>4, SessionMarks DEF CompleteSetup
      <3> QED BY <1>0, <2>5, <3>1, StandingAInv
    <2> QED BY <1>4, <2>3, <2>6, AdminsAlone DEF enrol
  <1>5. CASE enter(c)
    <2>1. req[c].admin \in AdminIds
      BY <1>0, <1>5 DEF enter, Is, ReqOK
    <2>2. PICK s : CreateSessionAfterSetup(req[c].admin, s, req[c].period)
      BY <1>5 DEF enter
    <2>3. admins' = admins /\ adminSessions' = Opened(req[c].admin, s)
      BY <2>2 DEF CreateSessionAfterSetup
    <2>4. AInv'
      <3>1. adminSessions' \in [AdminSessions -> SessionRows]
        BY <1>0, <2>1, <2>3, SessionWrites
      <3> QED BY <1>0, <2>3, <3>1, ColumnAInv
    <2> QED BY <1>5, <2>4, Ends, AdminsAlone DEF enter
  <1>6. CASE confirm(c)
    <2>1. MarkSessionAuthenticated(req[c].admin, req[c].session, req[c].period)
      BY <1>6 DEF confirm
    <2>2. /\ \/ admins' = [admins EXCEPT ![req[c].admin].counter = req[c].period]
             \/ admins' = admins
          /\ adminSessions' = [adminSessions EXCEPT ![req[c].session].recent = TRUE]
      BY <2>1 DEF MarkSessionAuthenticated, Consume
    <2>3. adminSessions' \in [AdminSessions -> SessionRows]
      BY <1>0, <2>2, SessionMarks
    <2>4. AInv'
      BY <1>0, <2>2, <2>3, ColumnAInv
    <2> QED BY <1>6, <2>4, Ends, AdminsAlone DEF confirm
  <1>7. ASSUME NEW s \in AdminSessions, adminSessionForRequest(c, s) PROVE StepKeeps
    <2>1. adminSessions[s].admin \in AdminIds
      BY <1>0, <1>7 DEF adminSessionForRequest, AccountBySession, AInv
    <2>2. ReqOK([op |-> "admin", by |-> Signed(s)], releases)
      BY <2>1 DEF ReqOK, Signed
    <2>3. RequestStep
      BY <1>7, <2>2, GoesOn DEF adminSessionForRequest
    <2> QED BY <1>7, <2>3, ReadsOnly DEF adminSessionForRequest
  <1>8. ASSUME NEW s \in AdminSessions, NEW p, adminStepUp(c, s, p) PROVE StepKeeps
    <2> DEFINE r == [op |-> "stepup", admin |-> adminSessions[s].admin, session |-> s, period |-> p]
    <2>1. ReqOK(r, releases)
      BY DEF ReqOK
    <2>2. Become(c, r)
      BY <1>8 DEF adminStepUp
    <2> HIDE DEF r
    <2>3. RequestStep
      BY <2>1, <2>2, GoesOn
    <2> QED BY <1>8, <2>3, ReadsOnly DEF adminStepUp
  <1> QED BY <1>1, <1>2, <1>3, <1>4, <1>5, <1>6, <1>7, <1>8 DEF SignIn

\* A step of the accounts', flags' or tickets' tables that ends a request.
LEMMA ReleaseSideEnds ==
  ASSUME CInv, NEW c \in Clients, Done(c), TInv', PackageStep, UNCHANGED releases,
         UNCHANGED <<adminVars, supportVars>>
  PROVE  StepKeeps
  BY Ends, OtherStores, Quiet

\* Managing administrators, accounts and flags.
LEMMA ManageKeeps ==
  ASSUME CInv, NEW c \in Clients, Manage(c)
  PROVE  StepKeeps
  <1>0. AInv /\ TInv /\ LInv /\ ReqOK(req[c], releases)
    BY DEF CInv, QInv
  <1>1. CASE inviteAdminAccount(c)
    <2>1. PICK i \in AdminIds, role \in Roles : InviteAdmin(req[c].by.actor, i, role)
      BY <1>1 DEF inviteAdminAccount, Lowest
    <2>2. req[c].by.actor \in AdminIds
      BY <1>0, <1>1 DEF inviteAdminAccount, requireAdminStepUp, requireAdminPermission, Is, ReqOK
    <2>3. AInv'
      BY <1>0, <2>1, <2>2, InviteAInv
    <2> QED BY <1>1, <2>3, Ends, AdminsAlone DEF inviteAdminAccount
  <1>2. CASE updateAdminAccount(c)
    <2>1. PICK i \in AdminIds, role \in Roles, suspended \in BOOLEAN :
            UpdateAdmin(req[c].by.actor, i, role, suspended)
      BY <1>2 DEF updateAdminAccount
    <2>2. AInv'
      BY <1>0, <2>1, UpdateAInv
    <2> QED BY <1>2, <2>2, Ends, AdminsAlone DEF updateAdminAccount
  <1>3. CASE deleteAdminAccount(c)
    <2>1. PICK i \in AdminIds : DeleteAdmin(req[c].by.actor, i, Authors) /\ AdminGone(i)
      BY <1>3 DEF deleteAdminAccount
    <2>2. AInv' /\ SupportStep
      BY <1>0, <2>1, DeleteAInv, GoneSteps
    <2>3. UNCHANGED releaseVars /\ RequestStep
      BY <1>3, Ends DEF deleteAdminAccount
    <2> QED BY <2>2, <2>3, OtherStores, Quiet DEF releaseVars
  <1>4. CASE adminUserAction(c)
    <2>1. UNCHANGED <<releases, tickets, redirects, publications>>
      BY <1>4 DEF adminUserAction, SetBeta, SetSuspended, SetOwnerReleaseRingMember
    <2> QED BY <1>4, <2>1, ReleaseSideEnds, Quiet DEF adminUserAction
  <1>5. CASE adminUserDelete(c)
    <2>1. PICK a \in Customers : DeleteUser(a) /\ AccountGone(a)
      BY <1>5 DEF adminUserDelete
    <2>2. /\ UNCHANGED <<releases, redirects, publications>>
          /\ tickets' = [k \in Customers \X Keys |-> IF k[1] = a THEN NoTicket ELSE tickets[k]]
      BY <2>1 DEF DeleteUser
    <2>3. /\ tickets' = [k \in Customers \X Keys |-> tickets'[k]]
          /\ \A k \in Customers \X Keys : tickets'[k] \in {tickets[k], NoTicket}
      BY <2>2
    <2>4. TInv' /\ SupportStep
      BY <1>0, <2>1, <2>2, <2>3, DropTicketsTInv, GoneSteps
    <2>5. UNCHANGED adminVars /\ RequestStep
      BY <1>5, Ends DEF adminUserDelete
    <2> QED BY <2>2, <2>4, <2>5, OtherStores, Quiet
  <1>6. CASE adminFlag(c)
    <2>1. UNCHANGED <<releases, tickets, redirects, publications>>
      BY <1>6 DEF adminFlag, UpdateFeatureFlag
    <2> QED BY <1>6, <2>1, ReleaseSideEnds, Quiet DEF adminFlag
  <1> QED BY <1>1, <1>2, <1>3, <1>4, <1>5, <1>6 DEF Manage

\* A command is of the release it was begun for, at the revision that was seen.
LEMMA CommandKeepsAll ==
  ASSUME CInv, NEW c \in Clients, NEW row, ReleaseCommand(c, row)
  PROVE  StepKeeps
  <1> DEFINE q == req[c].release
  <1>1. /\ Is(c, "release") /\ Done(c) /\ UNCHANGED <<adminVars, supportVars>>
        /\ applyReleaseCommand(q, req[c].seen.revision, row)
    BY DEF ReleaseCommand
  <1>2. /\ q \in Releases /\ releases[q].status # "none"
        /\ req[c].seen.revision = releases[q].revision => req[c].seen = releases[q]
    BY <1>1 DEF CInv, QInv, ReqOK, Viewing, Is
  <1>3. ReleaseStep /\ releases[q].revision = req[c].seen.revision
    BY <1>1, <1>2, CommandStep DEF CInv
  <1>4. QInv'
    BY <1>1, <1>3, RequestsFit DEF CInv
  <1>5. CommandsFollow
    <2> SUFFICES ASSUME NEW d \in Clients, Is(d, "release"), req'[d] = Idle
                 PROVE  releases[req[d].release] = req[d].seen
      BY DEF CommandsFollow
    <2>1. CASE d = c
      BY <1>2, <1>3, <2>1
    <2>2. CASE d # c
      <3>1. req'[d] = req[d]
        BY <1>1, <2>2 DEF Done, Become, CInv, QInv
      <3> QED BY <3>1 DEF Is, Idle
    <2> QED BY <2>1, <2>2
  <1>6. UNCHANGED <<tickets, redirects, publications>>
    BY <1>1 DEF applyReleaseCommand
  <1> QED BY <1>1, <1>3, <1>4, <1>5, <1>6, Quiet DEF StepKeeps

\* Releases and packages.
LEMMA ReleaseKeeps ==
  ASSUME CInv, NEW c \in Clients, Release(c)
  PROVE  StepKeeps
  <1>0. RInv /\ TInv /\ PInv /\ ReqOK(req[c], releases)
    BY DEF CInv, QInv
  <1>1. ASSUME NEW q \in Releases, adminReleases(c, q) PROVE StepKeeps
    <2> DEFINE r == [op |-> "view", release |-> q, seen |-> releases[q]]
    <2>1. releases[q] \in ReleaseRows /\ releases[q].status # "none" /\ Become(c, r)
      BY <1>0, <1>1 DEF adminReleases, RInv
    <2>2. releases[q].revision \in Nat
      BY <2>1 DEF ReleaseRows
    <2>3. /\ r = [f \in {"op", "release", "seen"} |-> r[f]]
          /\ r.op = "view" /\ r.release = q /\ r.seen = releases[q]
      OBVIOUS
    <2> HIDE DEF r
    <2>4. ReqOK(r, releases)
      BY <2>1, <2>2, <2>3 DEF ReqOK, Viewing
    <2>5. RequestStep
      BY <2>1, <2>4, GoesOn
    <2> QED BY <1>1, <2>5, ReadsOnly DEF adminReleases
  <1>2. CASE BeginRelease(c)
    <2> DEFINE r == [req[c] EXCEPT !.op = "release"]
    <2>1. Viewing(req[c], releases) /\ Become(c, r)
      BY <1>0, <1>2 DEF BeginRelease, Is, ReqOK
    <2>2. req[c] = [f \in {"op", "release", "seen"} |-> req[c][f]]
      BY <2>1 DEF Viewing
    <2>3. r = [req[c] EXCEPT !.op = "release"]
      OBVIOUS
    <2> HIDE DEF r
    <2>4. /\ r = [f \in {"op", "release", "seen"} |-> r[f]]
          /\ r.op = "release" /\ r.release = req[c].release /\ r.seen = req[c].seen
      BY <2>2, <2>3
    <2>5. ReqOK(r, releases)
      BY <2>1, <2>4 DEF ReqOK, Viewing
    <2>6. RequestStep
      BY <2>1, <2>5, GoesOn
    <2> QED BY <1>2, <2>6, ReadsOnly DEF BeginRelease
  <1>3. CASE \/ adminReleasePublish(c) \/ adminReleaseRollout(c)
             \/ adminReleaseEmergencyStop(c) \/ adminReleaseWithdraw(c)
    <2>1. \E row : ReleaseCommand(c, row)
      BY <1>3 DEF adminReleasePublish, adminReleaseRollout, adminReleaseEmergencyStop, adminReleaseWithdraw
    <2> QED BY <2>1, CommandKeepsAll
  <1>4. ASSUME NEW q \in Publications, adminExtensionPublications(c, q) PROVE StepKeeps
    <2> DEFINE r == [op |-> "package", package |-> q, revision |-> publications[q].revision]
    <2>1. ReqOK(r, releases) /\ Become(c, r)
      BY <1>4 DEF ReqOK, adminExtensionPublications
    <2> HIDE DEF r
    <2>2. RequestStep
      BY <2>1, GoesOn
    <2> QED BY <1>4, <2>2, ReadsOnly DEF adminExtensionPublications
  <1>5. CASE adminExtensionPublicationAccept(c)
    <2>1. PICK q \in Publications, e \in Evidences : AcceptExtensionPublication(q, e)
      BY <1>5 DEF adminExtensionPublicationAccept
    <2>2. PackageStep /\ UNCHANGED <<releases, tickets, redirects>>
      BY <1>0, <2>1, AcceptPackageStep DEF AcceptExtensionPublication
    <2> QED BY <1>5, <2>2, ReleaseSideEnds, Quiet DEF adminExtensionPublicationAccept
  <1>6. CASE adminExtensionPublicationTransition(c)
    <2>1. PICK to \in StateSet, e \in Evidences :
            TransitionExtensionPublication(req[c].package, req[c].revision, to, e)
      BY <1>6 DEF adminExtensionPublicationTransition
    <2>2. PackageStep /\ UNCHANGED <<releases, tickets, redirects>>
      BY <1>0, <2>1, TransitionPackageStep DEF TransitionExtensionPublication
    <2> QED BY <1>6, <2>2, ReleaseSideEnds, Quiet DEF adminExtensionPublicationTransition
  <1> QED BY <1>1, <1>2, <1>3, <1>4, <1>5, <1>6 DEF Release

\* Downloads and updates.
LEMMA DeliverKeeps ==
  ASSUME CInv, NEW c \in Clients, Deliver(c)
  PROVE  StepKeeps
  <1>0. TInv
    BY DEF CInv
  <1>1. ASSUME NEW a, userForRequest(c, a) PROVE StepKeeps
    <2>1. ReqOK([op |-> "customer", customer |-> a], releases)
      BY DEF ReqOK
    <2>2. RequestStep
      BY <1>1, <2>1, GoesOn DEF userForRequest
    <2> QED BY <1>1, <2>2, ReadsOnly DEF userForRequest
  <1>2. CASE accountDownloads(c)
    <2>1. PICK r : Become(c, [op |-> "ticket", customer |-> req[c].customer, release |-> r])
      BY <1>2 DEF accountDownloads
    <2>2. ReqOK([op |-> "ticket", customer |-> req[c].customer, release |-> r], releases)
      BY DEF ReqOK
    <2>3. RequestStep
      BY <2>1, <2>2, GoesOn
    <2> QED BY <1>2, <2>3, ReadsOnly DEF accountDownloads
  <1>3. CASE accountDownloadTickets(c)
    <2>1. PICK k \in Keys, t \in NewToken :
            CreateOrRefreshDownloadTicket(req[c].customer, k, req[c].release, t)
      BY <1>3 DEF accountDownloadTickets
    <2>2. TInv' /\ UNCHANGED <<releases, publications>>
      BY <1>0, <2>1, CreateTicketTInv DEF CreateOrRefreshDownloadTicket
    <2> QED BY <1>3, <2>2, ReleaseSideEnds, Quiet DEF accountDownloadTickets
  <1>4. CASE BeginRedeem(c)
    <2>1. PICK t : Become(c, [op |-> "redeem", customer |-> req[c].customer, token |-> t])
      BY <1>4 DEF BeginRedeem
    <2>2. ReqOK([op |-> "redeem", customer |-> req[c].customer, token |-> t], releases)
      BY DEF ReqOK
    <2>3. RequestStep
      BY <2>1, <2>2, GoesOn
    <2> QED BY <1>4, <2>3, ReadsOnly DEF BeginRedeem
  <1>5. CASE redeemDownloadTicket(c)
    <2>1. MarkDownloadTicketRedeemed(req[c].customer, req[c].token)
      BY <1>5 DEF redeemDownloadTicket
    <2>2. TInv'
      BY <1>0, <2>1, MarkTInv
    <2>3. UNCHANGED <<releases, publications>>
      BY <2>1 DEF MarkDownloadTicketRedeemed
    <2> QED BY <1>5, <2>2, <2>3, ReleaseSideEnds, Quiet DEF redeemDownloadTicket
  <1>6. ASSUME NEW current, BeginUpdate(c, current) PROVE StepKeeps
    <2>1. PICK r : Become(c, [op |-> "update", customer |-> req[c].customer, release |-> r])
      BY <1>6 DEF BeginUpdate
    <2>2. ReqOK([op |-> "update", customer |-> req[c].customer, release |-> r], releases)
      BY DEF ReqOK
    <2>3. RequestStep
      BY <2>1, <2>2, GoesOn
    <2> QED BY <1>6, <2>3, ReadsOnly DEF BeginUpdate
  <1>7. CASE desktopUpdate(c) \/ redeemDesktopUpdateTicket(c)
    <2>1. UNCHANGED <<releases, tickets, redirects, publications>>
      BY <1>7 DEF desktopUpdate, CreateDesktopUpdateTicket, redeemDesktopUpdateTicket, RedeemDesktopUpdateTicket
    <2>2. Done(c) /\ UNCHANGED <<adminVars, supportVars>>
      BY <1>7 DEF desktopUpdate, redeemDesktopUpdateTicket
    <2> QED BY <2>1, <2>2, ReleaseSideEnds, Quiet
  <1> QED BY <1>1, <1>2, <1>3, <1>4, <1>5, <1>6, <1>7 DEF Deliver

\* Support, by the requester and by administrators.
LEMMA SupportKeeps ==
  ASSUME CInv, NEW c \in Clients, Support(c)
  PROVE  StepKeeps
  <1>0. LInv /\ ReqOK(req[c], releases)
    BY DEF CInv, QInv
  <1>1. CASE accountSupportTicket(c)
    <2>1. PICK t \in Requests : \/ ReplyToSupportTicket(req[c].customer, t)
                                \/ CloseSupportTicket(req[c].customer, t)
                                \/ ReopenSupportTicket(req[c].customer, t)
                                \/ AttachSupportTicket(req[c].customer, t)
      BY <1>1 DEF accountSupportTicket
    <2>2. SupportStep
      BY <1>0, <2>1, OwnerSteps
    <2> QED BY <1>1, <2>2, Ends, SupportAlone DEF accountSupportTicket
  <1>2. ASSUME NEW l \in Links, redeemSupportAccess(c, l) PROVE StepKeeps
    <2>1. ReqOK([op |-> "link", link |-> l], releases)
      BY DEF ReqOK
    <2>2. RequestStep
      BY <1>2, <2>1, GoesOn DEF redeemSupportAccess
    <2> QED BY <1>2, <2>2, ReadsOnly DEF redeemSupportAccess
  <1>3. CASE replyToSupportAccess(c)
    <2>1. PICK t \in Requests : requests' = Answered(t) /\ UNCHANGED links
      BY <1>3 DEF replyToSupportAccess, ReplyToSupportTicketWithAccessToken, resolveSupportAccessLink
    <2>2. SupportStep
      BY <1>0, <2>1, AnsweredStep
    <2> QED BY <1>3, <2>2, Ends, SupportAlone DEF replyToSupportAccess
  <1>4. ASSUME NEW t \in Requests, NEW mail, BeginReply(c, t, mail) PROVE StepKeeps
    <2> DEFINE r == [op |-> "reply", by |-> req[c].by, request |-> t, link |-> mail /\ requests[t].account = 0]
    <2>1. ReqOK(r, releases) /\ Become(c, r)
      BY <1>4 DEF ReqOK, BeginReply
    <2> HIDE DEF r
    <2>2. RequestStep
      BY <2>1, GoesOn
    <2> QED BY <1>4, <2>2, ReadsOnly DEF BeginReply
  <1>5. CASE adminReply(c)
    <2>1. req[c].request \in Requests
      BY <1>0, <1>5 DEF adminReply, Is, ReqOK
    <2>2. PICK l \in IF req[c].link THEN NewLink ELSE {0} : ReplyTicket(req[c].request, l)
      BY <1>5 DEF adminReply
    <2>3. l # 0 => l \in NewLink
      BY <2>2
    <2>4. SupportStep
      BY <1>0, <2>1, <2>2, <2>3, ReplyStep
    <2> QED BY <1>5, <2>4, Ends, SupportAlone DEF adminReply
  <1>6. CASE adminSupportTicketRoute(c)
    <2>1. PICK t \in Requests :
            \/ AddTicketNote(req[c].by.actor, t)
            \/ \E to \in Assignable \cup {0} : AssignTicket(t, to)
            \/ \E status \in OpenStatus \cup {"closed"} : SetTicketStatus(t, status)
            \/ SetTicketPriority(t)
      BY <1>6 DEF adminSupportTicketRoute, OpenStatus
    <2>2. "open" \in OpenStatus \cup {"closed"}
      BY DEF OpenStatus
    <2>3. ASSUME \E to \in Assignable \cup {0} : AssignTicket(t, to) PROVE SupportStep
      BY <1>0, <2>2, <2>3, AdminSteps
    <2>4. ASSUME \E status \in OpenStatus \cup {"closed"} : SetTicketStatus(t, status) PROVE SupportStep
      BY <1>0, <2>4, AdminSteps
    <2>5. ASSUME AddTicketNote(req[c].by.actor, t) \/ SetTicketPriority(t) PROVE SupportStep
      BY <1>0, <2>2, <2>5, AdminSteps
    <2>6. SupportStep
      BY <2>1, <2>3, <2>4, <2>5
    <2> QED BY <1>6, <2>6, Ends, SupportAlone DEF adminSupportTicketRoute
  <1> QED BY <1>1, <1>2, <1>3, <1>4, <1>5, <1>6 DEF Support

\* The operator, sessions that end, the pipeline, new requests, the hourly job and time.
LEMMA OthersKeep ==
  ASSUME CInv,
         \/ \E i \in AdminIds : adminSetupBegin(i) \/ adminctl(i)
         \/ \E s \in AdminSessions : adminLogout(s)
         \/ releaseCandidateIngest
         \/ \E t \in Requests, a \in Customers \cup {0} : createSupportRequest(t, a)
         \/ Purge \/ AutoClose \/ Time
  PROVE  StepKeeps
  <1>0. AInv /\ RInv /\ TInv /\ LInv
    BY DEF CInv
  <1>1. ASSUME NEW i \in AdminIds, adminSetupBegin(i) PROVE StepKeeps
    <2>1. admins' = [admins EXCEPT ![i].link = "opened"] /\ UNCHANGED adminSessions
      BY <1>1 DEF adminSetupBegin, SetupDetails
    <2>2. adminSessions' \in [AdminSessions -> SessionRows]
      BY <1>0, <2>1 DEF AInv, SessionRows
    <2>3. AInv'
      BY <1>0, <2>1, <2>2, ColumnAInv
    <2>4. RequestStep
      BY <1>1 DEF adminSetupBegin, RequestStep
    <2> QED BY <1>1, <2>3, <2>4, AdminsAlone DEF adminSetupBegin
  <1>2. ASSUME NEW i \in AdminIds, adminctl(i) PROVE StepKeeps
    <2>1. AInv'
      BY <1>0, <1>2, BootstrapAInv, ResetSetupAInv DEF adminctl
    <2>2. RequestStep
      BY <1>2 DEF adminctl, RequestStep
    <2> QED BY <1>2, <2>1, <2>2, AdminsAlone DEF adminctl
  <1>3. ASSUME NEW s \in AdminSessions, adminLogout(s) PROVE StepKeeps
    <2>1. /\ UNCHANGED admins
          /\ adminSessions' = [adminSessions EXCEPT ![s] = NoAdminSession] \/ UNCHANGED adminSessions
      BY <1>3 DEF adminLogout, DeleteSession
    <2>2. adminSessions' \in [AdminSessions -> SessionRows]
      BY <1>0, <2>1, SessionMarks
    <2>3. AInv'
      BY <1>0, <2>1, <2>2, ColumnAInv
    <2>4. RequestStep
      BY <1>3 DEF adminLogout, RequestStep
    <2> QED BY <1>3, <2>3, <2>4, AdminsAlone DEF adminLogout
  <1>4. CASE releaseCandidateIngest
    <2>1. PICK q \in Releases, set \in Candidates : AcceptReleaseCandidate(q, set)
      BY <1>4 DEF releaseCandidateIngest
    <2>2. ReleaseStep /\ UNCHANGED <<tickets, redirects, publications>>
      BY <1>0, <2>1, AcceptStep DEF AcceptReleaseCandidate
    <2>3. UNCHANGED req /\ UNCHANGED <<adminVars, supportVars>>
      BY <1>4 DEF releaseCandidateIngest
    <2>4. QInv'
      BY <2>2, <2>3, RequestsFit DEF CInv
    <2>5. CommandsFollow
      BY <2>3 DEF CommandsFollow, Is, Idle
    <2> QED BY <2>2, <2>3, <2>4, <2>5, Quiet DEF StepKeeps
  <1>5. ASSUME NEW t \in Requests, NEW a, createSupportRequest(t, a) PROVE StepKeeps
    <2>1. SupportStep
      BY <1>0, <1>5, CreateRequestStep DEF createSupportRequest
    <2>2. RequestStep
      BY <1>5 DEF createSupportRequest, RequestStep
    <2> QED BY <1>5, <2>1, <2>2, SupportAlone DEF createSupportRequest
  <1>6. CASE Purge
    <2>1. AInv'
      BY <1>0, <1>6, PurgeLinksAInv DEF Purge
    <2>2. /\ tickets' = [k \in Customers \X Keys |-> IF tickets[k].state = "open" THEN tickets[k] ELSE NoTicket]
          /\ UNCHANGED <<releases, redirects, publications>>
      BY <1>6 DEF Purge, PurgeTickets
    <2>3. /\ tickets' = [k \in Customers \X Keys |-> tickets'[k]]
          /\ \A k \in Customers \X Keys : tickets'[k] \in {tickets[k], NoTicket}
      BY <2>2
    <2>4. TInv'
      BY <1>0, <2>2, <2>3, DropTicketsTInv
    <2>5. SupportStep
      BY <1>0, <1>6, PurgeStep DEF Purge
    <2>6. RequestStep
      BY <1>6 DEF Purge, RequestStep
    <2> QED BY <2>1, <2>2, <2>4, <2>5, <2>6, OtherStores, Quiet
  <1>7. CASE AutoClose
    <2>1. SupportStep
      BY <1>0, <1>7, AutoCloseStep DEF AutoClose
    <2>2. RequestStep
      BY <1>7 DEF AutoClose, RequestStep
    <2> QED BY <1>7, <2>1, <2>2, SupportAlone DEF AutoClose
  <1>8. CASE Time
    <2>1. RequestStep
      BY <1>8 DEF Time, AdminTime, RequestStep
    <2>2. CASE AdminTime
      <3>1. CASE /\ UNCHANGED admins
                 /\ \E s \in AdminSessions :
                      \/ adminSessions' = [adminSessions EXCEPT ![s] = NoAdminSession]
                      \/ adminSessions' = [adminSessions EXCEPT ![s].recent = FALSE]
        <4>1. adminSessions' \in [AdminSessions -> SessionRows]
          BY <1>0, <3>1, SessionMarks
        <4>2. AInv'
          BY <1>0, <3>1, <4>1, ColumnAInv
        <4> QED BY <2>1, <2>2, <4>2, AdminsAlone DEF AdminTime
      <3>2. CASE (\E i \in AdminIds : admins' = [admins EXCEPT ![i].link = "none"]) /\ UNCHANGED adminSessions
        <4>1. adminSessions' \in [AdminSessions -> SessionRows]
          BY <1>0, <3>2 DEF AInv, SessionRows
        <4>2. AInv'
          BY <1>0, <3>2, <4>1, ColumnAInv
        <4> QED BY <2>1, <2>2, <4>2, AdminsAlone DEF AdminTime
      <3> QED BY <2>2, <3>1, <3>2 DEF AdminTime
    <2>3. CASE (\E k \in Customers \X Keys : TicketExpires(k)) /\ UNCHANGED <<adminVars, supportVars, req, sweep>>
      <3>1. PICK k \in Customers \X Keys : TicketExpires(k)
        BY <2>3
      <3>2. TInv'
        BY <1>0, <3>1, TicketExpiresTInv
      <3>3. UNCHANGED <<releases, publications>>
        BY <3>1 DEF TicketExpires
      <3> QED BY <2>1, <2>3, <3>2, <3>3, OtherStores, Quiet
    <2>4. CASE UNCHANGED <<adminVars, releases, customers, tickets, redirects, publications, flags, supportVars, req, sweep>>
      <3>1. UNCHANGED releases /\ UNCHANGED adminVars /\ UNCHANGED supportVars
            /\ UNCHANGED <<tickets, redirects>> /\ UNCHANGED publications
        BY <2>4
      <3> QED BY <2>1, <3>1, OtherStores, Quiet
    <2>5. CASE /\ (\E t \in Requests : RequestAges(t)) \/ (\E l \in Links : LinkExpires(l))
               /\ UNCHANGED <<adminVars, releaseVars, req, sweep>>
      <3>1. SupportStep
        BY <1>0, <2>5, AgeSteps
      <3>2. UNCHANGED <<adminVars, releaseVars>>
        BY <2>5
      <3> QED BY <2>1, <3>1, <3>2, SupportAlone
    <2> QED BY <1>8, <2>2, <2>3, <2>4, <2>5 DEF Time
  <1> QED BY <1>1, <1>2, <1>3, <1>4, <1>5, <1>6, <1>7, <1>8

-----------------------------------------------------------------------------
(* The theorems *)

\* The server starts with no rows.
LEMMA InitCInv ==
  ASSUME Init
  PROVE  CInv
  <1>1. AInv
    <2>1. \A i \in AdminIds : admins[i] = NoAdmin
      BY DEF Init
    <2>2. SuperStays
      BY <2>1, BlankAdmin DEF SuperStays, Exists
    <2>3. adminSessions \in [AdminSessions -> [admin : AdminIds \cup {0}, recent : BOOLEAN]]
      BY DEF Init, NoAdminSession
    <2>4. admins = [i \in AdminIds |-> admins[i]]
      BY DEF Init
    <2> QED BY <2>1, <2>2, <2>3, <2>4, BlankAdmin DEF AInv
  <1>2. RInv
    <2>1. NoRelease \in ReleaseRows /\ NoRelease.kill = FALSE
      BY DEF NoRelease, ReleaseRows
    <2> QED BY <2>1 DEF Init, RInv
  <1>3. TInv
    <2>1. /\ \A k \in Customers \X Keys : tickets[k] = NoTicket
          /\ tickets = [k \in Customers \X Keys |-> tickets[k]]
          /\ redirects \in [Tokens -> {0, 1}]
      BY DEF Init
    <2> QED BY <2>1, BlankTicket DEF TInv
  <1>4. PInv
    <2>1. /\ NoPublication \in PackageRows /\ NoPublication.revision = 0
          /\ \A s \in StateSet : NoPublication.evidence[s] = "none"
      BY DEF NoPublication, PackageRows
    <2> QED BY <2>1, StateFacts DEF Init, PInv
  <1>5. LInv
    <2>1. RequestRow(NoRequest)
      BY DEF NoRequest, RequestRow, RequestFields
    <2>2. /\ links \in [Links -> Requests \cup {0}] /\ \A l \in Links : links[l] = 0
          /\ requests = [t \in Requests |-> requests[t]] /\ \A t \in Requests : requests[t] = NoRequest
      BY DEF Init
    <2>3. LinksOpenRequests
      BY <2>2 DEF LinksOpenRequests
    <2> QED BY <2>1, <2>2, <2>3 DEF LInv
  <1>6. QInv
    BY IdleOK DEF Init, QInv
  <1> QED BY <1>1, <1>2, <1>3, <1>4, <1>5, <1>6 DEF CInv

\* Every step keeps the invariant, and does to the stores what it may.
LEMMA NextKeeps ==
  ASSUME CInv, [Next]_vars
  PROVE  CInv' /\ StepKeeps
  <1>1. StepKeeps
    <2>1. CASE UNCHANGED vars
      <3>1. UNCHANGED <<adminVars, releaseVars, supportVars>> /\ UNCHANGED req
        BY <2>1 DEF vars
      <3>2. RequestStep
        BY <3>1 DEF RequestStep
      <3> QED BY <3>1, <3>2, ReadsOnly
    <2>2. ASSUME NEW c \in Clients, Abandon(c) PROVE StepKeeps
      BY <2>2, Ends, ReadsOnly DEF Abandon
    <2>3. CASE Next
      BY <2>2, <2>3, SignInKeeps, ManageKeeps, ReleaseKeeps, DeliverKeeps, SupportKeeps, OthersKeep DEF Next
    <2> QED BY <2>1, <2>3
  <1> QED BY <1>1 DEF StepKeeps, ReleaseStep, PackageStep, SupportStep, CInv

\* CInv holds in every reachable state, and every step does to the stores what it may.
THEOREM ConsoleInvariant == Spec => []CInv /\ [][StepKeeps]_vars
  <1>1. Init => CInv
    BY InitCInv
  <1>2. CInv /\ [Next]_vars => CInv' /\ StepKeeps
    BY NextKeeps
  <1> QED BY <1>1, <1>2, PTL DEF Spec

(***************************************************************************)
(* In every reachable state of the console: once there are administrators,  *)
(* one of them is an active super administrator (ensureActiveSuperRemains); *)
(* a download link led to its artifact once at most                         *)
(* (redeemDownloadTicket); and a support link opens an open request that    *)
(* belongs to no account, which has no other link (support.Close,           *)
(* IssueAccessLink, AttachSupportTicket).                                   *)
(***************************************************************************)
THEOREM ConsoleSafe == Spec => [](SuperStays /\ TicketOnce /\ LinksOpenRequests)
  <1>1. CInv => SuperStays /\ TicketOnce /\ LinksOpenRequests
    <2> SUFFICES ASSUME CInv PROVE SuperStays /\ TicketOnce /\ LinksOpenRequests
      OBVIOUS
    <2>1. SuperStays /\ LinksOpenRequests
      BY DEF CInv, AInv, LInv
    <2>2. TicketOnce
      BY DEF CInv, TInv, TicketOnce
    <2> QED BY <2>1, <2>2
  <1> QED BY <1>1, ConsoleInvariant, PTL

\* What a version consists of is settled when its candidate is accepted, and a release
\* that was stopped or withdrawn is never offered again (AcceptReleaseCandidate,
\* applyReleaseCommand).
THEOREM ReleasesSettled == Spec => ReleaseHistory
  <1>1. StepKeeps =>
          \A r \in Releases :
            /\ releases[r].status # "none" => releases'[r].set = releases[r].set
            /\ releases[r].kill => r \notin publishedReleases'
    BY DEF StepKeeps, ReleaseStep
  <1> QED BY <1>1, ConsoleInvariant, PTL DEF ReleaseHistory

\* A command changes a release only from the row its administrator was looking at
\* (expectedManifestRevision, and the trigger that counts revisions).
THEOREM CommandsFollowed == Spec => CommandsFollowView
  <1>1. StepKeeps =>
          \A c \in Clients :
            Is(c, "release") /\ req'[c] = Idle /\ releases' # releases => releases[req[c].release] = req[c].seen
    BY DEF StepKeeps, CommandsFollow
  <1> QED BY <1>1, ConsoleInvariant, PTL DEF CommandsFollowView

\* A package's record moves one state at a time, each time with the next revision, and
\* what was recorded of a state stays (TransitionExtensionPublication).
THEOREM PackagesRecorded == Spec => PublicationHistory
  <1>1. StepKeeps =>
          \A p \in Publications :
            LET was == publications[p] is == publications'[p]
            IN  /\ \A s \in StateSet : was.evidence[s] # "none" => is.evidence[s] = was.evidence[s]
                /\ is # was => is.revision = was.revision + 1 /\ (was.status = "none" \/ Follows(was.status, is.status))
    BY DEF StepKeeps, PackageStep
  <1> QED BY <1>1, ConsoleInvariant, PTL DEF PublicationHistory

\* The hourly job closes only a request that waits without activity at that moment
\* (autoCloseWaitingSupportRequests).
THEOREM AnswersHeard == Spec => AnswerKeepsOpen
  <1>1. StepKeeps =>
          \A t \in Requests :
            ~requests[t].bySystem /\ requests'[t].bySystem => requests[t].status = "waiting" /\ requests[t].stale
    BY DEF StepKeeps, SupportStep
  <1> QED BY <1>1, ConsoleInvariant, PTL DEF AnswerKeepsOpen
=============================================================================
