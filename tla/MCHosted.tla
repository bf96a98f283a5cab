------------------------------ MODULE MCHosted ------------------------------
(* The instance of HostedRequests that TLC checks. *)
EXTENDS HostedRequests, TLC

CONSTANT MaxInUse  \* bound of the rows, suspensions and refused betas at one time, one less while requests are under way

Symmetry == Permutations(Clients)

NoInvitation ==
  /\ eligibility = [e \in Emails |-> "none"]
  /\ invites = [i \in InviteIds |-> [state |-> "used", email |-> CHOOSE e \in Emails : TRUE]]

\* Every account is registered, verified or not, with a hash of an earlier release.
Registered ==
  /\ \E isVerified \in BOOLEAN :
       accounts = [a \in AccountIds |-> [NoAccount EXCEPT !.state = "live", !.email = CHOOSE e \in Emails : TRUE,
                                                          !.hash = 1, !.verified = isVerified, !.beta = TRUE]]
  /\ hashes = 1
  /\ NoInvitation

Unregistered ==
  /\ accounts = [a \in AccountIds |-> NoAccount]
  /\ hashes = 0
  /\ eligibility \in [Emails -> {"none", "eligible", "revoked"}]
  /\ invites = [i \in InviteIds |-> [state |-> "none", email |-> ""]]

MCInit ==
  /\ Registered \/ Unregistered
  /\ sessions = [s \in SessionIds |-> NoSession] /\ tokens = {}
  /\ links = [a \in AccountIds |-> NoLink] /\ devices = [d \in DeviceIds |-> NoDevice]
  /\ passkeys = [k \in PasskeyIds |-> NoPasskey] /\ ceremonies = {}
  /\ req = [c \in Clients |-> Idle]

MCSpec == MCInit /\ [][Next]_vars

Used(table, none) == Cardinality({i \in DOMAIN table : table[i] # none})

\* Only a registration reads eligibility and invites, so what follows one is explored
\* from Registered alone.
Limits ==
  /\ Used(sessions, NoSession) + Cardinality(tokens) + Used(links, NoLink) + Used(devices, NoDevice)
       + Used(passkeys, NoPasskey) + Cardinality(ceremonies)
       + Cardinality({a \in AccountIds : accounts[a].suspended})
       + Cardinality({a \in AccountIds : Live(a) /\ ~accounts[a].beta})
     <= IF Used(req, Idle) = 0 THEN MaxInUse ELSE MaxInUse - 1
  /\ Used(accounts, NoAccount) = Cardinality(AccountIds) => NoInvitation
=============================================================================
