---------------------------- MODULE HostedAudit ----------------------------
(***************************************************************************)
(* The hosted server's administrator audit log: rows a trigger chains by    *)
(* hash (migration 0044), and the hourly maintenance of every server, which *)
(* verifies the chain and the checkpoints of its key and signs one more     *)
(* (cmd/api/main.go, internal/admin/audit_chain.go).                        *)
(*                                                                          *)
(* A hash is the sequence of the contents it covers; every row's content is *)
(* unlike any other's.  A signature is what was signed.  Rows and           *)
(* checkpoints change only behind the server's back, in the database.       *)
(***************************************************************************)
EXTENDS Integers, Sequences, FiniteSets, SequencesExt

CONSTANTS Servers,
          CapabilityKeys,  \* the key ids servers are started with
          MaxWritten,      \* bound of the rows ever written
          MaxTampered      \* bound of the changes behind the server's back

ASSUME HostedAuditAssumption == MaxWritten \in Nat /\ MaxTampered \in Nat

VARIABLES rows,         \* sesame_admin_audit_log, by chain_seq
          chainHead,    \* sesame_admin_audit_chain_head
          checkpoints,  \* sesame_admin_audit_checkpoints
          pass,         \* server -> its maintenance pass; signed: the checkpoints of its key when it
                        \* began, since: the changes made by then, found: what the last pass found
          written, tampered

chainVars == <<rows, chainHead, checkpoints, pass, written, tampered>>

NoPass == [at |-> "idle", key |-> "none", since |-> 0, signed |-> {}, left |-> {},
           head |-> [seq |-> 0, hash |-> <<>>], found |-> "nothing"]

\* The trigger, which holds the head's row until its transaction ends.
ChainAdminAuditRow ==
  LET row == [seq |-> chainHead.seq + 1, content |-> written + 1, prev |-> chainHead.hash,
              hash |-> Append(chainHead.hash, written + 1)]
  IN  /\ written < MaxWritten /\ written' = written + 1
      /\ rows' = Append(rows, row)
      /\ chainHead' = [seq |-> row.seq, hash |-> row.hash]
      /\ UNCHANGED <<checkpoints, pass, tampered>>

-----------------------------------------------------------------------------
(* One pass: each read is a statement of its own *)

Step(s, next) ==
  /\ pass' = [pass EXCEPT ![s] = next]
  /\ UNCHANGED <<rows, chainHead, checkpoints, written, tampered>>

Ends(s, found) == [NoPass EXCEPT !.found = found, !.since = pass[s].since, !.signed = pass[s].signed]

Own(key) == {c \in checkpoints : c.key = key}

VerifyAuditChain ==
  \A i \in DOMAIN rows : /\ rows[i].prev = IF i = 1 THEN <<>> ELSE rows[i - 1].hash
                         /\ rows[i].hash = Append(rows[i].prev, rows[i].content)

\* A restart before the pass may have given the server another key.
runMaintenanceOnce(s) ==
  /\ pass[s].at = "idle"
  /\ \E key \in CapabilityKeys :
       Step(s, IF VerifyAuditChain
               THEN [NoPass EXCEPT !.at = "chained", !.key = key, !.since = tampered, !.signed = Own(key)]
               ELSE [NoPass EXCEPT !.found = "broken"])

\* The checkpoints to compare are read once.
ReadCheckpoints(s) ==
  pass[s].at = "chained" /\ Step(s, [pass[s] EXCEPT !.at = "comparing", !.left = Own(pass[s].key)])

\* Mutant: a checkpoint whose row is not there is passed over.
MatchesIfThere(c) ==
  /\ c.signed = [seq |-> c.cover, hash |-> c.hash]
  /\ \A i \in DOMAIN rows : rows[i].seq = c.cover => rows[i].hash = c.hash

Matches(c) ==
  /\ c.signed = [seq |-> c.cover, hash |-> c.hash]
  /\ \E i \in DOMAIN rows : rows[i].seq = c.cover /\ rows[i].hash = c.hash

VerifyAuditCheckpoints(s) ==
  /\ pass[s].at = "comparing" /\ pass[s].left # {}
  /\ LET c == CHOOSE x \in pass[s].left : \A y \in pass[s].left : x.cover <= y.cover
     IN  Step(s, IF Matches(c) THEN [pass[s] EXCEPT !.left = @ \ {c}] ELSE Ends(s, "broken"))

ReadHead(s) ==
  /\ pass[s].at = "comparing" /\ pass[s].left = {}
  /\ Step(s, IF rows = <<>> THEN Ends(s, "ready")
             ELSE [pass[s] EXCEPT !.at = "signing", !.head = [seq |-> Last(rows).seq, hash |-> Last(rows).hash]])

Covered == {c.cover : c \in checkpoints}

\* Checkpoints of every key count.
CompareLast(s) ==
  /\ pass[s].at = "signing"
  /\ Step(s, IF \E n \in Covered : n >= pass[s].head.seq THEN Ends(s, "ready") ELSE [pass[s] EXCEPT !.at = "inserting"])

CheckpointAuditChain(s) ==
  LET head == pass[s].head
  IN  /\ pass[s].at = "inserting"
      /\ checkpoints' = IF head.seq \in Covered THEN checkpoints
                        ELSE checkpoints \cup {[cover |-> head.seq, hash |-> head.hash, key |-> pass[s].key, signed |-> head]}
      /\ pass' = [pass EXCEPT ![s] = Ends(s, "ready")]
      /\ UNCHANGED <<rows, chainHead, written, tampered>>

\* A statement fails, or the pass runs out of its time.
Degraded(s) == pass[s].at # "idle" /\ Step(s, NoPass)

-----------------------------------------------------------------------------
(* Behind the server's back *)

Contents(log) == [i \in DOMAIN log |-> log[i].content]
Chain(contents) ==
  [i \in DOMAIN contents |-> [seq |-> i, content |-> contents[i], prev |-> SubSeq(contents, 1, i - 1), hash |-> SubSeq(contents, 1, i)]]

\* The log is made anew from the contents, and the trigger continues it.
Rechain(contents) ==
  /\ rows' = Chain(contents)
  /\ chainHead' = [seq |-> Len(contents), hash |-> contents]
  /\ UNCHANGED checkpoints

Tamper ==
  /\ tampered < MaxTampered /\ tampered' = tampered + 1
  /\ \/ \E i \in DOMAIN rows :
          \/ rows' = [rows EXCEPT ![i].content = 0] /\ UNCHANGED <<chainHead, checkpoints>>
          \/ rows' = RemoveAt(rows, i) /\ UNCHANGED <<chainHead, checkpoints>>
          \/ Rechain([Contents(rows) EXCEPT ![i] = 0])
          \/ Rechain(SubSeq(Contents(rows), 1, i - 1))
     \/ \E c \in checkpoints, i \in DOMAIN rows :
          /\ c.cover = rows[i].seq /\ c.hash # rows[i].hash
          /\ checkpoints' = (checkpoints \ {c}) \cup {[c EXCEPT !.hash = rows[i].hash]}
          /\ UNCHANGED <<rows, chainHead>>
  /\ UNCHANGED <<pass, written>>

ChainInit ==
  /\ rows = <<>> /\ chainHead = [seq |-> 0, hash |-> <<>>] /\ checkpoints = {}
  /\ pass = [s \in Servers |-> NoPass] /\ written = 0 /\ tampered = 0

ChainNext ==
  \/ ChainAdminAuditRow \/ Tamper
  \/ \E s \in Servers :
       \/ runMaintenanceOnce(s) \/ ReadCheckpoints(s) \/ VerifyAuditCheckpoints(s)
       \/ ReadHead(s) \/ CompareLast(s) \/ CheckpointAuditChain(s) \/ Degraded(s)

-----------------------------------------------------------------------------
(***************************************************************************)
(* What a pass finds is so, whatever rows are written and checkpoints       *)
(* signed by other servers between its statements: it finds the log broken  *)
(* only if someone changed it in the database; and where it finds a log     *)
(* right that nobody has changed since it began, the rows that a checkpoint *)
(* of its key was signed over before it began are there unchanged           *)
(* (DEPLOYMENT.md, "It proves the covered history was not rewritten after   *)
(* the checkpoint").                                                        *)
(***************************************************************************)
PassFindsRight ==
  \A s \in Servers :
    /\ pass[s].found = "broken" => tampered > 0
    /\ pass[s].found = "ready" /\ pass[s].since = tampered =>
         \A c \in pass[s].signed :
           c.signed.seq <= Len(rows) /\ SubSeq(Contents(rows), 1, c.signed.seq) = c.signed.hash
=============================================================================
