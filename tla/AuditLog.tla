------------------------------ MODULE AuditLog ------------------------------
(***************************************************************************)
(* The self-hosted server's audit log (internal/selfhost/sqlitestore/       *)
(* audit.go): rows chained by hash, the full check and the incremental one  *)
(* that continues from the row the process verified last, and the pages the *)
(* console and the export read.                                             *)
(*                                                                          *)
(* A hash is the sequence of the contents it covers, so two hashes are      *)
(* equal exactly when they cover the same rows.  The content of a row is    *)
(* its action; actor, target, detail and time are covered with it.          *)
(* Triggers refuse updates and deletes, so rows change only when the        *)
(* database file itself is damaged.                                         *)
(***************************************************************************)
EXTENDS Integers, Sequences, SequencesExt

CONSTANTS MaxRows,    \* bound of the rows ever written
          MaxDamage,  \* bound of the rows damaged in the file
          PageSize    \* exportPageSize

ASSUME AuditAssumption == MaxRows \in Nat /\ MaxDamage \in Nat /\ PageSize \in Nat \ {0}

VARIABLES log,       \* the rows of audit_log, by seq
          verified,  \* Store.auditState
          export,    \* the request reading the log page by page
          damage     \* rows damaged so far

auditVars == <<log, verified, export, damage>>

NoState == [rows |-> 0, headSeq |-> 0, head |-> <<>>, ok |-> TRUE, break |-> 0, known |-> FALSE]
NoExport == [phase |-> "idle", cursor |-> 0, own |-> 0, entries |-> <<>>]

-----------------------------------------------------------------------------
(* Appending and reading *)

Head_ == IF log = <<>> THEN [seq |-> 0, hash |-> <<>>] ELSE Last(log)

appendAudit(action) ==
  LET prev == Head_.hash
  IN  log' = Append(log, [seq |-> Head_.seq + 1, action |-> action, prev |-> prev, hash |-> Append(prev, action)])

\* Newest first; a cursor of 0 starts at the newest row.
Newer(cursor) == Reverse(SelectSeq(log, LAMBDA row : cursor = 0 \/ row.seq < cursor))

ListAudit(cursor) ==
  LET rows == Newer(cursor)
  IN  [entries |-> SubSeq(rows, 1, IF Len(rows) > PageSize THEN PageSize ELSE Len(rows)),
       next |-> IF Len(rows) > PageSize THEN rows[PageSize].seq ELSE 0]

-----------------------------------------------------------------------------
(* Verification *)

\* Mutant: the links are compared and the content is not hashed again.
RowLinkBreak(expectedSeq, expectedPrevious, row) == row.seq # expectedSeq \/ row.prev # expectedPrevious

auditRowBreak(expectedSeq, expectedPrevious, row) ==
  \/ row.seq # expectedSeq
  \/ row.prev # expectedPrevious
  \/ row.hash # Append(row.prev, row.action)

newAuditScan == [rows |-> 0, headSeq |-> 0, head |-> <<>>, ok |-> TRUE, break |-> 0,
                 expectedSeq |-> 1, expectedPrevious |-> <<>>]

resume(state) == [rows |-> state.rows, headSeq |-> state.headSeq, head |-> state.head, ok |-> TRUE, break |-> 0,
                  expectedSeq |-> state.headSeq + 1, expectedPrevious |-> state.head]

fail(scan, seq) == IF scan.ok THEN [scan EXCEPT !.ok = FALSE, !.break = seq] ELSE scan

consume(scan, row) ==
  LET seen == [scan EXCEPT !.rows = @ + 1, !.headSeq = row.seq, !.head = row.hash]
  IN  IF ~scan.ok THEN seen
      ELSE IF auditRowBreak(scan.expectedSeq, scan.expectedPrevious, row) THEN fail(seen, row.seq)
      ELSE [seen EXCEPT !.expectedSeq = @ + 1, !.expectedPrevious = row.hash]

ConsumeAll(scan, rows) == FoldLeft(consume, scan, rows)

\* The head row is checked against the hash remembered for it, then for its content.
scanAudit(scan, fromSeq, verifiedHash) ==
  LET rows == SelectSeq(log, LAMBDA row : row.seq >= fromSeq)
  IN  IF verifiedHash = <<>> THEN ConsumeAll(scan, rows)
      ELSE IF rows = <<>> THEN fail(scan, fromSeq)
      ELSE LET row == Head(rows)
               first == IF row.seq # fromSeq \/ row.hash # verifiedHash
                        THEN consume(fail(scan, fromSeq), row)
                        ELSE IF auditRowBreak(row.seq, row.prev, row) THEN fail(scan, row.seq) ELSE scan
           IN  ConsumeAll(first, Tail(rows))

Result(scan) == [rows |-> scan.rows, headSeq |-> scan.headSeq, head |-> scan.head,
                 ok |-> scan.ok, break |-> scan.break, known |-> TRUE]

FullReport == Result(scanAudit(newAuditScan, 0, <<>>))

\* Mutant: only rows after the head are read; the head row itself is trusted.
ReportPastHead ==
  IF ~verified.known THEN FullReport
  ELSE IF ~verified.ok THEN verified
  ELSE Result(scanAudit(resume(verified), verified.headSeq + 1, <<>>))

IncrementalReport ==
  IF ~verified.known THEN FullReport
  ELSE IF ~verified.ok THEN verified
  ELSE Result(scanAudit(resume(verified), verified.headSeq, verified.head))

VerifyAudit == verified' = FullReport /\ UNCHANGED <<log, export, damage>>

VerifyAuditIncremental == verified' = IncrementalReport /\ UNCHANGED <<log, export, damage>>

\* A new process starts with nothing verified, and a request it was answering is lost.
Restart == verified' = NoState /\ export' = NoExport /\ UNCHANGED <<log, damage>>

-----------------------------------------------------------------------------
(* The export: its own row, then every page, then a full check *)

exportStart ==
  /\ export.phase = "idle" /\ Len(log) < MaxRows
  /\ appendAudit("export.created")
  /\ export' = [phase |-> "paging", cursor |-> 0, own |-> Head_.seq + 1, entries |-> <<>>]
  /\ UNCHANGED <<verified, damage>>

\* Mutant: pages are counted off from the newest row of the moment.
exportPageByOffset ==
  LET rows == Reverse(log)
      from == Len(export.entries) + 1
      to == IF from + PageSize - 1 < Len(rows) THEN from + PageSize - 1 ELSE Len(rows)
  IN  /\ export.phase = "paging"
      /\ export' = [export EXCEPT !.entries = @ \o SubSeq(rows, from, to), !.cursor = 0,
                                  !.phase = IF to = Len(rows) THEN "read" ELSE "paging"]
      /\ UNCHANGED <<log, verified, damage>>

exportPage ==
  LET page == ListAudit(export.cursor)
  IN  /\ export.phase = "paging"
      /\ export' = [export EXCEPT !.entries = @ \o page.entries, !.cursor = page.next,
                                  !.phase = IF page.next = 0 THEN "read" ELSE "paging"]
      /\ UNCHANGED <<log, verified, damage>>

exportFinish ==
  /\ export.phase = "read"
  /\ verified' = FullReport
  /\ export' = NoExport
  /\ UNCHANGED <<log, damage>>

-----------------------------------------------------------------------------
(* The file: a row whose content no longer matches, or a row that is gone *)

Damage ==
  /\ damage < MaxDamage /\ damage' = damage + 1
  /\ \E i \in DOMAIN log :
        \/ log' = [log EXCEPT ![i].action = "damaged"]
        \/ log' = RemoveAt(log, i)
  /\ UNCHANGED <<verified, export>>

AuditInit == log = <<>> /\ verified = NoState /\ export = NoExport /\ damage = 0

AuditNext ==
  \/ VerifyAudit \/ VerifyAuditIncremental \/ Restart
  \/ exportStart \/ exportPage \/ exportFinish
  \/ Damage

-----------------------------------------------------------------------------
(* Properties *)

\* Row i of the rows continues the chain of the rows before it.
Continues(rows, i) ==
  /\ rows[i].seq = i
  /\ rows[i].prev = IF i = 1 THEN <<>> ELSE rows[i - 1].hash
  /\ rows[i].hash = Append(rows[i].prev, rows[i].action)

\* The full check accepts exactly the chains in which every row continues the one
\* before it, and otherwise names the first row that does not; every row is counted.
\* A log whose file was never damaged passes.
FullCheckExact ==
  LET broken == {i \in DOMAIN log : ~Continues(log, i)}
  IN  /\ FullReport.ok <=> broken = {}
      /\ damage = 0 => FullReport.ok
      /\ broken # {} => LET i == CHOOSE x \in broken : \A y \in broken : x <= y
                        IN  FullReport.break = log[i].seq
      /\ FullReport.rows = Len(log)

\* While the rows up to the one verified last are as they were, the incremental check
\* reports what a full check would; and it never accepts a log whose last verified row
\* is changed or gone, or one broken after that row.
IncrementalAgrees ==
  verified.known /\ verified.ok =>
    LET h == verified.headSeq
        kept == /\ h <= Len(log) /\ \A i \in 1..h : Continues(log, i)
                /\ h > 0 => log[h].hash = verified.head
    IN  /\ kept => /\ IncrementalReport.ok = FullReport.ok
                   /\ IncrementalReport.rows = FullReport.rows
                   /\ IncrementalReport.headSeq = FullReport.headSeq
        /\ IncrementalReport.ok /\ h > 0 =>
             \E i \in DOMAIN log : /\ log[i].seq = h /\ log[i].hash = verified.head
                                   /\ log[i].hash = Append(log[i].prev, log[i].action)

\* An export read over several pages, while other requests append rows, holds every row
\* from the first to the newest one of its first page, once each and in order, its own
\* row among them.
ExportWhole ==
  export.phase = "read" /\ damage = 0 =>
    LET rows == Reverse(export.entries)
    IN  /\ export.own <= Len(rows)
        /\ \A i \in DOMAIN rows : rows[i] = log[i]
=============================================================================
