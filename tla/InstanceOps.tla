----------------------------- MODULE InstanceOps -----------------------------
(***************************************************************************)
(* The processes that share the data directory of a self-hosted server: the *)
(* server with its backup job, the restore command, and the commands that   *)
(* take no instance lock (internal/selfhost/ops, cmd/sesame-server).        *)
(*                                                                          *)
(* A database is the key that seals its owners' sign-in secrets (0: no      *)
(* owner yet) and its schema version; the secrets directory is its key.     *)
(* The configuration file goes with them and is left out.  A backup reads   *)
(* the database and the secrets in separate steps and publishes the archive *)
(* under a name nobody has, by a hard link.  A restore moves both items out *)
(* and the new ones in, one by one; what a crash leaves is rolled back by   *)
(* the next process that takes the lock (RestoreJournal has the journal).   *)
(***************************************************************************)
EXTENDS Integers, FiniteSets

CONSTANTS Keep,         \* archives of a kind the rotation keeps
          Commands,     \* processes of the backup command
          MaxClock, MaxCount, MaxArchives, MaxTurns, MaxCrashes, MaxRotten  \* bounds

ASSUME OpsAssumption ==
  /\ Keep \in Nat \ {0} /\ "job" \notin Commands
  /\ {MaxClock, MaxCount, MaxArchives, MaxTurns, MaxCrashes, MaxRotten} \subseteq Nat

VARIABLES database,
          keys,             \* the secrets directory: its key, 0: no directory, -1: no key in it
          archives,         \* name -> archive, for every file in backups/
          clock,            \* seconds, which never go back
          binary,           \* schema version of the installed release
          lock,             \* who holds the instance lock
          server,           \* [at, version]: the server process
          work,             \* the backup under way in each process
          swap,             \* the restore under way, or what a crash left of it
          turns,            \* commands of the operator so far
          crashes

opsVars == <<database, keys, archives, clock, binary, lock, server, work, swap, turns, crashes>>

NoDatabase == [key |-> 0, schema |-> 0]
\* phase: how far the items have moved; met: a server has started on what a crash left.
NoSwap == [at |-> "none", phase |-> "staged", new |-> <<>>, old |-> <<>>, met |-> FALSE]
Swap(at, a, old) == [at |-> at, phase |-> "staged", new |-> a, old |-> old, met |-> swap.met]
Unswapped == [NoSwap EXCEPT !.met = swap.met]
Releases == 1..2
Procs == {"job"} \cup Commands
Kinds == {"scheduled", "premigration", "manual"}
Name(kind, v, count) == [kind |-> kind, v |-> v, stamp |-> clock, count |-> count]
Published(n) == n \in DOMAIN archives

\* An archive of another instance, brought here by the operator.
Foreign == [database |-> [key |-> 2, schema |-> 1], keys |-> 2, state |-> "whole"]

Turn == turns < MaxTurns /\ turns' = turns + 1

-----------------------------------------------------------------------------
(* Archives *)

\* extractArchive accepts what is as it was written.
extractArchive(a) == a.state = "whole"

\* The manifest of a file damaged behind it can still be read.
peekManifest(a) == a.state # "headless"

\* Mutant: the archive's secrets are read and not tried on its database.
SecretsRead(a) == a.keys # 0

\* The archive's key opens the sign-in secret of every owner in its database.
verifyOwnerSecrets(a) == a.database.key \in {0, a.keys}

inspect(a) == a.database.schema \in 1..binary /\ verifyOwnerSecrets(a)

verifyArchive(a) == extractArchive(a) /\ inspect(a)

ownedBackups(kind) == {n \in DOMAIN archives : n.kind = kind /\ peekManifest(archives[n])}

Later(m, n) == m.stamp > n.stamp \/ (m.stamp = n.stamp /\ m.count > n.count)

\* owned[keep:], newest first.
Stale(kind) == {n \in ownedBackups(kind) : Cardinality({m \in ownedBackups(kind) : Later(m, n)}) >= Keep}

\* A file that cannot be removed is left and reported.
Rotate ==
  \E gone \in SUBSET (Stale("scheduled") \cup Stale("premigration")) :
    archives' = [n \in DOMAIN archives \ gone |-> archives[n]]

\* The first scheduled backup is due at once, the next an interval of one second later.
untilDue == \A n \in ownedBackups("scheduled") : clock >= n.stamp + 1

-----------------------------------------------------------------------------
(* A backup, in whichever process *)

Resting == [at |-> "idle"]
Begin(p, name) == work' = [work EXCEPT ![p] = [at |-> "begun", name |-> name]]

\* Nothing is published under a name that is taken: the job tries the next one, a
\* command gives up.
NameTaken(p) ==
  LET name == work[p].name
  IN  work' = [work EXCEPT ![p] =
        IF p = "job" /\ name.count < MaxCount THEN [at |-> "begun", name |-> [name EXCEPT !.count = @ + 1]]
        ELSE [at |-> "failed", name |-> name]]

backup(p) ==
  /\ work[p].at = "begun"
  /\ IF Published(work[p].name) THEN NameTaken(p)
     ELSE /\ database # NoDatabase
          /\ work' = [work EXCEPT ![p] = [at |-> "snapshot", name |-> @.name, database |-> database]]
  /\ UNCHANGED <<database, keys, archives, clock, binary, lock, server, swap, turns, crashes>>

writeArchive(snapshot, secrets) == [database |-> snapshot, keys |-> secrets, state |-> "whole"]

gatherSources(p) ==
  /\ work[p].at = "snapshot" /\ keys > 0
  /\ work' = [work EXCEPT ![p] = [at |-> "written", name |-> @.name, archive |-> writeArchive(@.database, keys)]]
  /\ UNCHANGED <<database, keys, archives, clock, binary, lock, server, swap, turns, crashes>>

Files(name, archive) == [n \in DOMAIN archives \cup {name} |-> IF n = name THEN archive ELSE archives[n]]

\* Mutant: the archive takes its place by a rename, over whatever is there.
PublishOver(p) ==
  /\ archives' = Files(work[p].name, work[p].archive)
  /\ work' = [work EXCEPT ![p] = IF p = "job" THEN [at |-> "published", name |-> @.name] ELSE Resting]

publishNoReplace(p) ==
  IF Published(work[p].name) THEN NameTaken(p) /\ UNCHANGED archives
  ELSE /\ archives' = Files(work[p].name, work[p].archive)
       /\ work' = [work EXCEPT ![p] = IF p = "job" THEN [at |-> "published", name |-> @.name] ELSE Resting]

\* The archive is written aside, read back and published.
writeArchiveFile(p) ==
  /\ work[p].at = "written" /\ Cardinality(DOMAIN archives) < MaxArchives
  /\ publishNoReplace(p)
  /\ UNCHANGED <<database, keys, clock, binary, lock, server, swap, turns, crashes>>

\* RunOnce and PreMigration end alike, and the server goes on to open its database.
jobRotates ==
  /\ work["job"].at = "published"
  /\ Rotate
  /\ work' = [work EXCEPT !["job"] = Resting]
  /\ server' = IF server.at = "saving" THEN [server EXCEPT !.at = "opening"] ELSE server
  /\ UNCHANGED <<database, keys, clock, binary, lock, swap, turns, crashes>>

\* Any step may fail; a file that is not there fails it.
backupFails(p) ==
  /\ work[p].at \in {"begun", "snapshot", "written", "failed"}
  /\ work' = [work EXCEPT ![p] = Resting]
  /\ IF p = "job" /\ server.at = "saving" THEN server' = [server EXCEPT !.at = "off"] /\ lock' = "none"
     ELSE UNCHANGED <<server, lock>>
  /\ UNCHANGED <<database, keys, archives, clock, binary, swap, turns, crashes>>

\* The backup command takes no lock.
runBackup(p) ==
  /\ p \in Commands /\ work[p] = Resting /\ Turn
  /\ Begin(p, Name("manual", 0, 0))
  /\ UNCHANGED <<database, keys, archives, clock, binary, lock, server, swap, crashes>>

\* The job's next round.
Run ==
  /\ server.at = "up" /\ work["job"] = Resting /\ untilDue
  /\ Begin("job", Name("scheduled", 0, 0))
  /\ UNCHANGED <<database, keys, archives, clock, binary, lock, server, swap, turns, crashes>>

-----------------------------------------------------------------------------
(* The server *)

AcquireInstanceLock == lock = "none"

\* The journal is there from the first item that moves.
Journal == swap.phase # "staged"

\* recoverLocked, for a process that has the lock: what was moved in goes, and an old
\* item comes back unless something is in its place.
RolledBack ==
  LET left == swap.at = "left"
  IN  [database |-> IF left /\ (swap.phase = "half" \/ database = NoDatabase) THEN swap.old.database ELSE database,
       keys |-> IF left /\ keys = 0 THEN swap.old.keys ELSE keys]

\* serve finishes an interrupted restore under the lock, and lets go of it.
Recover ==
  /\ server.at = "off" /\ Turn
  /\ Journal => AcquireInstanceLock
  /\ database' = RolledBack.database /\ keys' = RolledBack.keys
  /\ swap' = IF swap.at = "left" THEN Unswapped ELSE swap
  /\ server' = [at |-> "starting", version |-> binary]
  /\ UNCHANGED <<archives, clock, binary, lock, work, crashes>>

storedSchemaVersion == database.schema

\* New secrets are made only where there is no database; their directory in any case.
LoadOrCreate ==
  keys' = IF keys > 0 THEN keys ELSE IF database = NoDatabase THEN 1 + 2 * crashes ELSE -1

\* Mutant: one schema version behind counts as current.
PreMigrationOfTwo ==
  IF storedSchemaVersion \in 1..(server.version - 2)
  THEN server' = [server EXCEPT !.at = "saving"] /\ Begin("job", Name("premigration", database.schema, 0))
  ELSE server' = [server EXCEPT !.at = "opening"] /\ UNCHANGED work

\* A backup first where the release migrates.
PreMigration ==
  IF storedSchemaVersion \in 1..(server.version - 1)
  THEN server' = [server EXCEPT !.at = "saving"] /\ Begin("job", Name("premigration", database.schema, 0))
  ELSE server' = [server EXCEPT !.at = "opening"] /\ UNCHANGED work

serve ==
  /\ server.at = "starting"
  /\ IF AcquireInstanceLock THEN LoadOrCreate ELSE UNCHANGED keys
  /\ IF AcquireInstanceLock /\ keys' > 0
     THEN lock' = "server" /\ PreMigration
     ELSE server' = [server EXCEPT !.at = "off"] /\ UNCHANGED <<lock, work>>
  /\ swap' = IF swap.at = "left" /\ AcquireInstanceLock THEN [swap EXCEPT !.met = TRUE] ELSE swap
  /\ UNCHANGED <<database, archives, clock, binary, turns, crashes>>

\* A release opens a database of its own schema or an older one, which it migrates.
migrate(version) ==
  /\ database.schema <= version
  /\ database' = [database EXCEPT !.schema = version]

openStore ==
  /\ server.at = "opening"
  /\ \/ migrate(server.version) /\ server' = [server EXCEPT !.at = "up"] /\ UNCHANGED lock
     \/ database.schema > server.version /\ server' = [server EXCEPT !.at = "off"] /\ lock' = "none" /\ UNCHANGED database
  /\ UNCHANGED <<keys, archives, clock, binary, work, swap, turns, crashes>>

\* The first owner's sign-in secret is sealed with the server's key.
FirstOwner ==
  /\ server.at = "up" /\ database.key = 0
  /\ database' = [database EXCEPT !.key = keys]
  /\ UNCHANGED <<keys, archives, clock, binary, lock, server, work, swap, turns, crashes>>

\* Mutant: the lock is let go of with the backup job still running.
StopUnwaited ==
  /\ server.at # "off"
  /\ server' = [server EXCEPT !.at = "off"]
  /\ lock' = IF server.at = "starting" THEN lock ELSE "none"
  /\ UNCHANGED <<database, keys, archives, clock, binary, work, swap, turns, crashes>>

\* A shutdown, a failed start and a crash: the job goes with the process, and what it
\* had not published.
Stop ==
  /\ server.at # "off"
  /\ server' = [server EXCEPT !.at = "off"]
  /\ lock' = IF server.at = "starting" THEN lock ELSE "none"
  /\ work' = [work EXCEPT !["job"] = Resting]
  /\ UNCHANGED <<database, keys, archives, clock, binary, swap, turns, crashes>>

-----------------------------------------------------------------------------
(* Commands *)

\* "owner reset" and "updates reset-sequence" open the database without the lock, and
\* make one where there is none.
HostCommand ==
  /\ keys > 0 /\ Turn
  /\ migrate(binary)
  /\ UNCHANGED <<keys, archives, clock, binary, lock, server, work, swap, crashes>>

Restore(a) ==
  /\ Turn /\ AcquireInstanceLock /\ swap.at # "running"
  /\ database' = RolledBack.database /\ keys' = RolledBack.keys
  /\ IF verifyArchive(a)
     THEN lock' = "restore" /\ swap' = Swap("running", a, RolledBack)
     ELSE swap' = Unswapped /\ UNCHANGED lock
  /\ UNCHANGED <<archives, clock, binary, server, work, crashes>>

Moves(from, to) ==
  /\ swap.at = "running" /\ swap.phase = from
  /\ swap' = [swap EXCEPT !.phase = to]
  /\ UNCHANGED <<archives, clock, binary, lock, server, work, turns, crashes>>

DatabaseOut == Moves("staged", "moving") /\ database' = NoDatabase /\ UNCHANGED keys
SecretsOut == Moves("moving", "out") /\ keys' = 0 /\ UNCHANGED database
DatabaseIn == Moves("out", "half") /\ database' = swap.new.database /\ UNCHANGED keys

SecretsIn ==
  /\ swap.at = "running" /\ swap.phase = "half"
  /\ keys' = swap.new.keys
  /\ swap' = Unswapped /\ lock' = "none"
  /\ UNCHANGED <<database, archives, clock, binary, server, work, turns, crashes>>

RestoreCrashes ==
  /\ swap.at = "running" /\ crashes < MaxCrashes
  /\ crashes' = crashes + 1 /\ lock' = "none"
  /\ swap' = IF Journal THEN [swap EXCEPT !.at = "left"] ELSE Unswapped
  /\ UNCHANGED <<database, keys, archives, clock, binary, server, work, turns>>

Tick ==
  /\ clock < MaxClock /\ clock' = clock + 1
  /\ UNCHANGED <<database, keys, archives, binary, lock, server, work, swap, turns, crashes>>

Install ==
  /\ binary' \in Releases \ {binary} /\ Turn
  /\ UNCHANGED <<database, keys, archives, clock, lock, server, work, swap, crashes>>

\* An archive loses its end, or its beginning with the manifest.
Rot ==
  /\ Cardinality({n \in DOMAIN archives : ~extractArchive(archives[n])}) < MaxRotten
  /\ \E n \in DOMAIN archives, s \in {"tail", "headless"} : archives' = [archives EXCEPT ![n].state = s]
  /\ UNCHANGED <<database, keys, clock, binary, lock, server, work, swap, turns, crashes>>

OpsInit ==
  /\ database = NoDatabase /\ keys = 0 /\ archives = [n \in {} |-> <<>>]
  /\ clock = 0 /\ binary = 1 /\ lock = "none" /\ server = [at |-> "off", version |-> 1]
  /\ work = [p \in Procs |-> Resting] /\ swap = NoSwap /\ turns = 0 /\ crashes = 0

Archived == {archives[n] : n \in DOMAIN archives}

OpsNext ==
  \/ \E p \in Procs : backup(p) \/ gatherSources(p) \/ writeArchiveFile(p) \/ backupFails(p) \/ runBackup(p)
  \/ Run \/ jobRotates
  \/ Recover \/ serve \/ openStore \/ FirstOwner \/ Stop
  \/ HostCommand
  \/ \E a \in Archived \cup {Foreign} : Restore(a)
  \/ DatabaseOut \/ SecretsOut \/ DatabaseIn \/ SecretsIn \/ RestoreCrashes
  \/ Tick \/ Install \/ Rot

-----------------------------------------------------------------------------
(***************************************************************************)
(* Whatever was backed up and restored in which order, and while which      *)
(* other command ran, outside a swap the secrets in place open the sign-in  *)
(* secrets of the owners in the database (SELF-HOSTING.md, "A restore       *)
(* refuses a database whose secrets do not match").  The exception: a       *)
(* server that, after its own recovery and before it has the lock again,    *)
(* was overtaken by a restore that crashed, and started on what it left.    *)
(***************************************************************************)
SecretsOpenDatabase == ~Journal /\ ~swap.met => database.key \in {0, keys}

(***************************************************************************)
(* A backup the server makes of itself, scheduled or before a migration,    *)
(* pairs a database with the secrets that open it, because no restore runs  *)
(* under its lock; one of the backup command, which takes no lock, may mix  *)
(* the two sides of a restore.  The exception is that of                    *)
(* SecretsOpenDatabase.                                                     *)
(***************************************************************************)
ServerBackupsMatch ==
  ~swap.met => \A n \in DOMAIN archives : n.kind # "manual" => archives[n].database.key \in {0, archives[n].keys}

(***************************************************************************)
(* A server that migrates a database with owners leaves a backup of it at   *)
(* the schema it had, which the rotation of that start did not take         *)
(* (SELF-HOSTING.md, "the server first writes a backup named                *)
(* sesame-premigration-").                                                  *)
(***************************************************************************)
MigratedIsBackedUp ==
  [][server.at = "opening" /\ server'.at = "up" /\ database.key # 0 /\ database' # database =>
       \E n \in DOMAIN archives : n.kind = "premigration" /\ archives[n].database = database]_opsVars

(***************************************************************************)
(* A published archive is never written over, a manual one never removed,   *)
(* and another one only when Keep newer ones of its kind stay.              *)
(***************************************************************************)
ArchivesStay ==
  [][\A n \in DOMAIN archives :
       IF n \in DOMAIN archives' THEN <<archives'[n].database, archives'[n].keys>> = <<archives[n].database, archives[n].keys>>
       ELSE n.kind # "manual" /\ Cardinality({m \in DOMAIN archives' : m.kind = n.kind /\ Later(m, n)}) >= Keep]_opsVars
=============================================================================
