------------------------------- MODULE Storage -------------------------------
(***************************************************************************)
(* The database as files: starting the server (db.ts: create what is       *)
(* missing, copy, migrate), the backup tool (tools/db-backup.ts) beside a  *)
(* running server and its restore beside a stopped one, with a crash       *)
(* between any two steps.                                                  *)
(*                                                                         *)
(* Contents are numbers, one for each state of the data.  Two commands of  *)
(* the tool do not run in the same second, so their file names differ.     *)
(*                                                                         *)
(* Abstracted: the tables; damage of the disk (integrity_check).           *)
(***************************************************************************)
EXTENDS Naturals, Sequences, FiniteSets

CONSTANTS Latest,                          \* LATEST_SCHEMA_VERSION of the newest build
          Keep,                            \* --keep
          MaxWrites, MaxCommands, MaxFaults \* bounds: states of the data; backups and restores; crashes and failed copies

VARIABLES base, wal,        \* the database file and its -wal: content and schema version, or Missing
          groups,           \* groups of tables there are
          server,           \* the build that runs, and where it is
          backups, copies,  \* by stamp: everythingapp-<stamp>.db, .before-restore-<stamp>
          presnap,          \* .pre-v<version>.bak by version
          tool,             \* the command under way
          writes, commands, faults, \* bounds
          saved, replaced, migrated \* history: stamps of finished backups; contents a restore replaced; contents a migration changed, with the copy there was

storageVars == <<base, wal, groups, server, backups, copies, presnap, tool, writes, commands, faults, saved, replaced, migrated>>
bounds == <<writes, commands, faults>>
history == <<saved, replaced, migrated>>
files == <<backups, copies, presnap>>

Image(data, version) == [data |-> data, version |-> version]
Missing == Image(0, 99)
Half == Image(99, 99)         \* a file whose writing was cut off
NoTool == [do |-> "none", at |-> "none", stamp |-> 0, from |-> 0]
Down == [at |-> "down", build |-> 0]
Groups == {"chat", "records"}
Stamps == 1..MaxCommands
Contents == 0..MaxWrites

TypeOK ==
  /\ server.at \in {"down", "create", "copy", "migrate", "up"} /\ server.build \in 0..Latest /\ groups \subseteq Groups
  /\ {base.data, wal.data} \subseteq Contents /\ tool.do \in {"none", "backup", "restore"} /\ tool.at \in {"none", "copy", "check", "stage", "wal", "rename", "prune"}
  /\ (wal # Missing => base # Missing) /\ (server.at = "up" => groups = Groups /\ base.version <= Latest)
  /\ \A s \in Stamps : (backups[s] # Missing \/ copies[s] # Missing) => s <= commands
  /\ replaced \subseteq Contents /\ tool.from \in 0..MaxCommands

Init ==
  /\ base = Missing /\ wal = Missing /\ groups = {} /\ server = Down /\ backups = [s \in Stamps |-> Missing] /\ copies = backups
  /\ presnap = [v \in 0..Latest |-> Missing] /\ tool = NoTool /\ writes = 0 /\ commands = 0 /\ faults = 0 /\ saved = {} /\ replaced = {} /\ migrated = {}

\* What a reader of the database sees: what is committed in the -wal counts.
Current == IF wal # Missing THEN wal ELSE base

-----------------------------------------------------------------------------
(* Starting: openDb, runMigrations *)

Start(b) ==
  /\ server.at = "down" /\ tool.do # "restore" /\ server' = [at |-> "create", build |-> b]
  /\ base' = IF base = Missing THEN Image(0, 0) ELSE base
  /\ UNCHANGED <<wal, groups, files, tool, bounds, history>>

\* Every statement creates what is missing; a crash leaves the rest to the next start.
Baseline ==
  /\ server.at = "create"
  /\ \/ \E g \in Groups \ groups : groups' = groups \cup {g} /\ UNCHANGED server
     \/ groups = Groups /\ UNCHANGED groups
        /\ server' = CASE Current.version > server.build -> Down
                       [] Current.version = server.build -> [server EXCEPT !.at = "up"]
                       [] OTHER -> [server EXCEPT !.at = IF Current.version > 0 \/ Current.data > 0 THEN "copy" ELSE "migrate"]
  /\ UNCHANGED <<base, wal, files, tool, bounds, history>>

\* One copy per version; a copy that fails does not stop the start.
snapshotBeforeMigration ==
  /\ server.at = "copy" /\ server' = [server EXCEPT !.at = "migrate"]
  /\ LET v == Current.version IN
       \/ presnap[v] # Missing /\ UNCHANGED <<presnap, faults>>
       \/ presnap[v] = Missing /\ presnap' = [presnap EXCEPT ![v] = Current] /\ UNCHANGED faults
       \/ presnap[v] = Missing /\ faults < MaxFaults /\ faults' = faults + 1 /\ UNCHANGED presnap
  /\ UNCHANGED <<base, wal, groups, backups, copies, tool, writes, commands, history>>

\* A migration and its number are one transaction.
Migrate ==
  /\ server.at = "migrate" /\ wal' = Image(Current.data, Current.version + 1)
  /\ server' = IF Current.version + 1 = server.build THEN [server EXCEPT !.at = "up"] ELSE server
  /\ migrated' = migrated \cup (IF Current.data > 0 THEN {[data |-> Current.data, copied |-> presnap[Current.version].data]} ELSE {})
  /\ UNCHANGED <<base, groups, files, tool, bounds, saved, replaced>>

Write ==
  /\ server.at = "up" /\ writes < MaxWrites /\ writes' = writes + 1 /\ wal' = Image(writes + 1, Current.version)
  /\ UNCHANGED <<base, groups, server, files, tool, commands, faults, history>>

\* SQLite moves the -wal into the file, at times and when the last connection closes.
Checkpoint ==
  /\ server.at # "down" /\ wal # Missing /\ base' = wal /\ wal' = Missing
  /\ UNCHANGED <<groups, server, files, tool, bounds, history>>

Stop ==
  /\ server.at = "up" /\ server' = Down /\ base' = Current /\ wal' = Missing
  /\ UNCHANGED <<groups, files, tool, bounds, history>>

\* A crash while the copy is written leaves its half.
Crash ==
  /\ server.at # "down" /\ faults < MaxFaults /\ faults' = faults + 1 /\ server' = Down
  /\ \/ UNCHANGED presnap
     \/ server.at = "copy" /\ presnap[Current.version] = Missing /\ presnap' = [presnap EXCEPT ![Current.version] = Half]
  /\ UNCHANGED <<base, wal, groups, backups, copies, tool, writes, commands, history>>

-----------------------------------------------------------------------------
(* The tool *)

Restorable(image) == image \notin {Missing, Half}
Begin(do, at, from) ==
  /\ tool.do = "none" /\ commands < MaxCommands /\ commands' = commands + 1 /\ base # Missing
  /\ tool' = [do |-> do, at |-> at, stamp |-> commands + 1, from |-> from]
  /\ UNCHANGED <<base, wal, groups, server, files, writes, faults, history>>

Backup == Begin("backup", "copy", 0)
\* restoreDatabase, once inspectDatabase accepts the backup; the server is stopped.
Restore ==
  \E s \in Stamps : Restorable(backups[s]) /\ backups[s].version <= Latest /\ server.at = "down" /\ Begin("restore", "copy", s)

SafetyCopy(image) ==
  /\ copies' = [copies EXCEPT ![tool.stamp] = image] /\ tool' = [tool EXCEPT !.at = "stage"]
  /\ replaced' = replaced \cup {Current.data} /\ UNCHANGED <<backups, saved>>
Named == /\ backups' = [backups EXCEPT ![tool.stamp] = Current] /\ saved' = saved \cup {tool.stamp}
         /\ tool' = [tool EXCEPT !.at = "prune"] /\ UNCHANGED <<copies, replaced>>
untouched == UNCHANGED <<base, wal, groups, server, presnap, bounds, migrated>>
CopiedPlain == tool.at = "copy" /\ (IF tool.do = "backup" THEN Named ELSE SafetyCopy(base)) /\ untouched
CopiedInPlace ==
  /\ tool.at = "copy" /\ untouched
  /\ IF tool.do = "restore" THEN SafetyCopy(Current)
     ELSE IF backups[tool.stamp] = Half THEN Named
     ELSE backups' = [backups EXCEPT ![tool.stamp] = Half] /\ UNCHANGED <<copies, tool, saved, replaced>>
\* backupDatabase: the online copy goes to .partial, is inspected, and gets its name at once.
Copied == tool.at = "copy" /\ (IF tool.do = "backup" THEN Named ELSE SafetyCopy(Current)) /\ untouched

Newest(n) == {s \in Stamps : backups[s] # Missing /\ Cardinality({t \in Stamps : t > s /\ backups[t] # Missing}) < n}

\* pruneBackups
Pruned(kept) == [s \in Stamps |-> IF s \in kept THEN backups[s] ELSE Missing]
Prune ==
  /\ tool.at = "prune" /\ backups' = Pruned(Newest(Keep)) /\ tool' = NoTool
  /\ UNCHANGED <<base, wal, groups, server, copies, presnap, bounds, history>>

\* The backup is copied to .restoring, the old -wal removed, and the copy takes the name.
Staged ==
  /\ tool.at = "stage" /\ tool' = [tool EXCEPT !.at = "wal"]
  /\ UNCHANGED <<base, wal, groups, server, files, bounds, history>>
DropNothing == UNCHANGED wal
DropWal == wal' = Missing
RemoveWal ==
  /\ tool.at = "wal" /\ DropWal /\ tool' = [tool EXCEPT !.at = "rename"]
  /\ UNCHANGED <<base, groups, server, files, bounds, history>>
Renamed ==
  /\ tool.at = "rename" /\ base' = backups[tool.from] /\ tool' = NoTool
  /\ UNCHANGED <<wal, groups, server, files, bounds, history>>

ToolCrash ==
  /\ tool.do # "none" /\ faults < MaxFaults /\ faults' = faults + 1 /\ tool' = NoTool
  /\ UNCHANGED <<base, wal, groups, server, files, writes, commands, history>>

-----------------------------------------------------------------------------
Starting == (\E b \in 0..Latest : Start(b)) \/ Baseline \/ snapshotBeforeMigration \/ Migrate
Running == Write \/ Checkpoint \/ Stop \/ Crash
Tool == Backup \/ Restore \/ Copied \/ Prune \/ Staged \/ RemoveWal \/ Renamed \/ ToolCrash
Next == Starting \/ Running \/ Tool
Spec == Init /\ [][Next]_storageVars

-----------------------------------------------------------------------------
(* Properties *)

\* db-backup.ts:99: what a restore replaces is kept, whatever was still in the -wal and wherever the
\* restore is cut off.
NothingReplacedIsLost == \A d \in replaced : \E s \in Stamps : copies[s].data = d

\* A restore that ends leaves exactly the backup, nothing of the old -wal on top of it.
RestoreIsExact == tool.at = "rename" /\ tool'.do = "none" /\ faults' = faults => Current' = backups[tool.from]

\* A file named like a backup can be restored, and --keep deletes none that is not older than those kept.
BackupsAreWhole ==
  \A s \in Stamps : backups[s] # Half /\ (s \in saved /\ backups[s] = Missing => Cardinality({t \in saved : t > s /\ backups[t] # Missing}) >= Keep)

\* db.ts: a database that holds data gets a safety copy before its first pending migration.  It does not
\* hold: a copy that exists is taken for the copy of this data.
CopiedBeforeMigration == \A m \in migrated : m.copied = m.data
=============================================================================
