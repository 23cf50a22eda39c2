---------------------------- MODULE DatabaseUpgrade ----------------------------
(***************************************************************************)
(* The start of the program on its working directory: what a switch that   *)
(* was interrupted left is put right, a new directory gets its database,   *)
(* an older one is upgraded on a copy that then takes its place, and the   *)
(* database is opened for the program's reads and its single writer.       *)
(*                                                                         *)
(* Source: app/bootstrap/coordinator.go, service/migration, service/       *)
(* workspace, infra/database, infra/filesystem/atomic_write.go and         *)
(* infra/config/locator_store.go.                                          *)
(*                                                                         *)
(* A database file is the schema it has, whether it passes the checks, and *)
(* the committed transactions it holds.  The write-ahead log stays beside  *)
(* the name meetings.db, whatever file has that name.                      *)
(***************************************************************************)
EXTENDS Naturals, Sequences

CONSTANTS
    Releases,    \* bound: schemas, the program's first being 1
    MaxCommits,  \* bound: transactions
    MaxLapses,   \* bound: operations on files or databases that fail
    MaxEnds      \* bound: ends of the process

ASSUME UpgradeAssumption == Releases \in Nat \ {0} /\ MaxCommits \in Nat /\ MaxLapses \in Nat /\ MaxEnds \in Nat

VARIABLES
    current,    \* CurrentSchemaVersion of the program that is installed
    locator,    \* whether the directory is the one saved in config.json
    directory,  \* "empty", "partial": its directories, or "used": a database was installed
    db,         \* meetings.db
    wal,        \* meetings.db-wal: the file it belongs to and the transactions with it
    staging, preSwitch, \* the two files of the switch
    backups,    \* the backups in data/backups, and files of earlier switches
    journal,    \* the phase of the switch that is recorded
    step,       \* where the start is
    phase,      \* State.Phase
    committed,  \* transactions that were acknowledged
    lapses, ends

disks == <<locator, directory, db, wal, staging, preSwitch, backups, journal>>
vars == <<current, disks, step, phase, committed, lapses, ends>>

Absent == [schema |-> 0, ok |-> FALSE, holds |-> {}]
NoWal  == [of |-> 0, holds |-> {}]
NoJournal == [phase |-> "none", source |-> 0]
Phases == {"prepared", "original_moved", "staging_installed"}

\* What a connection sees in meetings.db.
Seen == IF db # Absent /\ wal.of = db.schema THEN [db EXCEPT !.holds = wal.holds] ELSE db
\* verifyTargetDatabase, isValidPreSwitchDatabase
Valid(file, schema) == file.ok /\ file.schema = schema
IsTarget(file) == Valid(file, current)
IsOld(file) == Valid(file, journal.source)

File == [schema : 0..Releases, ok : BOOLEAN, holds : SUBSET (1..MaxCommits)]
Log  == [of : 0..Releases, holds : SUBSET (1..MaxCommits)]
Journals == [phase : {"none"} \cup Phases, source : 0..Releases]
TypeOK ==
    /\ current \in 1..Releases /\ locator \in BOOLEAN /\ directory \in {"empty", "partial", "used"}
    /\ db \in File /\ staging \in File /\ preSwitch \in File /\ backups \in SUBSET File
    /\ wal \in Log /\ journal \in Journals /\ committed \in 0..MaxCommits
    /\ step \in {"off", "recover", "put_right", "move_back", "clean", "locate", "backup", "migrate", "record",
                 "move_original", "record_moved", "move_staging", "record_installed", "verify", "finish",
                 "directories", "install", "save", "open", "end"}
    /\ phase \in {"checking", "needs_workspace", "upgrading", "unavailable", "ready"}

Init ==
    /\ current = 1 /\ locator = FALSE /\ directory = "empty"
    /\ db = Absent /\ wal = NoWal /\ staging = Absent /\ preSwitch = Absent /\ backups = {}
    /\ journal = NoJournal /\ step = "off" /\ phase = "checking"
    /\ committed = 0 /\ lapses = 0 /\ ends = 0

-----------------------------------------------------------------------------
Holds == UNCHANGED lapses
Lapse == lapses < MaxLapses /\ lapses' = lapses + 1
Same == UNCHANGED <<current, committed, ends>>
Goto(s) == step' = s /\ UNCHANGED phase
\* setUnavailableState
Unavailable == step' = "end" /\ phase' = "unavailable"

\* database.Open, and the close that follows: the log of the file itself is taken
\* over; frames of another file are written over the pages.
Opened == IF wal = NoWal \/ wal.of = db.schema THEN Seen ELSE [db EXCEPT !.ok = FALSE]
OpenAndClose == IF db = Absent THEN UNCHANGED <<db, wal>> ELSE db' = Opened /\ wal' = NoWal

\* Start, at launch, again after RetryDatabaseUpgrade, or from UseWorkspace
Start ==
    /\ step = "off" \/ (step = "end" /\ phase = "unavailable")
    /\ step' = "recover" /\ phase' = "checking"
    /\ UNCHANGED disks /\ Same /\ Holds

\* Recover: the files decide, more than the recorded phase.
Recover ==
    /\ step = "recover"
    /\ IF journal = NoJournal THEN UNCHANGED <<db, wal>> /\ Goto("locate") ELSE OpenAndClose /\ Goto("put_right")
    /\ UNCHANGED <<locator, directory, staging, preSwitch, backups, journal>> /\ Same /\ Holds

\* recoverJournalSwitch
Situation ==
    IF IsTarget(db) THEN "current"
    ELSE IF IsOld(db) /\ preSwitch = Absent /\ IsTarget(staging) THEN "prepared"
    ELSE IF db = Absent /\ IsTarget(staging) /\ IsOld(preSwitch) THEN "install"
    ELSE IF db = Absent /\ staging = Absent /\ IsOld(preSwitch) THEN "restore"
    ELSE IF db # Absent /\ journal.phase = "staging_installed" /\ staging = Absent /\ IsOld(preSwitch) THEN "restore"
    ELSE "unrecoverable"

\* What follows a recovery: a start that was recovering goes on; the recovery after a
\* failed verification in place ends the switch with its error, whatever it put right
\* (recoverFailedInstalledTarget).
Resume == IF phase = "upgrading" THEN Unavailable ELSE Goto("locate")
\* finishRecoveredCurrent: a copy goes only if it passes the checks.
FinishCurrent ==
    /\ step = "put_right" /\ Situation = "current"
    /\ preSwitch' = IF IsOld(preSwitch) THEN Absent ELSE preSwitch
    /\ staging' = IF IsTarget(staging) THEN Absent ELSE staging
    /\ journal' = NoJournal /\ Resume
    /\ UNCHANGED <<locator, directory, db, wal, backups>> /\ Same /\ Holds
\* finishRecoveredPrepared: the copy,
DropStaging ==
    /\ step = "put_right" /\ Situation = "prepared" /\ staging' = Absent /\ Goto("clean")
    /\ UNCHANGED <<locator, directory, db, wal, preSwitch, backups, journal>> /\ Same /\ Holds
\* The new file takes the name; it is verified there.
InstallStaging ==
    /\ step = "put_right" /\ Situation = "install"
    /\ LET new == IF wal = NoWal THEN staging ELSE [staging EXCEPT !.ok = FALSE] IN
       /\ db' = new /\ wal' = NoWal /\ staging' = Absent
       /\ IF new.ok THEN Goto("clean") ELSE Unavailable
    /\ UNCHANGED <<locator, directory, preSwitch, backups, journal>> /\ Same /\ Holds
\* restorePreSwitchAfterInvalidInstall: the file that failed is kept aside,
PutAside ==
    /\ step = "put_right" /\ Situation = "restore"
    /\ staging' = db /\ db' = Absent /\ Goto("move_back")
    /\ UNCHANGED <<locator, directory, wal, preSwitch, backups, journal>> /\ Same /\ Holds
\* the old one gets its name back, and is checked if another was there.
MoveBack ==
    /\ step = "move_back"
    /\ LET old == IF wal \in {NoWal, [wal EXCEPT !.of = preSwitch.schema]} THEN preSwitch ELSE [preSwitch EXCEPT !.ok = FALSE] IN
       /\ db' = old /\ preSwitch' = Absent
       /\ IF old.ok \/ staging = Absent THEN Goto("clean") ELSE Unavailable
    /\ UNCHANGED <<locator, directory, wal, staging, backups, journal>> /\ Same /\ Holds
CleanRecovered ==
    /\ step = "clean" /\ preSwitch' = Absent /\ journal' = NoJournal /\ Resume
    /\ UNCHANGED <<locator, directory, db, wal, staging, backups>> /\ Same /\ Holds
\* A file that cannot be removed is a warning, and the journal stays.
CleanupFails ==
    /\ \/ step = "clean" /\ preSwitch' \in {Absent, preSwitch}
       \/ step = "put_right" /\ Situation = "current"
          /\ preSwitch' \in (IF IsOld(preSwitch) THEN {Absent, preSwitch} ELSE {preSwitch})
       \/ step = "put_right" /\ Situation = "prepared" /\ UNCHANGED preSwitch
    /\ Resume /\ UNCHANGED <<locator, directory, db, wal, staging, backups, journal>> /\ Same /\ Lapse
\* Mutant: the recovery is tried again at once.
Unrecoverable_Retries ==
    /\ step = "put_right" /\ Situation = "unrecoverable" /\ Goto("recover")
    /\ UNCHANGED disks /\ Same /\ Holds
Unrecoverable ==
    /\ step = "put_right" /\ Situation = "unrecoverable" /\ Unavailable
    /\ UNCHANGED disks /\ Same /\ Holds
\* A move, or a check of a file that is moved, fails.
RecoveryFails ==
    /\ step = "move_back" \/ (step = "put_right" /\ Situation \in {"install", "restore"})
    /\ Unavailable /\ UNCHANGED disks /\ Same /\ Lapse

-----------------------------------------------------------------------------
\* startConfiguredWorkspace, Inspect
Locate ==
    /\ step = "locate"
    /\ IF ~locator THEN step' = "end" /\ phase' = "needs_workspace"
       ELSE IF ~Opened.ok THEN Unavailable
       ELSE IF db.schema = current THEN Goto("open")
       ELSE step' = "backup" /\ phase' = "upgrading"
    /\ UNCHANGED disks /\ Same /\ Holds

\* A switch has file names of its own; what an earlier one left stays where it is.
Copies == backups \cup ({staging, preSwitch} \ {Absent})
\* Mutant: the file is copied, and not what a connection sees in it.
Backup_File ==
    /\ step = "backup" /\ backups' = Copies \cup {db} /\ staging' = db /\ preSwitch' = Absent /\ Goto("migrate")
    /\ UNCHANGED <<locator, directory, db, wal, journal>> /\ Same /\ Holds
\* BackupIfRequired and copyVerifiedBackup
Backup ==
    /\ step = "backup" /\ backups' = Copies \cup {Seen} /\ staging' = Seen /\ preSwitch' = Absent /\ Goto("migrate")
    /\ UNCHANGED <<locator, directory, db, wal, journal>> /\ Same /\ Holds
\* migrateAndVerifyStaging: the migrations, the finalizer and the checks
Migrate ==
    /\ step = "migrate" /\ staging' = [staging EXCEPT !.schema = current] /\ Goto("record")
    /\ UNCHANGED <<locator, directory, db, wal, preSwitch, backups, journal>> /\ Same /\ Holds
\* The disk is full, or a step on the copy fails: the copy is removed.
CopyFails ==
    /\ step \in {"backup", "migrate", "record"} /\ Unavailable
    /\ staging' = IF step = "backup" THEN staging ELSE Absent
    /\ UNCHANGED <<locator, directory, db, wal, preSwitch, backups, journal>> /\ Same /\ Lapse
\* The file that is replaced.
Old == IF preSwitch = Absent THEN db ELSE preSwitch
\* WriteAtomic, which may report an error of the directory after the rename.
Record(at, p, next) ==
    /\ step = at /\ journal' = [phase |-> p, source |-> Old.schema] /\ Goto(next)
    /\ UNCHANGED <<locator, directory, db, wal, staging, preSwitch, backups>> /\ Same /\ Holds
RecordFails(p, renamed) ==
    /\ journal' = IF renamed THEN [phase |-> p, source |-> Old.schema] ELSE journal
    /\ staging' = IF step = "record" THEN Absent ELSE staging
    /\ Unavailable /\ UNCHANGED <<locator, directory, db, wal, preSwitch, backups>> /\ Same /\ Lapse
WritePrepared == Record("record", "prepared", "move_original")
\* Mutant: a phase that validateMigrationJournal refuses.
WriteMoved_Phase == Record("record_moved", "moved", "move_staging")
WriteMoved == Record("record_moved", "original_moved", "move_staging")
WriteInstalled == Record("record_installed", "staging_installed", "verify")
WriteFails == \E renamed \in BOOLEAN :
    \/ step = "record" /\ renamed /\ RecordFails("prepared", renamed)
    \/ step = "record_moved" /\ RecordFails("original_moved", renamed)
    \/ step = "record_installed" /\ RecordFails("staging_installed", renamed)
\* Mutant: the journal is removed before the file is moved.
MoveOriginal_Unrecorded ==
    /\ step = "move_original" /\ preSwitch' = db /\ db' = Absent /\ journal' = NoJournal /\ Goto("record_moved")
    /\ UNCHANGED <<locator, directory, wal, staging, backups>> /\ Same /\ Holds
\* MoveFileExclusive
MoveOriginal ==
    /\ step = "move_original" /\ preSwitch' = db /\ db' = Absent /\ Goto("record_moved")
    /\ UNCHANGED <<locator, directory, wal, staging, backups, journal>> /\ Same /\ Holds
MoveStaging ==
    /\ step = "move_staging" /\ db' = staging /\ staging' = Absent /\ Goto("record_installed")
    /\ UNCHANGED <<locator, directory, wal, preSwitch, backups, journal>> /\ Same /\ Holds
MoveFails ==
    /\ step \in {"move_original", "move_staging"} /\ Unavailable
    /\ UNCHANGED disks /\ Same /\ Lapse
\* verifyTargetDatabase in place, else recoverFailedInstalledTarget
Verify ==
    /\ step = "verify" /\ OpenAndClose
    /\ IF IsTarget(db') THEN Goto("finish") ELSE Goto("recover")
    /\ UNCHANGED <<locator, directory, staging, preSwitch, backups, journal>> /\ Same /\ Holds
VerifyFails ==
    /\ step = "verify" /\ Goto("recover") /\ UNCHANGED disks /\ Same /\ Lapse
AfterUpgrade == Goto(IF locator THEN "open" ELSE "save")
\* cleanupSuccessfulSwitch
Finish ==
    /\ step = "finish" /\ preSwitch' = Absent /\ journal' = NoJournal /\ AfterUpgrade
    /\ UNCHANGED <<locator, directory, db, wal, staging, backups>> /\ Same /\ Holds
FinishWarns ==
    /\ step = "finish" /\ AfterUpgrade
    /\ \/ preSwitch' = Absent /\ UNCHANGED journal
       \/ journal' \in {journal, NoJournal} /\ UNCHANGED preSwitch
    /\ UNCHANGED <<locator, directory, db, wal, staging, backups>> /\ Same /\ Lapse

-----------------------------------------------------------------------------
\* UseWorkspace.  What Inspect finds invalid is refused: the host takes another
\* directory; the database of an older program is upgraded first.
UseWorkspace ==
    /\ step = "end" /\ ~locator /\ (directory = "used" => Opened.ok)
    /\ IF directory # "used" THEN Goto("directories")
       ELSE IF db.schema = current THEN Goto("save")
       ELSE step' = "backup" /\ phase' = "upgrading"
    /\ UNCHANGED disks /\ Same /\ Holds
\* Mutant: the path is saved before its database is there.
CreateDirectories_Saved ==
    /\ step = "directories" /\ directory' = "partial" /\ locator' = TRUE /\ Goto("install")
    /\ UNCHANGED <<db, wal, staging, preSwitch, backups, journal>> /\ Same /\ Holds
CreateDirectories ==
    /\ step = "directories" /\ directory' = "partial" /\ Goto("install")
    /\ UNCHANGED <<locator, db, wal, staging, preSwitch, backups, journal>> /\ Same /\ Holds
\* prepareTemporaryDatabase, installTemporaryDatabase
InstallDatabase ==
    /\ step = "install" /\ directory' = "used" /\ Goto("save")
    /\ db' = [schema |-> current, ok |-> TRUE, holds |-> {}]
    /\ UNCHANGED <<locator, wal, staging, preSwitch, backups, journal>> /\ Same /\ Holds
SaveLocator ==
    /\ step = "save" /\ locator' = TRUE /\ step' = "recover" /\ phase' = "checking"
    /\ UNCHANGED <<directory, db, wal, staging, preSwitch, backups, journal>> /\ Same /\ Holds
InitializationFails ==
    /\ step \in {"directories", "install", "save"} /\ Goto("end")
    /\ UNCHANGED disks /\ Same /\ Lapse

\* openWorkspaceRuntime
Open ==
    /\ step = "open"
    /\ IF Opened.ok THEN step' = "end" /\ phase' = "ready" ELSE Unavailable
    /\ OpenAndClose
    /\ UNCHANGED <<locator, directory, staging, preSwitch, backups, journal>> /\ Same /\ Holds
OpenFails ==
    /\ step = "open" /\ Unavailable /\ UNCHANGED disks /\ Same /\ Lapse

\* A transaction of the single writer, and SQLite's checkpoint
Commit ==
    /\ phase = "ready" /\ committed < MaxCommits /\ committed' = committed + 1
    /\ wal' = [of |-> db.schema, holds |-> Seen.holds \cup {committed + 1}]
    /\ UNCHANGED <<current, locator, directory, db, staging, preSwitch, backups, journal, step, phase, ends>> /\ Holds
Checkpoint ==
    /\ phase = "ready" /\ wal # NoWal /\ db' = Seen /\ wal' = NoWal
    /\ UNCHANGED <<locator, directory, staging, preSwitch, backups, journal, step, phase>> /\ Same /\ Holds

\* Stop drains the writer and closes both pools; a crash leaves the log.
Ended == /\ step # "off" /\ ends < MaxEnds /\ ends' = ends + 1 /\ step' = "off" /\ phase' = "checking"
         /\ UNCHANGED <<current, committed, locator, directory, staging, preSwitch, backups, journal>> /\ Holds
Stop == step = "end" /\ Ended /\ IF phase = "ready" THEN OpenAndClose ELSE UNCHANGED <<db, wal>>
Die == Ended /\ UNCHANGED <<db, wal>>
\* The host installs a newer program.
NewRelease ==
    /\ step = "off" /\ current < Releases /\ current' = current + 1
    /\ UNCHANGED <<disks, step, phase, committed, ends>> /\ Holds

Starting ==
    \/ Recover \/ FinishCurrent \/ DropStaging \/ InstallStaging \/ PutAside \/ MoveBack \/ CleanRecovered
    \/ Unrecoverable \/ Locate \/ Backup \/ Migrate \/ WritePrepared \/ WriteMoved \/ WriteInstalled
    \/ MoveOriginal \/ MoveStaging \/ Verify \/ Finish \/ CreateDirectories \/ InstallDatabase \/ SaveLocator \/ Open
Failing ==
    \/ CleanupFails \/ RecoveryFails \/ CopyFails \/ WriteFails \/ MoveFails \/ VerifyFails \/ FinishWarns
    \/ InitializationFails \/ OpenFails
Next == Start \/ Starting \/ Failing \/ UseWorkspace \/ Commit \/ Checkpoint \/ NewRelease \/ Stop \/ Die
\* A start that began runs on.
Spec == Init /\ [][Next]_vars /\ WF_vars(Starting)

-----------------------------------------------------------------------------
\* Every transaction the program acknowledged is still in a file that passes the
\* checks, the database, a copy of the switch or a backup, or in the log of one:
\* whatever step of an upgrade or a recovery fails or is cut off.
NothingLost ==
    LET kept == {f \in {Seen, preSwitch, staging} \cup backups : f.ok}
        logged == IF wal.of \in {f.schema : f \in kept} THEN wal.holds ELSE {} IN
    1..committed = (UNION {f.holds : f \in kept}) \cup logged
\* While no file has the name meetings.db, the journal names the files of the
\* switch, so that the next start finds them.
SwitchRecorded == directory = "used" /\ db = Absent => journal # NoJournal
\* The directory in config.json has, or had, a database (UseWorkspace saves last).
LocatorHasDatabase == locator => directory = "used"

\* What makes NothingLost inductive.  A transaction is saved when a backup that
\* passes the checks has it: backups are never removed.
Saved(n) == \E b \in backups : b.ok /\ n \in b.holds
AllSaved == \A n \in 1..committed : Saved(n)
\* Outside the backups only meetings.db, as a connection sees it, and the file that
\* PutAside took from there can be the one file that holds a transaction.
Covered == \A n \in 1..committed :
    Saved(n) \/ (Seen.ok /\ n \in Seen.holds) \/ (staging.ok /\ n \in staging.holds)
\* The copies a recovery may remove or install hold nothing that is not saved.
Copied == {"migrate", "record", "move_original", "record_moved", "move_staging"}
CopiesSaved ==
    /\ \A n \in preSwitch.holds : Saved(n)
    /\ IsTarget(staging) \/ step \in Copied => \A n \in staging.holds : Saved(n)
\* Nor does a log that belongs to another file than meetings.db, a file that does
\* not pass the checks, or anything else while a switch runs.
Strange == wal # NoWal /\ (db = Absent \/ wal.of # db.schema)
Switching == Copied \cup {"record_installed", "verify", "finish"}
LogSaved == Strange \/ (db # Absent /\ ~db.ok) \/ step \in Switching => AllSaved
LogGoesOn == wal # NoWal /\ wal.of = db.schema => \A n \in db.holds : n \in wal.holds \/ Saved(n)
\* Files have the schema of a release that was installed, and committed content.
FilesFit ==
    /\ db = Absent \/ db.schema \in 1..current
    /\ staging = Absent \/ staging.schema \in 1..current
    /\ preSwitch = Absent \/ preSwitch.schema \in 1..current
    /\ wal = NoWal \/ wal.of \in 1..current
    /\ \A f \in {db, staging, preSwitch} \cup backups : f.holds \subseteq 1..committed
    /\ wal.holds \subseteq 1..committed
\* Which files are there at which step.
StepFits ==
    /\ step \in {"clean", "backup", "migrate", "record", "move_original", "record_installed", "verify",
                 "finish", "open", "save"} => db # Absent
    /\ step \in {"record_moved", "move_staging", "move_back"} => db = Absent
    /\ step \in Copied => staging # Absent
    /\ step \in {"migrate", "record", "move_original"} => preSwitch = Absent
    /\ step \in {"put_right", "move_back", "clean", "move_original", "record_moved", "move_staging",
                 "record_installed", "verify", "finish"} => journal # NoJournal
    /\ step = "put_right" /\ db # Absent => wal = NoWal
    /\ step = "move_back" => preSwitch # Absent /\ preSwitch.ok
    /\ step = "backup" => Seen.ok /\ ~Strange
    /\ step = "open" => locator
    /\ step \in {"directories", "install"} => directory # "used"
    /\ step \in Switching \cup {"backup", "save", "open"} => directory = "used"
ReadyFits == phase = "ready" => step = "end" /\ locator /\ db # Absent /\ db.ok /\ ~Strange
DirectoryFits ==
    /\ directory # "used" => ~locator /\ db = Absent /\ journal = NoJournal
    /\ ~locator => committed = 0
\* The files, the journal and the locator fit together.
UpgradeInv ==
    /\ TypeOK /\ NothingLost /\ SwitchRecorded /\ LocatorHasDatabase
    /\ Covered /\ CopiesSaved /\ LogSaved /\ LogGoesOn /\ FilesFit /\ StepFits /\ ReadyFits /\ DirectoryFits
\* A start decides: the program is ready, asks for a directory, or says that the
\* directory cannot be used.
StartDecides == step \notin {"off", "end"} ~> step \in {"off", "end"}
\* What the documents promise of an upgrade: the program that is ready has every
\* transaction in its database.
CommitsKept == phase = "ready" => Seen.holds = 1..committed
================================================================================
