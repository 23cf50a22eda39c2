------------------------ MODULE DatabaseUpgrade_proofs ------------------------
(***************************************************************************)
(* UpgradeInv holds in every reachable state.  Parts is UpgradeInv without *)
(* NothingLost and LocatorHasDatabase, which follow from it; every action  *)
(* has a lemma that it preserves Parts.                                    *)
(***************************************************************************)
EXTENDS DatabaseUpgrade, TLAPS

Parts == /\ TypeOK /\ SwitchRecorded /\ Covered /\ CopiesSaved /\ LogSaved /\ LogGoesOn
         /\ FilesFit /\ StepFits /\ ReadyFits /\ DirectoryFits

(* A file that is changed is a file.                                       *)
LEMMA FileEdits ==
  ASSUME NEW f \in File
  PROVE  /\ \A s \in 0..Releases : [f EXCEPT !.schema = s] \in File
         /\ [f EXCEPT !.ok = FALSE] \in File
         /\ \A h \in SUBSET (1..MaxCommits) : [f EXCEPT !.holds = h] \in File
  BY DEF File

LEMMA Fields ==
  ASSUME NEW f \in File, NEW w \in Log, NEW j \in Journals
  PROVE  /\ f.schema \in 0..Releases /\ f.ok \in BOOLEAN /\ f.holds \in SUBSET (1..MaxCommits)
         /\ w.of \in 0..Releases /\ w.holds \in SUBSET (1..MaxCommits)
         /\ j.source \in 0..Releases
  BY DEF File, Log, Journals

LEMMA Nothing ==
  /\ Absent.schema = 0 /\ Absent.ok = FALSE /\ Absent.holds = {}
  /\ NoWal.of = 0 /\ NoWal.holds = {}
  /\ UpgradeAssumption => Absent \in File /\ NoWal \in Log /\ NoJournal \in Journals
  BY DEF Absent, NoWal, NoJournal, File, Log, Journals, UpgradeAssumption

(* What a connection sees is a file, with the schema of the file it opens. *)
LEMMA SeenIsFile ==
  ASSUME TypeOK
  PROVE  /\ Seen \in File /\ Seen.schema = db.schema /\ Seen.ok = db.ok
         /\ Seen.holds = IF db # Absent /\ wal.of = db.schema THEN wal.holds ELSE db.holds
         /\ Opened \in File /\ Opened.schema = db.schema
         /\ Opened.ok = IF wal = NoWal \/ wal.of = db.schema THEN db.ok ELSE FALSE
         /\ Opened.holds = IF db # Absent /\ wal.of = db.schema THEN wal.holds ELSE db.holds
<1>1. db \in File /\ wal \in Log
  BY DEF TypeOK
<1>2. wal.holds \in SUBSET (1..MaxCommits)
  BY <1>1, Fields DEF Log
<1>3. [db EXCEPT !.holds = wal.holds] \in File /\ [db EXCEPT !.ok = FALSE] \in File
  BY <1>1, <1>2, FileEdits
<1> QED
  BY <1>1, <1>2, <1>3 DEF Seen, Opened, File

LEMMA PartsSuffice ==
  ASSUME Parts
  PROVE  UpgradeInv
<1> DEFINE sound == {f \in {Seen, preSwitch, staging} \cup backups : f.ok}
           replayed == IF wal.of \in {f.schema : f \in sound} THEN wal.holds ELSE {}
<1>1. TypeOK /\ Covered /\ FilesFit
  BY DEF Parts
<1>2. \A f \in sound : f.holds \subseteq 1..committed
  BY <1>1, SeenIsFile DEF FilesFit
<1>3. replayed \subseteq 1..committed
  BY <1>1 DEF FilesFit
<1>4. \A n \in 1..committed : \E f \in sound : n \in f.holds
  BY <1>1 DEF Covered, Saved
<1> DEFINE all == UNION {f.holds : f \in sound}
<1>5. \A n \in 1..committed : n \in all
  BY <1>4, Zenon
<1>6. all \subseteq 1..committed
  BY <1>2, Zenon
<1> HIDE DEF sound, replayed, all
<1>7. 1..committed = all \cup replayed
  BY <1>3, <1>5, <1>6
<1>8. NothingLost
  BY <1>7 DEF NothingLost, sound, replayed, all
<1>9. LocatorHasDatabase
  BY DEF Parts, DirectoryFits, LocatorHasDatabase
<1> QED
  BY <1>8, <1>9 DEF Parts, UpgradeInv

LEMMA InitHolds ==
  ASSUME Init
  PROVE  Parts
<1>1. TypeOK
  <2>1. Absent \in File /\ NoWal \in Log /\ NoJournal \in Journals
    BY UpgradeAssumption, Nothing
  <2>2. 1 \in 1..Releases /\ 0 \in 0..MaxCommits
    BY UpgradeAssumption DEF UpgradeAssumption
  <2> QED
    BY <2>1, <2>2 DEF Init, TypeOK
<1>2. FilesFit
  BY Nothing DEF Init, FilesFit
<1>3. CopiesSaved /\ LogSaved
  BY Nothing DEF Init, CopiesSaved, LogSaved, Strange, Switching, Copied, IsTarget, Valid, AllSaved
<1> QED
  BY <1>1, <1>2, <1>3 DEF Init, Parts, SwitchRecorded, Covered, LogGoesOn, StepFits, ReadyFits,
     DirectoryFits, Switching, Copied, Strange

-----------------------------------------------------------------------------
(* Actions that leave the files, the log and the release alone.            *)

LEMMA FilesAside ==
  ASSUME Parts, UNCHANGED <<current, db, wal, staging, preSwitch, backups, committed>>
  PROVE  /\ Covered' /\ LogGoesOn' /\ FilesFit'
         /\ (step' \in Copied => step \in Copied) => CopiesSaved'
         /\ (step' \in Switching => step \in Switching) => LogSaved'
<1>1. \A n : Saved(n)' <=> Saved(n)
  BY DEF Saved
<1>2. Seen' = Seen
  BY DEF Seen
<1>3. Covered'
  BY <1>1, <1>2 DEF Parts, Covered
<1>4. LogGoesOn' /\ FilesFit'
  BY <1>1 DEF Parts, LogGoesOn, FilesFit
<1>5. AllSaved' <=> AllSaved
  BY <1>1 DEF AllSaved
<1>6. (step' \in Copied => step \in Copied) => CopiesSaved'
  BY <1>1 DEF Parts, CopiesSaved, IsTarget, Valid
<1>7. (step' \in Switching => step \in Switching) => LogSaved'
  BY <1>5 DEF Parts, LogSaved, Strange
<1> QED
  BY <1>3, <1>4, <1>6, <1>7

(* The parts that are about the step, the phase and the journal.           *)
Steps == SwitchRecorded /\ StepFits /\ ReadyFits /\ DirectoryFits

LEMMA StartsKeep ==
  ASSUME Parts,
         Start \/ Unrecoverable \/ RecoveryFails \/ MoveFails \/ VerifyFails \/ InitializationFails
         \/ OpenFails \/ Locate \/ UseWorkspace
  PROVE  Parts'
<1> USE DEF Same, Holds, Lapse, Goto, Unavailable, disks
<1>1. UNCHANGED <<current, db, wal, staging, preSwitch, backups, committed, journal, locator, directory>>
  BY DEF Start, Unrecoverable, RecoveryFails, MoveFails, VerifyFails, InitializationFails, OpenFails, Locate,
     UseWorkspace
<1>2. /\ step' \in Switching => step \in Switching
      /\ step' \in Copied => step \in Copied
  BY DEF Start, Unrecoverable, RecoveryFails, MoveFails, VerifyFails, InitializationFails, OpenFails, Locate,
     UseWorkspace, Switching, Copied
<1>3. Covered' /\ LogGoesOn' /\ FilesFit' /\ CopiesSaved' /\ LogSaved'
  BY <1>1, <1>2, FilesAside
<1>4. TypeOK'
  BY <1>1 DEF Parts, TypeOK, Start, Unrecoverable, RecoveryFails, MoveFails, VerifyFails, InitializationFails,
     OpenFails, Locate, UseWorkspace
<1>5. Seen' = Seen /\ Strange' = Strange /\ Opened' = Opened
  BY <1>1 DEF Seen, Strange, Opened
<1>6. SwitchRecorded' /\ DirectoryFits'
  BY <1>1 DEF Parts, SwitchRecorded, DirectoryFits
<1>7. ReadyFits'
  BY <1>1, <1>5 DEF Parts, ReadyFits, Start, Unrecoverable, RecoveryFails, MoveFails, VerifyFails,
     InitializationFails, OpenFails, Locate, UseWorkspace
<1>8. StepFits'
  <2>1. CASE Start \/ Unrecoverable \/ RecoveryFails \/ MoveFails \/ VerifyFails \/ InitializationFails \/ OpenFails
    BY <2>1, <1>1, <1>5 DEF Parts, StepFits, Start, Unrecoverable, RecoveryFails, MoveFails, VerifyFails,
       InitializationFails, OpenFails, Switching, Copied
  <2>2. CASE Locate
    <3>1. step' \in {"end", "open", "backup"} /\ (step' # "end" => locator /\ Opened.ok)
      BY <2>2 DEF Locate
    <3>2. Opened.ok => db # Absent /\ Seen.ok /\ ~Strange
      BY SeenIsFile, Nothing DEF Parts, Strange
    <3> QED
      BY <1>1, <1>5, <3>1, <3>2 DEF Parts, StepFits, Switching, Copied, DirectoryFits
  <2>3. CASE UseWorkspace
    BY <2>3, <1>1, <1>5, SeenIsFile, Nothing DEF Parts, StepFits, UseWorkspace, Switching, Copied, DirectoryFits, Strange, FilesFit
  <2> QED
    BY <2>1, <2>2, <2>3
<1> QED
  BY <1>3, <1>4, <1>6, <1>7, <1>8 DEF Parts

(* Actions that write the journal, the locator or the directories.         *)
LEMMA RecordsKeep ==
  ASSUME Parts,
         WritePrepared \/ WriteMoved \/ WriteInstalled \/ CreateDirectories \/ SaveLocator
  PROVE  Parts'
<1> USE DEF Same, Holds, Goto, Record, WritePrepared, WriteMoved, WriteInstalled, CreateDirectories, SaveLocator
<1>1. UNCHANGED <<current, db, wal, staging, preSwitch, backups, committed>>
  OBVIOUS
<1>2. /\ step' \in Switching => step \in Switching
      /\ step' \in Copied => step \in Copied
  BY DEF Switching, Copied
<1>3. Covered' /\ LogGoesOn' /\ FilesFit' /\ CopiesSaved' /\ LogSaved'
  BY <1>1, <1>2, FilesAside
<1>4. \A p \in Phases : [phase |-> p, source |-> Old.schema] \in Journals
  BY DEF Parts, TypeOK, Old, File, Journals
<1>5. \A p \in Phases : [phase |-> p, source |-> Old.schema] # NoJournal
  BY DEF Phases, NoJournal
<1>6. journal' \in Journals
  BY <1>4 DEF Parts, TypeOK, Phases
<1>7. TypeOK'
  BY <1>1, <1>6 DEF Parts, TypeOK
<1>8. Seen' = Seen /\ Strange' = Strange
  BY <1>1 DEF Seen, Strange
<1>9. \/ journal' = journal /\ step \in {"directories", "save"}
      \/ journal' # NoJournal /\ step \in Switching
  BY <1>5 DEF Phases, Switching, Copied
<1>10. SwitchRecorded'
  BY <1>1, <1>9 DEF Parts, SwitchRecorded, DirectoryFits, StepFits, Switching, Copied
<1>11. DirectoryFits'
  BY <1>1, <1>9 DEF Parts, DirectoryFits, StepFits, Switching, Copied
<1>12. ReadyFits'
  BY <1>1, <1>8 DEF Parts, ReadyFits
<1>13. StepFits'
  BY <1>1, <1>8, <1>9 DEF Parts, StepFits, Switching, Copied
<1> QED
  BY <1>3, <1>7, <1>10, <1>11, <1>12, <1>13 DEF Parts

-----------------------------------------------------------------------------
(* Actions that open meetings.db.                                          *)

(* Opening the file keeps what a connection sees in it, or drops a log     *)
(* whose transactions are all saved.                                       *)
LEMMA Opening ==
  ASSUME Parts, OpenAndClose, UNCHANGED <<current, staging, preSwitch, backups, committed>>
  PROVE  /\ Covered' /\ LogGoesOn' /\ FilesFit'
         /\ db' \in File /\ wal' \in Log /\ (db' = Absent <=> db = Absent)
         /\ (step' \in Copied => step \in Copied) => CopiesSaved'
         /\ (step' \in Switching => step \in Switching) => LogSaved'
         /\ db' # Absent => wal' = NoWal
<1>1. /\ db \in File /\ wal \in Log /\ TypeOK /\ NoWal \in Log
  BY UpgradeAssumption, Nothing DEF Parts, TypeOK
<1>2. \A n : Saved(n)' <=> Saved(n)
  BY DEF Saved
<1>3. AllSaved' <=> AllSaved
  BY <1>2 DEF AllSaved
<1>4. CASE db = Absent
  <2>1. UNCHANGED <<db, wal>>
    BY <1>4 DEF OpenAndClose
  <2> QED
    BY <1>1, <1>4, <2>1, FilesAside
<1>5. CASE db # Absent
  <2>1. db' = Opened /\ wal' = NoWal
    BY <1>5 DEF OpenAndClose
  <2>2. db' \in File /\ db'.schema = db.schema /\ db' # Absent
    BY <1>1, <1>5, <2>1, SeenIsFile, Nothing DEF Parts, FilesFit
  <2>3. wal # NoWal /\ wal.of # db.schema => AllSaved
    BY <1>5 DEF Parts, LogSaved, Strange
  <2>4. wal = NoWal \/ wal.of = db.schema => db'.ok = Seen.ok /\ db'.holds = Seen.holds
    <3>1. wal = NoWal => wal.of # db.schema
      BY <1>5, Nothing DEF Parts, FilesFit
    <3> QED
      BY <1>1, <1>5, <2>1, <3>1, SeenIsFile DEF Opened
  <2>5. Seen' = db'
    BY <1>5, <2>1, <2>2, Nothing DEF Seen, Parts, FilesFit, TypeOK
  <2>6. Covered'
    BY <1>2, <2>1, <2>3, <2>4, <2>5 DEF Parts, Covered, AllSaved
  <2>7. FilesFit'
    BY <1>1, <1>5, <2>1, <2>2, SeenIsFile, Nothing DEF Parts, FilesFit
  <2>8. (step' \in Copied => step \in Copied) => CopiesSaved'
    BY <1>2 DEF Parts, CopiesSaved, IsTarget, Valid
  <2>9. ~db'.ok => AllSaved
    BY <1>1, <1>5, <2>1, <2>3, SeenIsFile DEF Parts, LogSaved
  <2>10. (step' \in Switching => step \in Switching) => LogSaved'
    BY <1>3, <2>1, <2>9 DEF Parts, LogSaved, Strange
  <2> QED
    BY <1>1, <1>5, <2>1, <2>2, <2>6, <2>7, <2>8, <2>10 DEF LogGoesOn
<1> QED
  BY <1>4, <1>5

LEMMA RecoverKeeps ==
  ASSUME Parts, Recover
  PROVE  Parts'
<1> USE DEF Recover, Same, Holds, Goto
<1>1. CASE journal = NoJournal
  <2>1. UNCHANGED <<current, db, wal, staging, preSwitch, backups, committed, journal, directory, locator>>
    BY <1>1
  <2>2. Covered' /\ LogGoesOn' /\ FilesFit' /\ CopiesSaved' /\ LogSaved'
    BY <1>1, <2>1, FilesAside DEF Switching, Copied
  <2> QED
    BY <1>1, <2>1, <2>2 DEF Parts, TypeOK, SwitchRecorded, StepFits, ReadyFits, DirectoryFits, Switching, Copied
<1>2. CASE journal # NoJournal
  <2>1. OpenAndClose /\ UNCHANGED <<current, staging, preSwitch, backups, committed, journal, directory, locator>>
    BY <1>2
  <2>2. step' = "put_right" /\ phase' = phase
    BY <1>2
  <2>3. /\ Covered' /\ LogGoesOn' /\ FilesFit' /\ CopiesSaved' /\ LogSaved'
        /\ db' \in File /\ wal' \in Log /\ (db' = Absent <=> db = Absent)
        /\ db' # Absent => wal' = NoWal
    BY <2>1, <2>2, Opening DEF Switching, Copied
  <2> QED
    BY <1>2, <2>1, <2>2, <2>3 DEF Parts, TypeOK, SwitchRecorded, StepFits, ReadyFits, DirectoryFits, Switching, Copied
<1> QED
  BY <1>1, <1>2

LEMMA VerifyKeeps ==
  ASSUME Parts, Verify
  PROVE  Parts'
<1> USE DEF Verify, Same, Holds, Goto
<1>1. OpenAndClose /\ UNCHANGED <<current, staging, preSwitch, backups, committed, journal, directory, locator>>
  OBVIOUS
<1>2. step = "verify" /\ step' \in {"finish", "recover"} /\ phase' = phase
  OBVIOUS
<1>3. /\ Covered' /\ LogGoesOn' /\ FilesFit' /\ CopiesSaved' /\ LogSaved'
      /\ db' \in File /\ wal' \in Log /\ (db' = Absent <=> db = Absent)
      /\ db' # Absent => wal' = NoWal
  BY <1>1, <1>2, Opening DEF Switching, Copied
<1> QED
  BY <1>1, <1>2, <1>3 DEF Parts, TypeOK, SwitchRecorded, StepFits, ReadyFits, DirectoryFits, Switching, Copied

LEMMA OpenKeeps ==
  ASSUME Parts, Open
  PROVE  Parts'
<1> USE DEF Open, Same, Holds, Unavailable
<1>1. OpenAndClose /\ UNCHANGED <<current, staging, preSwitch, backups, committed, journal, directory, locator>>
  OBVIOUS
<1>2. step = "open" /\ step' = "end" /\ phase' \in {"ready", "unavailable"} /\ (phase' = "ready" => Opened.ok)
  OBVIOUS
<1>3. /\ Covered' /\ LogGoesOn' /\ FilesFit' /\ CopiesSaved' /\ LogSaved'
      /\ db' \in File /\ wal' \in Log /\ (db' = Absent <=> db = Absent)
      /\ db' # Absent => wal' = NoWal
  BY <1>1, <1>2, Opening DEF Switching, Copied
<1>4. db # Absent /\ db' = Opened
  BY <1>1, <1>2 DEF Parts, StepFits, OpenAndClose
<1> QED
  BY <1>1, <1>2, <1>3, <1>4 DEF Parts, TypeOK, SwitchRecorded, StepFits, ReadyFits, DirectoryFits, Switching, Copied, Strange

-----------------------------------------------------------------------------
(* Actions that remove a copy of the switch.                               *)

LEMMA Removing ==
  ASSUME Parts, UNCHANGED <<current, db, wal, backups, committed>>,
         preSwitch' \in {Absent, preSwitch}, staging' \in {Absent, staging},
         staging' = Absent => staging = Absent \/ IsTarget(staging) \/ step \in Copied,
         step' \in Copied => step \in Copied, step' \in Switching => step \in Switching
  PROVE  /\ Covered' /\ LogGoesOn' /\ FilesFit' /\ CopiesSaved' /\ LogSaved'
         /\ preSwitch' \in File /\ staging' \in File
<1>1. \A n : Saved(n)' <=> Saved(n)
  BY DEF Saved
<1>2. Seen' = Seen /\ Strange' = Strange
  BY DEF Seen, Strange
<1>3. AllSaved' <=> AllSaved
  BY <1>1 DEF AllSaved
<1>4. Covered'
  BY <1>1, <1>2, Nothing DEF Parts, Covered, CopiesSaved
<1>5. LogGoesOn'
  BY <1>1 DEF Parts, LogGoesOn
<1>6. FilesFit'
  BY Nothing DEF Parts, FilesFit
<1>7. CopiesSaved'
  BY <1>1, Nothing DEF Parts, CopiesSaved, IsTarget, Valid
<1>8. LogSaved'
  BY <1>2, <1>3 DEF Parts, LogSaved
<1>9. preSwitch' \in File /\ staging' \in File
  BY UpgradeAssumption, Nothing DEF Parts, TypeOK
<1> QED
  BY <1>4, <1>5, <1>6, <1>7, <1>8, <1>9

LEMMA RemovalsKeep ==
  ASSUME Parts, FinishCurrent \/ DropStaging \/ CleanRecovered \/ CleanupFails \/ Finish \/ FinishWarns
  PROVE  Parts'
<1> USE DEF Same, Holds, Lapse, Goto, Unavailable, Resume, AfterUpgrade
<1>1. UNCHANGED <<current, db, wal, backups, committed, locator, directory>>
  BY DEF FinishCurrent, DropStaging, CleanRecovered, CleanupFails, Finish, FinishWarns
<1>2. preSwitch' \in {Absent, preSwitch} /\ staging' \in {Absent, staging} /\ journal' \in {NoJournal, journal}
  BY DEF FinishCurrent, DropStaging, CleanRecovered, CleanupFails, Finish, FinishWarns
<1>3. step \in {"put_right", "clean", "finish"} /\ step' \in {"locate", "clean", "end", "open", "save"}
  BY DEF FinishCurrent, DropStaging, CleanRecovered, CleanupFails, Finish, FinishWarns
<1>4. staging' # staging => IsTarget(staging)
  BY DEF FinishCurrent, DropStaging, CleanRecovered, CleanupFails, Finish, FinishWarns, Situation
<1>5. /\ Covered' /\ LogGoesOn' /\ FilesFit' /\ CopiesSaved' /\ LogSaved'
      /\ preSwitch' \in File /\ staging' \in File
  BY <1>1, <1>2, <1>3, <1>4, Removing DEF Switching, Copied
<1>6. /\ phase' \in {phase, "unavailable"}
      /\ step = "put_right" => step' \in {"locate", "clean", "end"} /\ db # Absent
      /\ step = "clean" => step' \in {"locate", "end"}
      /\ step = "finish" => step' \in {"open", "save"} /\ (step' = "open" => locator)
      /\ step' = "clean" => journal' = journal
  BY Nothing DEF FinishCurrent, DropStaging, CleanRecovered, CleanupFails, Finish, FinishWarns, Situation, IsTarget, IsOld, Valid
<1>7. TypeOK'
  BY <1>1, <1>2, <1>3, <1>5, <1>6, UpgradeAssumption, Nothing DEF Parts, TypeOK
<1>8. db # Absent
  BY <1>3, <1>6 DEF Parts, StepFits
<1>9. SwitchRecorded' /\ ReadyFits' /\ DirectoryFits'
  BY <1>1, <1>2, <1>3, <1>6, <1>8 DEF Parts, SwitchRecorded, ReadyFits, DirectoryFits, Strange
<1>10. StepFits'
  BY <1>1, <1>2, <1>3, <1>6, <1>8 DEF Parts, StepFits, Switching, Copied, DirectoryFits
<1> QED
  BY <1>5, <1>7, <1>9, <1>10 DEF Parts

LEMMA FailuresKeep ==
  ASSUME Parts, CopyFails \/ WriteFails
  PROVE  Parts'
<1> USE DEF Same, Lapse, Unavailable, CopyFails, WriteFails, RecordFails
<1>1. UNCHANGED <<current, db, wal, preSwitch, backups, committed, locator, directory>>
  OBVIOUS
<1>2. staging' \in {Absent, staging} /\ (staging' = staging \/ step \in Copied)
  BY DEF Copied
<1>3. /\ step \in {"backup", "migrate", "record", "record_moved", "record_installed"}
      /\ step' = "end" /\ phase' = "unavailable"
  OBVIOUS
<1>4. /\ Covered' /\ LogGoesOn' /\ FilesFit' /\ CopiesSaved' /\ LogSaved'
      /\ preSwitch' \in File /\ staging' \in File
  BY <1>1, <1>2, <1>3, Removing DEF Switching, Copied
<1>5. \A p \in Phases : /\ [phase |-> p, source |-> Old.schema] \in Journals
                        /\ [phase |-> p, source |-> Old.schema] # NoJournal
  BY DEF Parts, TypeOK, Old, File, Journals, Phases, NoJournal
<1>6. journal' \in Journals /\ (journal' = journal \/ journal' # NoJournal)
  BY <1>5 DEF Parts, TypeOK, Phases
<1>7. TypeOK'
  BY <1>1, <1>3, <1>4, <1>6 DEF Parts, TypeOK
<1>8. directory = "used"
  BY <1>3 DEF Parts, StepFits, Switching, Copied
<1> QED
  BY <1>1, <1>3, <1>4, <1>6, <1>7, <1>8
     DEF Parts, SwitchRecorded, StepFits, ReadyFits, DirectoryFits, Switching, Copied

LEMMA DieKeeps ==
  ASSUME Parts, Die
  PROVE  Parts'
<1> USE DEF Die, Ended, Holds
<1>1. UNCHANGED <<current, db, wal, staging, preSwitch, backups, committed, journal, locator, directory>>
  OBVIOUS
<1>2. Covered' /\ LogGoesOn' /\ FilesFit' /\ CopiesSaved' /\ LogSaved'
  BY <1>1, FilesAside DEF Switching, Copied
<1> QED
  BY <1>1, <1>2 DEF Parts, TypeOK, SwitchRecorded, StepFits, ReadyFits, DirectoryFits, Switching, Copied

LEMMA StopKeeps ==
  ASSUME Parts, Stop
  PROVE  Parts'
<1> USE DEF Stop, Ended, Holds
<1>1. CASE phase = "ready"
  <2>1. OpenAndClose /\ UNCHANGED <<current, staging, preSwitch, backups, committed, journal, locator, directory>>
    BY <1>1
  <2>2. /\ Covered' /\ LogGoesOn' /\ FilesFit' /\ CopiesSaved' /\ LogSaved'
        /\ db' \in File /\ wal' \in Log /\ (db' = Absent <=> db = Absent)
    BY <2>1, Opening DEF Switching, Copied
  <2> QED
    BY <2>1, <2>2 DEF Parts, TypeOK, SwitchRecorded, StepFits, ReadyFits, DirectoryFits, Switching, Copied
<1>2. CASE phase # "ready"
  BY <1>2, DieKeeps DEF Die
<1> QED
  BY <1>1, <1>2

-----------------------------------------------------------------------------
(* Actions that move a file.                                               *)

LEMMA InstallStagingKeeps ==
  ASSUME Parts, InstallStaging
  PROVE  Parts'
<1> USE DEF InstallStaging, Same, Holds, Goto, Unavailable
<1> DEFINE new == IF wal = NoWal THEN staging ELSE [staging EXCEPT !.ok = FALSE]
<1>1. /\ db = Absent /\ IsTarget(staging) /\ staging # Absent /\ journal # NoJournal /\ step = "put_right"
  BY Nothing DEF Situation, IsTarget, Valid, Parts, StepFits
<1>2. staging \in File /\ wal \in Log /\ TypeOK
  BY DEF Parts, TypeOK
<1>3. /\ new \in File /\ new.schema = staging.schema /\ new.holds = staging.holds
      /\ new.ok = (wal = NoWal)
  BY <1>1, <1>2, FileEdits DEF File, IsTarget, Valid
<1>4. /\ db' = new /\ wal' = NoWal /\ staging' = Absent /\ (new.ok => step' = "clean" /\ phase' = phase)
      /\ (~new.ok => step' = "end" /\ phase' = "unavailable")
      /\ UNCHANGED <<locator, directory, preSwitch, backups, journal, current, committed>>
  OBVIOUS
<1> HIDE DEF new, InstallStaging
<1>5. new # Absent /\ new.schema \in 1..current /\ wal'.of # db'.schema
  BY <1>1, <1>2, <1>3, <1>4, Nothing DEF Parts, FilesFit, TypeOK
<1>6. Seen' = new
  BY <1>4, <1>5 DEF Seen
<1>7. \A n : Saved(n)' <=> Saved(n)
  BY <1>4 DEF Saved
<1>8. \A n \in staging.holds : Saved(n)
  BY <1>1 DEF Parts, CopiesSaved
<1>9. wal # NoWal => AllSaved
  BY <1>1 DEF Parts, LogSaved, Strange
<1>10. Seen = Absent
  BY <1>1 DEF Seen
<1>11. Covered'
  BY <1>4, <1>7, <1>8, <1>10, Nothing DEF Parts, Covered
<1>12. AllSaved' <=> AllSaved
  BY <1>4, <1>7 DEF AllSaved
<1>13. LogSaved'
  BY <1>3, <1>4, <1>9, <1>12 DEF LogSaved, Strange, Switching, Copied
<1>14. CopiesSaved'
  BY <1>4, <1>7, Nothing DEF Parts, CopiesSaved, IsTarget, Valid, Copied
<1>15. FilesFit' /\ LogGoesOn'
  BY <1>3, <1>4, <1>5, Nothing DEF Parts, FilesFit, LogGoesOn
<1>16. TypeOK'
  BY <1>2, <1>3, <1>4, UpgradeAssumption, Nothing DEF TypeOK
<1> QED
  BY <1>1, <1>4, <1>5, <1>11, <1>13, <1>14, <1>15, <1>16
     DEF Parts, SwitchRecorded, StepFits, ReadyFits, DirectoryFits, Switching, Copied

LEMMA PutAsideKeeps ==
  ASSUME Parts, PutAside
  PROVE  Parts'
<1> USE DEF PutAside, Same, Holds, Goto
<1>1. /\ ~IsTarget(db) /\ staging = Absent /\ IsOld(preSwitch) /\ step = "put_right" /\ journal # NoJournal
      /\ db # Absent => wal = NoWal
  BY Nothing DEF Situation, Parts, StepFits
<1>2. /\ staging' = db /\ db' = Absent /\ step' = "move_back" /\ phase' = phase
      /\ UNCHANGED <<locator, directory, wal, preSwitch, backups, journal, current, committed>>
  OBVIOUS
<1>3. preSwitch.ok /\ preSwitch # Absent
  BY <1>1, Nothing DEF IsOld, Valid
<1>4. Seen = db
  BY <1>1, Nothing DEF Seen, Parts, TypeOK, FilesFit
<1>5. \A n : Saved(n)' <=> Saved(n)
  BY <1>2 DEF Saved
<1>6. AllSaved' <=> AllSaved
  BY <1>2, <1>5 DEF AllSaved
<1>7. Covered'
  BY <1>1, <1>2, <1>4, <1>5, Nothing DEF Parts, Covered
<1>8. LogSaved'
  BY <1>1, <1>2, <1>6 DEF Parts, LogSaved, Strange, Switching, Copied
<1>9. CopiesSaved'
  BY <1>1, <1>2, <1>5 DEF Parts, CopiesSaved, IsTarget, Valid, Copied
<1>10. FilesFit' /\ LogGoesOn'
  BY <1>2, <1>5, Nothing DEF Parts, FilesFit, LogGoesOn
<1>11. TypeOK'
  BY <1>2, UpgradeAssumption, Nothing DEF Parts, TypeOK
<1> QED
  BY <1>1, <1>2, <1>3, <1>7, <1>8, <1>9, <1>10, <1>11
     DEF Parts, SwitchRecorded, StepFits, ReadyFits, DirectoryFits, Switching, Copied

LEMMA MoveBackKeeps ==
  ASSUME Parts, MoveBack
  PROVE  Parts'
<1> USE DEF MoveBack, Same, Holds, Goto, Unavailable
<1> DEFINE old == IF wal \in {NoWal, [wal EXCEPT !.of = preSwitch.schema]} THEN preSwitch
                  ELSE [preSwitch EXCEPT !.ok = FALSE]
<1>1. step = "move_back" /\ db = Absent /\ preSwitch # Absent /\ preSwitch.ok /\ journal # NoJournal
  BY DEF Parts, StepFits
<1>2. preSwitch \in File /\ wal \in Log /\ TypeOK
  BY DEF Parts, TypeOK
<1>3. old \in File /\ old.schema = preSwitch.schema /\ old.holds = preSwitch.holds
  BY <1>2, FileEdits DEF File
<1>4. ~old.ok => wal # NoWal
  BY <1>1
<1>5. /\ db' = old /\ preSwitch' = Absent /\ step' \in {"clean", "end"} /\ phase' \in {phase, "unavailable"}
      /\ UNCHANGED <<locator, directory, wal, staging, backups, journal, current, committed>>
  OBVIOUS
<1> HIDE DEF old, MoveBack
<1>6. old # Absent /\ old.schema \in 1..current
  BY <1>1, <1>2, <1>3, Nothing DEF Parts, FilesFit, TypeOK
<1>7. \A n : Saved(n)' <=> Saved(n)
  BY <1>5 DEF Saved
<1>8. \A n \in preSwitch.holds : Saved(n)
  BY DEF Parts, CopiesSaved
<1>9. wal # NoWal => AllSaved
  BY <1>1 DEF Parts, LogSaved, Strange
<1>10. Seen = Absent
  BY <1>1 DEF Seen
<1>11. Covered'
  BY <1>5, <1>7, <1>10, Nothing DEF Parts, Covered
<1>12. AllSaved' <=> AllSaved
  BY <1>5, <1>7 DEF AllSaved
<1>13. LogSaved'
  BY <1>4, <1>5, <1>9, <1>12 DEF LogSaved, Strange, Switching, Copied
<1>14. CopiesSaved'
  BY <1>5, <1>7, Nothing DEF Parts, CopiesSaved, IsTarget, Valid, Copied
<1>15. FilesFit' /\ LogGoesOn'
  BY <1>3, <1>5, <1>6, <1>7, <1>8, Nothing DEF Parts, FilesFit, LogGoesOn
<1>16. TypeOK'
  BY <1>2, <1>3, <1>5, UpgradeAssumption, Nothing DEF TypeOK
<1> QED
  BY <1>1, <1>5, <1>6, <1>11, <1>13, <1>14, <1>15, <1>16
     DEF Parts, SwitchRecorded, StepFits, ReadyFits, DirectoryFits, Switching, Copied

(* After the backup every transaction is saved.                            *)
LEMMA BackupSaves ==
  ASSUME Parts, Backup
  PROVE  AllSaved' /\ \A n \in staging'.holds : Saved(n)'
<1>1. Seen.ok /\ backups' = Copies \cup {Seen} /\ committed' = committed /\ staging' = Seen
  BY DEF Backup, Same, Parts, StepFits
<1>2. \A n : Saved(n) => Saved(n)'
  BY <1>1 DEF Saved, Copies
<1>3. \A n \in Seen.holds : Saved(n)'
  BY <1>1 DEF Saved
<1>4. staging.ok => \A n \in staging.holds : Saved(n)'
  BY <1>1, Nothing DEF Saved, Copies
<1> QED
  BY <1>1, <1>2, <1>3, <1>4 DEF Parts, Covered, AllSaved

LEMMA BackupKeeps ==
  ASSUME Parts, Backup
  PROVE  Parts'
<1> USE DEF Backup, Same, Holds, Goto
<1>1. /\ step = "backup" /\ db # Absent /\ Seen.ok /\ directory = "used"
  BY DEF Parts, StepFits, Switching, Copied
<1>2. /\ backups' = Copies \cup {Seen} /\ staging' = Seen /\ preSwitch' = Absent /\ step' = "migrate" /\ phase' = phase
      /\ UNCHANGED <<locator, directory, db, wal, journal, current, committed>>
  OBVIOUS
<1>3. /\ Seen \in File /\ Seen.schema = db.schema /\ Copies \in SUBSET File /\ TypeOK
      /\ Seen.holds = IF db # Absent /\ wal.of = db.schema THEN wal.holds ELSE db.holds
  BY SeenIsFile DEF Parts, TypeOK, Copies
<1>4. AllSaved' /\ \A n \in staging'.holds : Saved(n)'
  BY BackupSaves
<1> HIDE DEF Backup
<1>5. Covered'
  BY <1>4 DEF Covered, AllSaved
<1>6. CopiesSaved' /\ LogSaved'
  BY <1>2, <1>4, Nothing DEF CopiesSaved, LogSaved
<1>7. \A n : Saved(n) => Saved(n)'
  BY <1>2 DEF Saved, Copies
<1>8. LogGoesOn'
  BY <1>2, <1>7 DEF Parts, LogGoesOn
<1>9. Seen # Absent /\ Seen.schema \in 1..current /\ Seen.holds \subseteq 1..committed
  BY <1>1, <1>3, Nothing DEF Parts, FilesFit
<1>10. \A f \in Copies : f.holds \subseteq 1..committed
  BY DEF Parts, FilesFit, Copies
<1>11. FilesFit'
  BY <1>2, <1>9, <1>10, Nothing DEF Parts, FilesFit
<1>12. TypeOK'
  BY <1>2, <1>3, UpgradeAssumption, Nothing DEF TypeOK
<1> QED
  BY <1>1, <1>2, <1>5, <1>6, <1>8, <1>9, <1>11, <1>12
     DEF Parts, SwitchRecorded, StepFits, ReadyFits, DirectoryFits, Switching, Copied

LEMMA MigrateKeeps ==
  ASSUME Parts, Migrate
  PROVE  Parts'
<1> USE DEF Migrate, Same, Holds, Goto
<1> DEFINE new == [staging EXCEPT !.schema = current]
<1>1. step = "migrate" /\ AllSaved /\ \A n \in staging.holds : Saved(n)
  BY DEF Parts, LogSaved, CopiesSaved, Switching, Copied
<1>2. staging \in File /\ current \in 1..Releases /\ TypeOK
  BY DEF Parts, TypeOK
<1>3. new \in File /\ new.schema = current /\ new.holds = staging.holds
  BY <1>2, FileEdits, UpgradeAssumption DEF File, UpgradeAssumption
<1>4. /\ staging' = new /\ step' = "record" /\ phase' = phase
      /\ UNCHANGED <<locator, directory, db, wal, preSwitch, backups, journal, current, committed>>
  OBVIOUS
<1> HIDE DEF new, Migrate
<1>5. new # Absent /\ new.schema \in 1..current
  BY <1>2, <1>3, Nothing
<1>6. \A n : Saved(n)' <=> Saved(n)
  BY <1>4 DEF Saved
<1>7. AllSaved'
  BY <1>1, <1>4, <1>6 DEF AllSaved
<1>8. Covered' /\ LogSaved'
  BY <1>7 DEF Covered, LogSaved, AllSaved
<1>9. CopiesSaved'
  BY <1>1, <1>3, <1>4, <1>6 DEF Parts, CopiesSaved
<1>10. FilesFit' /\ LogGoesOn'
  BY <1>3, <1>4, <1>5, <1>6 DEF Parts, FilesFit, LogGoesOn
<1>11. TypeOK'
  BY <1>2, <1>3, <1>4 DEF TypeOK
<1> QED
  BY <1>1, <1>4, <1>5, <1>8, <1>9, <1>10, <1>11
     DEF Parts, SwitchRecorded, StepFits, ReadyFits, DirectoryFits, Switching, Copied

LEMMA MovesKeep ==
  ASSUME Parts, MoveOriginal \/ MoveStaging
  PROVE  Parts'
<1> USE DEF MoveOriginal, MoveStaging, Same, Holds, Goto
<1>1. /\ AllSaved /\ \A n \in staging.holds : Saved(n)
      /\ \A n \in preSwitch.holds : Saved(n)
  BY DEF Parts, LogSaved, CopiesSaved, Switching, Copied
<1>2. /\ directory = "used" /\ journal # NoJournal /\ staging # Absent
      /\ step = "move_original" => db # Absent
  BY DEF Parts, StepFits, Switching, Copied
<1>3. UNCHANGED <<locator, directory, wal, backups, journal, current, committed, phase>>
  OBVIOUS
<1>4. \A n : Saved(n)' <=> Saved(n)
  BY <1>3 DEF Saved
<1>5. AllSaved' /\ Covered' /\ LogSaved'
  BY <1>1, <1>3, <1>4 DEF AllSaved, Covered, LogSaved
<1>6. TypeOK'
  BY <1>3, UpgradeAssumption, Nothing DEF Parts, TypeOK
<1>7. FilesFit'
  BY <1>3, Nothing DEF Parts, FilesFit
<1>8. CopiesSaved'
  <2>1. \A f \in {db, staging, preSwitch} : \A n \in f.holds : Saved(n)
    BY <1>1 DEF Parts, FilesFit, AllSaved
  <2> QED
    BY <1>3, <1>4, <2>1, Nothing DEF CopiesSaved
<1>9. LogGoesOn'
  <2>1. \A n \in db'.holds : Saved(n)'
    BY <1>1, <1>4, Nothing
  <2> QED
    BY <2>1 DEF LogGoesOn
<1> QED
  BY <1>2, <1>3, <1>5, <1>6, <1>7, <1>8, <1>9
     DEF Parts, SwitchRecorded, StepFits, ReadyFits, DirectoryFits, Switching, Copied

LEMMA InstallDatabaseKeeps ==
  ASSUME Parts, InstallDatabase
  PROVE  Parts'
<1> USE DEF InstallDatabase, Same, Holds, Goto
<1> DEFINE new == [schema |-> current, ok |-> TRUE, holds |-> {}]
<1>1. step = "install" /\ directory # "used" /\ committed = 0 /\ current \in 1..Releases
  BY DEF Parts, StepFits, DirectoryFits, TypeOK
<1>2. new \in File /\ new # Absent /\ new.schema = current /\ new.holds = {} /\ new.ok = TRUE
  BY <1>1, UpgradeAssumption DEF File, Absent, UpgradeAssumption
<1>3. /\ db' = new /\ directory' = "used" /\ step' = "save" /\ phase' = phase
      /\ UNCHANGED <<locator, wal, staging, preSwitch, backups, journal, current, committed>>
  OBVIOUS
<1> HIDE DEF new, InstallDatabase
<1>4. \A n : Saved(n)' <=> Saved(n)
  BY <1>3 DEF Saved
<1>5. 1..committed' = {}
  BY <1>1, <1>3
<1>6. AllSaved' /\ Covered' /\ LogSaved'
  BY <1>5 DEF AllSaved, Covered, LogSaved
<1>7. TypeOK'
  BY <1>2, <1>3 DEF Parts, TypeOK
<1>8. FilesFit' /\ LogGoesOn'
  BY <1>1, <1>2, <1>3 DEF Parts, FilesFit, LogGoesOn
<1>9. CopiesSaved'
  BY <1>1, <1>3, <1>4 DEF Parts, CopiesSaved, IsTarget, Valid, Copied
<1> QED
  BY <1>1, <1>2, <1>3, <1>6, <1>7, <1>8, <1>9
     DEF Parts, SwitchRecorded, StepFits, ReadyFits, DirectoryFits, Switching, Copied

-----------------------------------------------------------------------------
(* The program that is ready, and the host.                                *)

LEMMA CommitKeeps ==
  ASSUME Parts, Commit
  PROVE  Parts'
<1> USE DEF Commit, Holds
<1> DEFINE new == [of |-> db.schema, holds |-> Seen.holds \cup {committed + 1}]
<1>1. /\ step = "end" /\ locator /\ db # Absent /\ db.ok /\ ~Strange /\ phase = "ready"
      /\ committed \in 0..MaxCommits /\ committed < MaxCommits /\ MaxCommits \in Nat
  BY UpgradeAssumption DEF Parts, ReadyFits, TypeOK, UpgradeAssumption
<1>2. /\ Seen \in File /\ Seen.holds \in SUBSET (1..MaxCommits) /\ db.schema \in 0..Releases /\ db \in File
      /\ Seen.holds = IF wal.of = db.schema THEN wal.holds ELSE db.holds
  BY <1>1, SeenIsFile, Fields DEF File, Parts, TypeOK
<1>3. /\ committed + 1 \in 1..MaxCommits /\ 1..(committed + 1) = (1..committed) \cup {committed + 1}
  BY <1>1
<1>4. new \in Log /\ new.of = db.schema /\ new.holds = Seen.holds \cup {committed + 1}
  BY <1>2, <1>3 DEF Log
<1>5. /\ wal' = new /\ committed' = committed + 1
      /\ UNCHANGED <<current, locator, directory, db, staging, preSwitch, backups, journal, step, phase>>
  OBVIOUS
<1> HIDE DEF new, Commit
<1>6. new # NoWal
  BY <1>3, <1>4, Nothing
<1>7. Seen'.ok = db.ok /\ Seen'.holds = new.holds
  <2>1. Seen' = [db EXCEPT !.holds = new.holds]
    BY <1>1, <1>4, <1>5 DEF Seen
  <2> QED
    BY <1>2, <2>1 DEF File
<1>8. \A n : Saved(n)' <=> Saved(n)
  BY <1>5 DEF Saved
<1>9. Seen.ok
  BY <1>1, SeenIsFile DEF Parts
<1>10. Covered'
  BY <1>1, <1>3, <1>4, <1>5, <1>7, <1>8, <1>9 DEF Parts, Covered
<1>11. ~Strange'
  BY <1>1, <1>4, <1>5 DEF Strange
<1>12. LogSaved'
  BY <1>1, <1>5, <1>11 DEF LogSaved, Switching, Copied
<1>13. CopiesSaved'
  BY <1>5, <1>8 DEF Parts, CopiesSaved, IsTarget, Valid
<1>14. LogGoesOn'
  <2>1. wal.of = db.schema => wal # NoWal
    BY <1>1, Nothing DEF Parts, FilesFit, TypeOK
  <2> QED
    BY <1>2, <1>4, <1>5, <1>8, <2>1 DEF Parts, LogGoesOn
<1>15. FilesFit'
  <2>1. Seen.holds \subseteq 1..committed
    BY <1>2 DEF Parts, FilesFit
  <2> QED
    BY <1>1, <1>3, <1>4, <1>5, <2>1 DEF Parts, FilesFit
<1>16. TypeOK'
  BY <1>1, <1>3, <1>4, <1>5 DEF Parts, TypeOK
<1> QED
  BY <1>1, <1>5, <1>10, <1>11, <1>12, <1>13, <1>14, <1>15, <1>16
     DEF Parts, SwitchRecorded, StepFits, ReadyFits, DirectoryFits, Switching, Copied

LEMMA CheckpointKeeps ==
  ASSUME Parts, Checkpoint
  PROVE  Parts'
<1> USE DEF Checkpoint, Same, Holds
<1>1. /\ step = "end" /\ locator /\ db # Absent /\ ~Strange /\ phase = "ready"
      /\ UNCHANGED <<current, locator, directory, staging, preSwitch, backups, journal, step, phase, committed>>
  BY DEF Parts, ReadyFits
<1>2. OpenAndClose
  BY <1>1 DEF OpenAndClose, Opened, Strange
<1>3. /\ Covered' /\ LogGoesOn' /\ FilesFit' /\ CopiesSaved' /\ LogSaved'
      /\ db' \in File /\ wal' \in Log /\ (db' = Absent <=> db = Absent)
      /\ db' # Absent => wal' = NoWal
  BY <1>1, <1>2, Opening
<1>4. db'.ok
  BY SeenIsFile DEF Parts, ReadyFits
<1> QED
  BY <1>1, <1>3, <1>4
     DEF Parts, TypeOK, SwitchRecorded, StepFits, ReadyFits, DirectoryFits, Switching, Copied, Strange

LEMMA NewReleaseKeeps ==
  ASSUME Parts, NewRelease
  PROVE  Parts'
<1> USE DEF NewRelease, Holds, disks
<1>1. step = "off" /\ current' = current + 1 /\ current \in 1..Releases /\ current < Releases
      /\ UNCHANGED <<locator, directory, db, wal, staging, preSwitch, backups, journal, step, phase, committed>>
  BY DEF Parts, TypeOK
<1>2. \A n : Saved(n)' <=> Saved(n)
  BY <1>1 DEF Saved
<1>3. Seen' = Seen /\ (Strange' <=> Strange) /\ (AllSaved' <=> AllSaved)
  BY <1>1, <1>2 DEF Seen, Strange, AllSaved
<1>4. Covered' /\ LogGoesOn' /\ LogSaved'
  BY <1>1, <1>2, <1>3 DEF Parts, Covered, LogGoesOn, LogSaved
<1>5. 1..current \subseteq 1..current' /\ current' \in 1..Releases
  BY <1>1, UpgradeAssumption DEF UpgradeAssumption
<1>6. FilesFit'
  BY <1>1, <1>5 DEF Parts, FilesFit
<1>7. ~IsTarget(staging)'
  BY <1>1, Nothing DEF Parts, FilesFit, IsTarget, Valid
<1>8. CopiesSaved'
  BY <1>1, <1>2, <1>7 DEF Parts, CopiesSaved, Copied
<1>9. TypeOK'
  BY <1>1, <1>5 DEF Parts, TypeOK
<1> QED
  BY <1>1, <1>3, <1>4, <1>6, <1>8, <1>9 DEF Parts, SwitchRecorded, StepFits, ReadyFits, DirectoryFits, Switching, Copied

-----------------------------------------------------------------------------
LEMMA NextKeeps ==
  ASSUME Parts, [Next]_vars
  PROVE  Parts'
<1>1. CASE Next
  BY <1>1, StartsKeep, RecordsKeep, RecoverKeeps, VerifyKeeps, OpenKeeps, RemovalsKeep, FailuresKeep, DieKeeps,
     StopKeeps, InstallStagingKeeps, PutAsideKeeps, MoveBackKeeps, BackupKeeps, MigrateKeeps, MovesKeep,
     InstallDatabaseKeeps, CommitKeeps, CheckpointKeeps, NewReleaseKeeps
     DEF Next, Starting, Failing
<1>2. CASE UNCHANGED vars
  <2>1. UNCHANGED <<current, locator, directory, db, wal, staging, preSwitch, backups, journal, step, phase, committed>>
    BY <1>2 DEF vars, disks
  <2>2. Covered' /\ LogGoesOn' /\ FilesFit' /\ CopiesSaved' /\ LogSaved'
    BY <2>1, FilesAside
  <2> QED
    BY <2>1, <2>2
       DEF Parts, TypeOK, SwitchRecorded, StepFits, ReadyFits, DirectoryFits, Strange, Seen
<1> QED
  BY <1>1, <1>2

(* For any releases and any number of transactions, faults and crashes: no *)
(* step of an upgrade or a recovery that fails or is cut off loses an      *)
(* acknowledged transaction, and the journal names the files of a switch   *)
(* while none has the name meetings.db.                                    *)
THEOREM UpgradeKeepsAll == Spec => []UpgradeInv
<1>1. Init => Parts
  BY InitHolds
<1>2. Parts /\ [Next]_vars => Parts'
  BY NextKeeps
<1>3. Parts => UpgradeInv
  BY PartsSuffice
<1> QED
  BY <1>1, <1>2, <1>3, PTL DEF Spec
=============================================================================
