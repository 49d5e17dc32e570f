--------------------------------- MODULE Files ---------------------------------
(* The files and lists of a user's tools, one component at a time: a behaviour is   *)
(* one of attachments saved with their mails (MailFiles), of files converted to     *)
(* text (Conversions), of the records of read files (FileRecords), of OneDrive      *)
(* (OneDrive) or of to-do lists (ToDo). The variables of the other components are   *)
(* Off.                                                                             *)
EXTENDS Naturals, Sequences, FiniteSets, SequencesExt

CONSTANTS Letters, MailItems, FolderOf, SaveCalls, MaxAsked, FetchSize,
          AttachmentLimit, RequestBudget, Quota, SimpleMax, Chunks, MaxNumber,              \* MailFiles
          MailCalls, FileCalls, MaxWorkers, PerCall, Size, Budget,
          MaxFileSize, MaxFiles,                                           \* Conversions
          Owners, Refs, Keywords, MaxKeywords, MaxTime, NoRow,             \* FileRecords
          DriveIds, DriveNames, Texts, MaxCopies, Root, Nothing,           \* OneDrive
          ListIds, Padded, BuiltIn, Names, DefaultName, Tasks, Titles,
          Dues, FirstPages,                                                \* ToDo
          Off

VARIABLES part,
  legacy, files, record, crowded, fileCall,
  call, thread, taken, deferred, closing,
  store, table, memory, frozen, now, answer,
  drive, copying, enabled, driveCall,
  lists, title, tasks, todoCall

Saves == INSTANCE MailFiles
           WITH Items <- MailItems, FileCalls <- SaveCalls, MaxCopies <- MaxNumber
Converts == INSTANCE Conversions WITH Items <- PerCall
Saved == INSTANCE FileRecords WITH Words <- Keywords
Drive == INSTANCE OneDrive WITH Items <- DriveIds, Words <- DriveNames
Todo == INSTANCE ToDo

ASSUME FilesAssumption ==
  /\ Saves!FilesAssumption /\ Converts!ConversionAssumption /\ Saved!RecordAssumption
  /\ Drive!DriveAssumption /\ Todo!TodoAssumption

-----------------------------------------------------------------------------
saveVars == <<legacy, files, record, crowded, fileCall>>
convertVars == <<call, thread, taken, deferred, closing>>
recordVars == <<store, table, memory, frozen, now, answer>>
driveVars == <<drive, copying, enabled, driveCall>>
todoVars == <<lists, title, tasks, todoCall>>
vars == <<part, saveVars, convertVars, recordVars, driveVars, todoVars>>

SavesOff == legacy = Off /\ files = Off /\ record = Off /\ crowded = Off /\ fileCall = Off
ConvertsOff == call = Off /\ thread = Off /\ taken = Off /\ deferred = Off /\ closing = Off
RecordsOff == /\ store = Off /\ table = Off /\ memory = Off /\ frozen = Off
              /\ now = Off /\ answer = Off
DriveOff == drive = Off /\ copying = Off /\ enabled = Off /\ driveCall = Off
TodoOff == lists = Off /\ title = Off /\ tasks = Off /\ todoCall = Off

Init ==
  \/ part = "saves" /\ Saves!FileInit /\ ConvertsOff /\ RecordsOff /\ DriveOff /\ TodoOff
  \/ part = "converts" /\ Converts!ConvertInit /\ SavesOff /\ RecordsOff /\ DriveOff /\ TodoOff
  \/ part = "records" /\ Saved!RecordInit /\ SavesOff /\ ConvertsOff /\ DriveOff /\ TodoOff
  \/ part = "drive" /\ Drive!DriveInit /\ SavesOff /\ ConvertsOff /\ RecordsOff /\ TodoOff
  \/ part = "todo" /\ Todo!TodoInit /\ SavesOff /\ ConvertsOff /\ RecordsOff /\ DriveOff

SaveStep ==
  part = "saves" /\ Saves!FileNext /\ UNCHANGED <<part, convertVars, recordVars, driveVars, todoVars>>
ConvertStep ==
  /\ part = "converts" /\ Converts!ConvertNext
  /\ UNCHANGED <<part, saveVars, recordVars, driveVars, todoVars>>
RecordStep ==
  /\ part = "records" /\ Saved!RecordNext
  /\ UNCHANGED <<part, saveVars, convertVars, driveVars, todoVars>>
DriveStep ==
  part = "drive" /\ Drive!DriveNext /\ UNCHANGED <<part, saveVars, convertVars, recordVars, todoVars>>
TodoStep ==
  part = "todo" /\ Todo!TodoNext /\ UNCHANGED <<part, saveVars, convertVars, recordVars, driveVars>>

Next == SaveStep \/ ConvertStep \/ RecordStep \/ DriveStep \/ TodoStep

Spec == Init /\ [][Next]_vars

-----------------------------------------------------------------------------
\* Every variable of the component at work has its type.
TypeOK ==
  /\ part = "saves" => Saves!FileTypeOK
  /\ part = "converts" => Converts!ConvertTypeOK
  /\ part = "records" => Saved!RecordTypeOK
  /\ part = "drive" => Drive!DriveTypeOK
  /\ part = "todo" => Todo!TodoTypeOK

\* What a tool says of files is so: a mail on the list of processed ones has its files
\* saved, but for a text nobody asked for and attachments without content
\* (RecordedIsSaved), a success means it is on that list (SuccessIsRecorded), the files
\* are within the quota unless calls wrote at once (QuotaKept), a search finds what it was
\* asked for literally (SearchIsLiteral), and an account cut off from OneDrive gets no
\* content (CutOffGetsNothing).
FilesAreTrue ==
  /\ part = "saves" => Saves!RecordedIsSaved /\ Saves!SuccessIsRecorded /\ Saves!QuotaKept
  /\ part = "records" => Saved!SearchIsLiteral
  /\ part = "drive" => Drive!CutOffGetsNothing

\* Though a converter cannot be stopped, no more of them run than there are slots
\* (WorkersBounded), on a directory that stays while they run and goes with the last,
\* unless a thread of the call could not be started (DirectoryHeld), within the budget of
\* a call (BudgetKept) and none after its own service closed without an error
\* (ClosedIsQuiet): conversion_workers.py, file_manager.py.
ConvertersHold ==
  part = "converts" => /\ Converts!WorkersBounded /\ Converts!DirectoryHeld
                       /\ Converts!BudgetKept /\ Converts!ClosedIsQuiet

\* A tool changes what it was asked to and nothing else: files a user has stay under
\* their names (UserFilesStay), a user's rows are written by the user's calls alone and
\* keep their age (RowsStayTheirOwners), the contents of OneDrive change only where a
\* call was told to overwrite or delete (ContentsStay), a move ends where it looked
\* (MovesWhereItLooked), and a to-do tool changes the list its name meant at the lookup
\* and, of a task, the fields it was given (TouchesTheNamedList).
OnlyTheNamedChanges ==
  /\ [][part = "saves" => Saves!UserFilesStay]_vars
  /\ [][part = "records" => Saved!RowsStayTheirOwners]_vars
  /\ [][part = "drive" => Drive!ContentsStay /\ Drive!MovesWhereItLooked]_vars
  /\ [][part = "todo" => Todo!TouchesTheNamedList]_vars
=============================================================================
