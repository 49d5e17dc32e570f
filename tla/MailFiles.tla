------------------------------ MODULE MailFiles ------------------------------
(***************************************************************************)
(* What the mail tools save of mails: their texts and attachments, in the  *)
(* user's files or in OneDrive, and the list of the mails that were done   *)
(* (mail_attachment.py, mail_attachment_processor.py, mail_attachment_     *)
(* storage.py, mail_attachment_user_storage.py, storage_schema.py).  Calls *)
(* of one user interleave.  In the single-user mode the files are those of *)
(* LocalStorageBackend and the list is a JSON file (MailMetadataManager),  *)
(* read whole when a call begins and written whole.                        *)
(* An item is a file of a mail, its text the first; of an attachment Graph *)
(* may send no contentBytes (a large or a linked one).  Conversion changes *)
(* an item's content only, and is left out here.                           *)
(***************************************************************************)
EXTENDS Naturals, Sequences, FiniteSets, SequencesExt, FiniteSetsExt, Functions

CONSTANTS
    Letters,         \* the mails
    Items,           \* mail -> its items: name, size and whether Graph sends the content
    FolderOf,        \* mail -> create_folder_name(): date, sender and subject
    FileCalls,
    MaxAsked,        \* how many mails a call may name, MAX_MESSAGE_IDS
    FetchSize,       \* max_batch_size of BatchAttachmentHandler, 20 in the code
    AttachmentLimit, \* MAX_ATTACHMENT_BYTES
    RequestBudget,   \* MAX_REQUEST_ATTACHMENT_BYTES
    Quota,           \* MAX_USER_DOWNLOAD_BYTES
    SimpleMax,       \* SIMPLE_UPLOAD_MAX_SIZE
    Chunks,          \* chunks of an upload session
    MaxCopies        \* how often a name may be numbered, 99999 in the code

FilesAssumption ==
    /\ IsFiniteSet(Letters)
    /\ Items \in [Letters -> Seq([name : STRING, size : Nat, content : BOOLEAN]) \ {<<>>}]
    /\ {MaxAsked, FetchSize, AttachmentLimit, RequestBudget, Quota, Chunks} \subseteq Nat \ {0}
    /\ SimpleMax \in Nat /\ MaxCopies \in Nat

Unscanned == Quota + 1
NoRecord == [refs |-> << >>, done |-> FALSE, text |-> FALSE]

VARIABLES
    legacy,    \* the single-user mode
    files,     \* <<store, folder, name, copy>> -> <<mail, item>> of which it has the content
    record,    \* processed_messages: mail -> the files saved of it
               \* (text is history: the call that saved it was asked for the text)
    crowded,   \* history: two calls wrote files of the user at once
    fileCall   \* call -> its local state

fileVars == <<legacy, files, record, crowded, fileCall>>

IdleSave == [op |-> "none", pc |-> "idle", store |-> "none", asked |-> {}, text |-> TRUE, todo |-> <<>>, batch |-> <<>>,
             item |-> 1, refs |-> << >>, clean |-> TRUE, errors |-> FALSE, processed |-> 0,
             usage |-> Unscanned, budget |-> RequestBudget, chunk |-> 0, loaded |-> << >>,
             status |-> "none"]

FileTypeOK ==
    /\ legacy \in BOOLEAN /\ crowded \in BOOLEAN
    /\ \A at \in DOMAIN files : at[1] \in {"local", "onedrive"} /\ files[at][1] \in Letters
    /\ DOMAIN record = Letters
    /\ \A c \in FileCalls :
        /\ fileCall[c].usage \in Nat /\ fileCall[c].budget \in 0..RequestBudget
        /\ fileCall[c].chunk \in 0..Chunks
        /\ fileCall[c].status \in {"none", "success", "partial", "error", "quota_exceeded", "auth_required"}

FileInit ==
    /\ legacy \in BOOLEAN
    /\ files = << >> /\ record = [l \in Letters |-> NoRecord] /\ crowded = FALSE
    /\ fileCall = [c \in FileCalls |-> IdleSave]

-----------------------------------------------------------------------------
\* f, and what it leaves out as in g; one value more, or another one.
f ++ g == [k \in DOMAIN f \cup DOMAIN g |-> IF k \in DOMAIN f THEN f[k] ELSE g[k]]
Put(f, k, v) == [x \in DOMAIN f \cup {k} |-> IF x = k THEN v ELSE f[x]]

Upd(c, fields) == fileCall' = [fileCall EXCEPT ![c] = fields ++ @]
In(c, pc) == fileCall[c].pc = pc
Store(at, content) == files' = Put(files, at, content)
\* A call that is over has nothing left but its answer.
Ends(c, status, asked) ==
    fileCall' = [fileCall EXCEPT ![c] =
        [IdleSave EXCEPT !.op = fileCall[c].op, !.store = fileCall[c].store, !.asked = asked,
                         !.pc = "done", !.status = status]]

\* The mail and the item a call is at: a specific one is named by the list itself.
Letter(c) == IF fileCall[c].op = "specific" THEN fileCall[c].batch[1][1] ELSE fileCall[c].batch[1]
Item(c) == IF fileCall[c].op = "specific" THEN fileCall[c].batch[1][2] ELSE fileCall[c].item
ItemHere(c) == Items[Letter(c)][Item(c)]

LocalBytes == SumFunctionOnSet([at \in DOMAIN files |-> Items[files[at][1]][files[at][2]].size],
                               {at \in DOMAIN files : at[1] = "local"})

\* open_numbered_exclusive(), write_new_file(): name, name_1, name_2, ... while the numbers last.
FreeCopies(store, folder, name) ==
    {k \in 0..MaxCopies : <<store, folder, name, k>> \notin DOMAIN files}
FreeCopy(store, folder, name) == Min(FreeCopies(store, folder, name))

\* filter_new_messages()
New(known, asked) == {l \in asked : ~known[l].done}
\* A list of mails is in any order and may name a mail again.
ListsOf(S) == {ids \in SeqOf(S, MaxAsked) : ToSet(ids) = S}

\* fetch_and_save(), from fetch_and_process() or download_attachments(): with the texts or
\* not (include_body), and unless it is told otherwise (skip_duplicates) what was done
\* before, wherever to, is not done again.
BeginSave(c) ==
    /\ In(c, "idle")
    /\ \E store \in {"local", "onedrive", "memory"}, asked \in SUBSET Letters \ {{}},
          text, again \in BOOLEAN :
        \E todo \in ListsOf(IF again THEN asked ELSE New(record, asked)) :
            Upd(c, [op |-> "save", store |-> store, asked |-> asked, text |-> text, todo |-> todo,
                    loaded |-> IF legacy THEN record ELSE << >>,
                    pc |-> IF todo = <<>> THEN "done" ELSE "fetching",
                    status |-> IF todo = <<>> THEN "success" ELSE "none"])
    /\ UNCHANGED <<legacy, files, record, crowded>>

\* fetch_specific_attachments(): attachments of mails, in the order of the request.
BeginSpecific(c) ==
    /\ In(c, "idle")
    /\ \E store \in {"local", "onedrive"}, l \in Letters :
        LET attachments == [i \in 1..(Len(Items[l]) - 1) |-> <<l, i + 1>>]
        IN  /\ attachments # <<>>
            /\ Upd(c, [op |-> "specific", store |-> store, asked |-> ToSet(attachments),
                       batch |-> attachments, pc |-> "mails"])
    /\ UNCHANGED <<legacy, files, record, crowded>>

\* _get_access_token() gives none: the call ends before it asks for anything.
NoToken(c) ==
    /\ In(c, "idle")
    /\ \E op \in {"save", "specific"} :
        Upd(c, [op |-> op, pc |-> "done", status |-> IF legacy THEN "error" ELSE "auth_required"])
    /\ UNCHANGED <<legacy, files, record, crowded>>

\* The requests of a batch in one POST, which may fail as a whole.
FetchBatch(c) ==
    LET todo == fileCall[c].todo
        n == Min({FetchSize, Len(todo)})
        rest == SubSeq(todo, n + 1, Len(todo))
    IN  /\ In(c, "fetching") /\ todo # <<>>
        /\ \/ Upd(c, [todo |-> rest, batch |-> SubSeq(todo, 1, n), pc |-> "mails"])
           \/ Upd(c, [todo |-> rest, errors |-> TRUE])
        /\ UNCHANGED <<legacy, files, record, crowded>>

Skip(c) == Upd(c, [batch |-> Tail(fileCall[c].batch), errors |-> TRUE, pc |-> "mails"])

\* create_folder(): it is there already or is made; in OneDrive that may fail.
MakeFolder(c) ==
    \/ Upd(c, [item |-> 1, refs |-> << >>, clean |-> TRUE, pc |-> "items"])
    \/ fileCall[c].store = "onedrive" /\ Skip(c)

\* A mail of the batch, or an attachment: Graph shows it or refuses it.
NextMail(c) ==
    /\ In(c, "mails") /\ fileCall[c].batch # <<>>
    /\ MakeFolder(c) \/ Skip(c)
    /\ UNCHANGED <<legacy, files, record, crowded>>

BatchDone(c) ==
    /\ In(c, "mails") /\ fileCall[c].batch = <<>>
    /\ Upd(c, [pc |-> "fetching"])
    /\ UNCHANGED <<legacy, files, record, crowded>>

-----------------------------------------------------------------------------
AllItemsSeen(c) == fileCall[c].op = "save" /\ fileCall[c].item > Len(Items[Letter(c)])
AtItem(c) == In(c, "items") /\ ~AllItemsSeen(c)

Saved(c, at, more) ==
    Upd(c, more ++ (IF fileCall[c].op = "specific"
                    THEN [batch |-> Tail(fileCall[c].batch), processed |-> fileCall[c].processed + 1, pc |-> "mails"]
                    ELSE [item |-> fileCall[c].item + 1, pc |-> "items",
                          refs |-> Put(fileCall[c].refs, fileCall[c].item, at)]))
NotSaved(c, more) ==
    IF fileCall[c].op = "specific"
    THEN Upd(c, more ++ [batch |-> Tail(fileCall[c].batch), errors |-> TRUE, pc |-> "mails"])
    ELSE Upd(c, more ++ [item |-> fileCall[c].item + 1, clean |-> FALSE, errors |-> TRUE, pc |-> "items"])

IsText(c) == Item(c) = 1
\* The text was not asked for, or there is no content of the attachment.
Absent(c) == IF IsText(c) THEN ~fileCall[c].text ELSE ~ItemHere(c).content

\* process_attachments(): an absent item is passed over, and that is no error.
SkipItem(c) ==
    /\ AtItem(c) /\ fileCall[c].op = "save" /\ Absent(c)
    /\ Upd(c, [item |-> fileCall[c].item + 1])
    /\ UNCHANGED <<legacy, files, record, crowded>>

\* Mutant: the budget of the request is not asked.
AllowedAlone(c) == ~Absent(c) /\ (IsText(c) \/ ItemHere(c).size <= AttachmentLimit)
\* The size limit of one attachment and the budget of the request; the text is under neither.
Allowed(c) ==
    /\ ~Absent(c)
    /\ IsText(c) \/ (/\ ItemHere(c).size <= AttachmentLimit
                     /\ ItemHere(c).size <= fileCall[c].budget)
Taken(c) == [budget |-> IF IsText(c) THEN fileCall[c].budget ELSE fileCall[c].budget - ItemHere(c).size]

\* AttachmentLimitExceeded, budget.take(): the next items are tried all the same.  An
\* attachment asked for by its id is refused as well if it has no content.
RefuseItem(c) ==
    /\ AtItem(c) /\ ~Allowed(c) /\ (fileCall[c].op = "specific" \/ ~Absent(c))
    /\ NotSaved(c, << >>)
    /\ UNCHANGED <<legacy, files, record, crowded>>

KeepInMemory(c) ==
    /\ AtItem(c) /\ Allowed(c) /\ fileCall[c].store = "memory"
    /\ Saved(c, <<"memory">>, Taken(c))
    /\ UNCHANGED <<legacy, files, record, crowded>>

\* Mutant: the quota is looked at without what is to be written.
OverQuotaAlready(used, size) == used > Quota
OverQuota(used, size) == used + size > Quota

\* UserLocalStorageBackend.write_bytes(): the sizes are summed up when a call writes first;
\* a full quota ends the call.
SaveLocal(c) ==
    LET item == ItemHere(c)
        at == <<"local", FolderOf[Letter(c)], item.name, FreeCopy("local", FolderOf[Letter(c)], item.name)>>
        used == IF fileCall[c].usage = Unscanned THEN LocalBytes ELSE fileCall[c].usage
        copies == FreeCopies("local", FolderOf[Letter(c)], item.name)
        others == {o \in FileCalls \ {c} : fileCall[o].pc # "done" /\ fileCall[o].usage # Unscanned}
    IN  /\ AtItem(c) /\ Allowed(c) /\ fileCall[c].store = "local" /\ ~legacy
        /\ crowded' = (crowded \/ others # {})
        /\ IF OverQuota(used, item.size)
           THEN Ends(c, "quota_exceeded", {}) /\ UNCHANGED files
           ELSE LET more == Taken(c) ++ [usage |-> used + item.size]
                IN  \/ copies # {} /\ Store(at, <<Letter(c), Item(c)>>) /\ Saved(c, at, more)
                    \/ UNCHANGED files /\ NotSaved(c, more)
        /\ UNCHANGED <<legacy, record>>

\* LocalStorageBackend: a text, and a specific attachment, is written over what is there.
SaveLegacy(c) ==
    LET item == ItemHere(c)
        over == IsText(c) \/ fileCall[c].op = "specific"
        copies == IF over THEN {0} ELSE FreeCopies("local", FolderOf[Letter(c)], item.name)
        at == <<"local", FolderOf[Letter(c)], item.name, Min(copies)>>
    IN  /\ AtItem(c) /\ Allowed(c) /\ fileCall[c].store = "local" /\ legacy
        /\ \/ copies # {} /\ Store(at, <<Letter(c), Item(c)>>) /\ Saved(c, at, Taken(c))
           \/ UNCHANGED files /\ NotSaved(c, Taken(c))
        /\ UNCHANGED <<legacy, record, crowded>>

-----------------------------------------------------------------------------
\* save_file() answers None: an error of the mail, but of an attachment asked for by its id
\* nothing is noticed.
UploadFailed(c, at, more) ==
    IF fileCall[c].op = "specific" THEN Saved(c, at, more) ELSE NotSaved(c, more)

DrivePlace(c) == <<"onedrive", FolderOf[Letter(c)], ItemHere(c).name, 0>>

\* _upload_simple(): the PUT replaces a file of the same name.  Its answer may be lost.
UploadSimple(c) ==
    LET at == DrivePlace(c) IN
    /\ AtItem(c) /\ Allowed(c) /\ fileCall[c].store = "onedrive" /\ ItemHere(c).size <= SimpleMax
    /\ \/ Store(at, <<Letter(c), Item(c)>>) /\ (Saved(c, at, Taken(c)) \/ UploadFailed(c, at, Taken(c)))
       \/ UNCHANGED files /\ UploadFailed(c, at, Taken(c))
    /\ UNCHANGED <<legacy, record, crowded>>

\* _upload_large(): an upload session is opened, with conflictBehavior rename.
OpenSession(c) ==
    /\ AtItem(c) /\ Allowed(c) /\ fileCall[c].store = "onedrive" /\ ItemHere(c).size > SimpleMax
    /\ \/ Upd(c, [pc |-> "uploading", chunk |-> 0] ++ Taken(c))
       \/ UploadFailed(c, DrivePlace(c), Taken(c))
    /\ UNCHANGED <<legacy, files, record, crowded>>

\* A chunk is taken, at once or in the one retry; a refused one, and any answer that does
\* not come, ends the upload.  The last one makes the file; if its answer is only 202 the
\* session is asked for the outcome, unless it was a retry.
UploadChunk(c) ==
    LET last == fileCall[c].chunk = Chunks - 1
        at == <<"onedrive", FolderOf[Letter(c)], ItemHere(c).name,
                FreeCopy("onedrive", FolderOf[Letter(c)], ItemHere(c).name)>>
        made == /\ FreeCopies("onedrive", FolderOf[Letter(c)], ItemHere(c).name) # {}
                /\ Store(at, <<Letter(c), Item(c)>>)
    IN  /\ In(c, "uploading")
        /\ \/ ~last /\ Upd(c, [chunk |-> fileCall[c].chunk + 1]) /\ UNCHANGED files
           \/ last /\ made /\ (Saved(c, at, [chunk |-> 0]) \/ UploadFailed(c, at, [chunk |-> 0]))
           \/ UploadFailed(c, at, [chunk |-> 0]) /\ UNCHANGED files
        /\ UNCHANGED <<legacy, record, crowded>>

\* The account has to be connected again: SecurityError ends the call before any request,
\* those of a batch, of an attachment and of OneDrive.  In the single-user mode only the
\* request of a batch ends so; elsewhere a missing token is a failure of one mail or item.
ConnectAgain(c) ==
    /\ \/ In(c, "fetching") /\ fileCall[c].todo # <<>>
       \/ /\ ~legacy /\ fileCall[c].batch # <<>>
          /\ \/ In(c, "mails") /\ (fileCall[c].op = "specific" \/ fileCall[c].store = "onedrive")
             \/ fileCall[c].store = "onedrive" /\ (In(c, "uploading") \/ (AtItem(c) /\ Allowed(c)))
    /\ Ends(c, "auth_required", {})
    /\ UNCHANGED <<legacy, files, record, crowded>>

-----------------------------------------------------------------------------
\* Mutant: the mail is done whatever was saved of it.
CompleteAnyway(c) == TRUE
\* len(result["errors"]) == errors_before
Complete(c) == fileCall[c].clean

Records(c) == IF legacy THEN fileCall[c].loaded ELSE record

\* The rest of _process_mail_with_options(); add_processed_mail(): one transaction, or the
\* file from what was read.
MailDone(c) ==
    LET l == Letter(c)
        known == [Records(c) EXCEPT ![l] = [refs |-> fileCall[c].refs, done |-> TRUE,
                                             text |-> fileCall[c].text]]
        next == [batch |-> Tail(fileCall[c].batch), processed |-> fileCall[c].processed + 1, pc |-> "mails"]
    IN  /\ In(c, "items") /\ AllItemsSeen(c)
        /\ IF fileCall[c].store # "memory" /\ Complete(c)
           THEN record' = known /\ Upd(c, next ++ [loaded |-> IF legacy THEN known ELSE << >>])
           ELSE UNCHANGED record /\ Upd(c, next)
        /\ UNCHANGED <<legacy, files, crowded>>

\* Mutant: a batch that could not be fetched is not an error.
SaveStatusLenient(processed, errors) == IF processed = 0 THEN "error" ELSE "success"
\* download_attachments()
SaveStatus(processed, errors) ==
    IF processed = 0 THEN "error" ELSE IF errors THEN "partial" ELSE "success"

AnswerSave(c) ==
    /\ In(c, "fetching") /\ fileCall[c].todo = <<>>
    /\ Ends(c, SaveStatus(fileCall[c].processed, fileCall[c].errors), fileCall[c].asked)
    /\ UNCHANGED <<legacy, files, record, crowded>>

FileNext ==
    \E c \in FileCalls :
        \/ BeginSave(c) \/ BeginSpecific(c) \/ NoToken(c)
        \/ FetchBatch(c) \/ NextMail(c) \/ BatchDone(c) \/ SkipItem(c)
        \/ RefuseItem(c) \/ KeepInMemory(c) \/ SaveLocal(c) \/ SaveLegacy(c)
        \/ UploadSimple(c) \/ OpenSession(c) \/ UploadChunk(c) \/ ConnectAgain(c)
        \/ MailDone(c) \/ AnswerSave(c)

FileSpec == FileInit /\ [][FileNext]_fileVars

-----------------------------------------------------------------------------
\* What is to be saved of a mail: its text if that was asked for, and each attachment that
\* Graph sends the content of.
Wanted(l, text) == {i \in DOMAIN Items[l] : IF i = 1 THEN text ELSE Items[l][i].content}

\* A mail on the list of those done has each wanted item, none left out for a limit, a
\* failure or a lost answer, where the list says: in the user's own files with the content
\* of that item, whatever other mails of its folder and name were saved, and in OneDrive
\* under a file that is there (add_processed_mail()).  What was not wanted (the text, with
\* include_body false, and attachments without content) it may lack.
RecordedIsSaved ==
    ~legacy => \A l \in Letters : record[l].done =>
        /\ DOMAIN record[l].refs = Wanted(l, record[l].text)
        /\ \A i \in DOMAIN record[l].refs : LET at == record[l].refs[i] IN
            /\ at \in DOMAIN files
            /\ at[1] = "local" => files[at] = <<l, i>>

\* No call writes over a file of the user (write_bytes(), spec_멀티유저.md 2-7.4).
UserFilesStay ==
    ~legacy => \A at \in DOMAIN files : at[1] = "local" =>
     at \in DOMAIN files' /\ files'[at] = files[at]

\* The files stay within the quota unless calls wrote at once (_reserve()).
QuotaKept == ~legacy /\ ~crowded => LocalBytes <= Quota

\* A success of fetch_and_save() that keeps files means that each mail asked for is on the
\* list, so that none is asked for again in vain.
SuccessIsRecorded ==
    ~legacy => \A c \in FileCalls :
        fileCall[c].op = "save" /\ fileCall[c].status = "success" /\ fileCall[c].store # "memory" =>
            \A l \in fileCall[c].asked : record[l].done

\* download_attachments() shows what failed inside: "all failed is a failure, some failed is
\* partial" (graph_mail_client.py:631).  Not so for OneDrive.
SpecificTellsFailures ==
    \A c \in FileCalls :
        fileCall[c].op = "specific" /\ fileCall[c].status = "success" =>
            \A a \in fileCall[c].asked : \E at \in DOMAIN files : at[1] = fileCall[c].store /\ files[at][1] = a[1]
=============================================================================
