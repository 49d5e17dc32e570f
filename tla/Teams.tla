-------------------------------- MODULE Teams --------------------------------
(***************************************************************************)
(* The Teams tools of one account: the chats Graph knows, their rows in    *)
(* the local store with the Korean names given to them (teams_db_manager.  *)
(* py), and the sending of a file, which takes a request for the members,  *)
(* one for the upload, one for its permissions and one for the message     *)
(* (graph_teams_client.py, teams_service.py).  Calls interleave with each  *)
(* other and with what others do in Teams.  A request Graph carried out    *)
(* may look failed.  A chat the account left is not joined again.          *)
(***************************************************************************)
EXTENDS Naturals, FiniteSets, FiniteSetsExt

CONSTANTS
    Chats,          \* chats of the account that may exist
    HangulChats,    \* those whose name or peer is written in Hangul
    People,         \* the others
    NoEmail,        \* those of them Graph shows no email of
    TeamCalls,
    ListLimit       \* limit: chats in the one answer sync_chats() asks for

Notes == "48:notes"
NoFile == "none"

TeamAssumption ==
    /\ HangulChats \subseteq Chats /\ NoEmail \subseteq People /\ Notes \notin Chats
    /\ NoFile \notin TeamCalls
    /\ ListLimit \in Nat \ {0}

VARIABLES
    joined,      \* Graph: the chats the account is in
    left,        \* Graph: the chats it was in
    members,     \* Graph: chat -> the others in it
    files,       \* Graph: a call's file -> the call whose content it has now, or NoFile
    shared,      \* Graph: file -> who was given permission to read it
    messages,    \* Graph: messages posted, with the file attached or NoFile
    chatRow,     \* store: chat -> "none", "active" or "inactive"
    koreanName,  \* store: chat -> "none", "synced" or "given"
    teamCall     \* call -> its local state

graphVars == <<joined, left, members, files, shared, messages>>
storeVars == <<chatRow, koreanName>>
teamVars == <<joined, left, members, files, shared, messages, chatRow, koreanName, teamCall>>

IdleCall == [op |-> "none", pc |-> "idle", chat |-> Notes, seen |-> {}, more |-> FALSE,
             readers |-> {}, file |-> NoFile, before |-> {}, answer |-> "none"]
Answers == {"none", "ok", "not_found", "not_synced", "failed", "not_sent", "maybe_sent"}
CallStates == [op : {"none", "sync", "file"},
               pc : {"idle", "asking", "listed", "members", "one_on_one", "upload", "invite", "post", "done"},
               chat : Chats \cup {Notes}, seen : SUBSET Chats, more : BOOLEAN,
               readers : SUBSET People, file : TeamCalls \cup {NoFile},
               before : SUBSET (Chats \cup People), answer : Answers]
Messages == [call : TeamCalls, chat : Chats \cup {Notes}, file : TeamCalls \cup {NoFile}]

TeamTypeOK ==
    /\ joined \subseteq Chats /\ left \subseteq Chats /\ joined \cap left = {}
    /\ members \in [Chats -> SUBSET People]
    /\ files \in [TeamCalls -> TeamCalls \cup {NoFile}]
    /\ shared \in [TeamCalls -> SUBSET People]
    /\ messages \subseteq Messages
    /\ chatRow \in [Chats -> {"none", "active", "inactive"}]
    /\ koreanName \in [Chats -> {"none", "synced", "given"}]
    /\ teamCall \in [TeamCalls -> CallStates]

TeamInit ==
    /\ joined \in SUBSET Chats /\ left = {}
    /\ members \in [Chats -> {S \in SUBSET People : Cardinality(S) = 1}]
    /\ files = [c \in TeamCalls |-> NoFile] /\ shared = [c \in TeamCalls |-> {}]
    /\ messages = {}
    /\ \E known \in SUBSET joined :
        chatRow = [ch \in Chats |-> IF ch \in known THEN "active" ELSE "none"]
    /\ koreanName = [ch \in Chats |-> "none"]
    /\ teamCall = [c \in TeamCalls |-> IdleCall]

-----------------------------------------------------------------------------
Set(c, call) == teamCall' = [teamCall EXCEPT ![c] = call]
Answer(c, a) == Set(c, [teamCall[c] EXCEPT !.pc = "done", !.answer = a, !.seen = {}])
At(c, op, pc) == teamCall[c].op = op /\ teamCall[c].pc = pc

\* Others open chats and bring people in, the account leaves one.
OthersAct ==
    /\ \E ch \in Chats :
        \/ ch \notin joined \cup left /\ joined' = joined \cup {ch} /\ UNCHANGED <<left, members>>
        \/ ch \in joined /\ joined' = joined \ {ch} /\ left' = left \cup {ch} /\ UNCHANGED members
        \/ /\ \E p \in People \ members[ch] : members' = [members EXCEPT ![ch] = @ \cup {p}]
           /\ UNCHANGED <<joined, left>>
    /\ UNCHANGED <<files, shared, messages, storeVars, teamCall>>

-----------------------------------------------------------------------------
\* sync_chats(): one request, then one transaction.
BeginSync(c) ==
    /\ teamCall[c].pc = "idle"
    /\ Set(c, [teamCall[c] EXCEPT !.op = "sync", !.pc = "asking", !.before = joined])
    /\ UNCHANGED <<graphVars, storeVars>>

\* list_chats(): as many chats as the limit allows, and whether there are more.
ListChats(c) ==
    /\ At(c, "sync", "asking")
    /\ \/ \E seen \in SUBSET joined :
            /\ Cardinality(seen) = Min({ListLimit, Cardinality(joined)})
            /\ Set(c, [teamCall[c] EXCEPT !.pc = "listed", !.seen = seen, !.more = (seen # joined)])
       \/ Answer(c, "failed")
    /\ UNCHANGED <<graphVars, storeVars>>

\* Mutant: what is not in the answer is gone.
MissingAlways(c) == {ch \in Chats : chatRow[ch] = "active"} \ teamCall[c].seen

\* Only an answer that shows all the chats says which of them are gone.
Missing(c) ==
    IF teamCall[c].more THEN {} ELSE {ch \in Chats : chatRow[ch] = "active"} \ teamCall[c].seen

\* Mutant: the name Teams shows comes first.
NameAfterSyncShown(ch) == IF ch \in HangulChats THEN "synced" ELSE koreanName[ch]

\* COALESCE(the name in the row, a Hangul name Teams shows).
NameAfterSync(ch) ==
    IF koreanName[ch] = "none" /\ ch \in HangulChats THEN "synced" ELSE koreanName[ch]

\* sync_chats_to_db(): all of it or, after an error, nothing.
StoreChats(c) ==
    /\ At(c, "sync", "listed")
    /\ \/ /\ chatRow' = [ch \in Chats |-> IF ch \in teamCall[c].seen THEN "active"
                                          ELSE IF ch \in Missing(c) THEN "inactive" ELSE chatRow[ch]]
          /\ koreanName' = [ch \in Chats |-> IF ch \in teamCall[c].seen THEN NameAfterSync(ch)
                                             ELSE koreanName[ch]]
          /\ Answer(c, "ok")
       \/ Answer(c, "failed") /\ UNCHANGED storeVars
    /\ UNCHANGED graphVars

\* save_korean_name(): for a chat named by its id, in whatever state its row is.
SaveName(c) ==
    /\ teamCall[c].pc = "idle"
    /\ \E ch \in Chats :
        IF chatRow[ch] = "none" THEN Answer(c, "not_synced") /\ UNCHANGED koreanName
        ELSE koreanName' = [koreanName EXCEPT ![ch] = "given"] /\ Answer(c, "ok")
    /\ UNCHANGED <<graphVars, chatRow>>

\* save_korean_names_batch(): by the English name, among the active chats, one by one; a
\* name that matches nothing is counted and the next one is tried.
SaveNames(c) ==
    /\ teamCall[c].pc = "idle"
    /\ LET active == {ch \in Chats : chatRow[ch] = "active"} IN
       \E matched \in SUBSET active :
        /\ koreanName' = [ch \in Chats |-> IF ch \in matched THEN "given" ELSE koreanName[ch]]
        /\ Answer(c, IF matched = {} THEN "not_found" ELSE "ok")
    /\ UNCHANGED <<graphVars, chatRow>>

-----------------------------------------------------------------------------
\* send_chat_message(), send_channel_message(): one request; when it fails nobody knows.
Post(c, chat, file) ==
    \/ /\ messages' = messages \cup {[call |-> c, chat |-> chat, file |-> file]}
       /\ \E a \in {"ok", "maybe_sent"} : Answer(c, a)
    \/ Answer(c, "maybe_sent") /\ UNCHANGED messages

SendMessage(c) ==
    /\ teamCall[c].pc = "idle"
    /\ \E chat \in joined \cup {Notes} : Post(c, chat, NoFile)
    /\ UNCHANGED <<joined, left, members, files, shared, storeVars>>

\* send_chat_file(): to the chat given, else to a recipient, else to the account's notes.
\* A file that cannot be read or has no name is refused before Graph is asked.
BeginSendFile(c) ==
    /\ teamCall[c].pc = "idle"
    /\ \/ \E ch \in joined :
            Set(c, [teamCall[c] EXCEPT !.op = "file", !.pc = "members", !.chat = ch,
                                       !.before = members[ch]])
       \/ \E ch \in Chats, p \in People \ NoEmail :
            /\ members[ch] = {p}
            /\ Set(c, [teamCall[c] EXCEPT !.op = "file", !.pc = "one_on_one", !.chat = ch,
                                          !.readers = {p}, !.before = {p}])
       \/ Set(c, [teamCall[c] EXCEPT !.op = "file", !.pc = "upload"])
       \/ Answer(c, "not_sent")
    /\ UNCHANGED <<graphVars, storeVars>>

\* _chat_member_emails(): without the members the file is not sent.
ReadMembers(c) ==
    /\ At(c, "file", "members")
    /\ \/ Set(c, [teamCall[c] EXCEPT !.pc = "upload",
                                     !.readers = members[teamCall[c].chat] \ NoEmail])
       \/ Answer(c, "not_sent")
    /\ UNCHANGED <<graphVars, storeVars>>

\* _one_on_one_chat_id(): Graph opens the chat or returns the one there is.
OpenOneOnOne(c) ==
    /\ At(c, "file", "one_on_one")
    /\ \/ /\ teamCall[c].chat \notin left
          /\ joined' = joined \cup {teamCall[c].chat}
          /\ Set(c, [teamCall[c] EXCEPT !.pc = "upload"])
       \/ Answer(c, "not_sent") /\ UNCHANGED joined
    /\ UNCHANGED <<left, members, files, shared, messages, storeVars>>

\* Mutant: conflictBehavior=replace.
UploadedOverwriting(c) ==
    IF \A f \in TeamCalls : files[f] = NoFile THEN c
    ELSE CHOOSE f \in TeamCalls : files[f] # NoFile

\* conflictBehavior=rename: the upload is a new file, whatever is in the folder; every
\* call uses the same name here.
Uploaded(c) == c

\* _upload_chat_file(): the upload, and the request that reads what to attach.
Upload(c) ==
    /\ At(c, "file", "upload")
    /\ \/ /\ files' = [files EXCEPT ![Uploaded(c)] = c]
          /\ \/ Set(c, [teamCall[c] EXCEPT !.file = Uploaded(c),
                          !.pc = IF teamCall[c].readers = {} THEN "post" ELSE "invite"])
             \/ Answer(c, "not_sent")
       \/ Answer(c, "not_sent") /\ UNCHANGED files
    /\ UNCHANGED <<joined, left, members, shared, messages, storeVars>>

\* Mutant: a failed invitation does not keep the message back.
InvitedAnyway == {"post"}

\* A file nobody was given permission to read is not sent.
InviteFailed == {"done"}

Invite(c) ==
    /\ At(c, "file", "invite")
    /\ \/ /\ shared' = [shared EXCEPT ![teamCall[c].file] = @ \cup teamCall[c].readers]
          /\ Set(c, [teamCall[c] EXCEPT !.pc = "post"])
       \/ /\ \E pc \in InviteFailed :
                Set(c, [teamCall[c] EXCEPT !.pc = pc,
                                           !.answer = IF pc = "done" THEN "not_sent" ELSE "none"])
          /\ UNCHANGED shared
    /\ UNCHANGED <<joined, left, members, files, messages, storeVars>>

PostFile(c) ==
    /\ At(c, "file", "post")
    /\ Post(c, teamCall[c].chat, teamCall[c].file)
    /\ UNCHANGED <<joined, left, members, files, shared, storeVars>>

TeamStep(c) ==
    \/ BeginSync(c) \/ ListChats(c) \/ StoreChats(c) \/ SaveName(c) \/ SaveNames(c)
    \/ SendMessage(c) \/ BeginSendFile(c) \/ ReadMembers(c) \/ OpenOneOnOne(c)
    \/ Upload(c) \/ Invite(c) \/ PostFile(c)

TeamNext == OthersAct \/ \E c \in TeamCalls : TeamStep(c)
TeamSpec == TeamInit /\ [][TeamNext]_teamVars

-----------------------------------------------------------------------------
\* A chat is put away only when the account is not in it any more, or was not yet when the
\* sync began: neither a long list of chats nor a failed request hides one
\* (teams_service.py, sync_chats).
SparesTheJoined ==
    \A ch \in Chats :
     (chatRow[ch] = "active" /\ chatRow'[ch] = "inactive" /\ ch \in joined) =>
         \E c \in TeamCalls : At(c, "sync", "listed") /\ ch \notin teamCall[c].before

\* A name given by hand outlives every sync (teams_db_manager.py:391).
GivenNamesStay ==
    \A ch \in Chats : koreanName[ch] = "given" => koreanName'[ch] = "given"

\* Whoever was in the chat when the call began, is still in it and has an email can read
\* the file of a message that was posted (graph_teams_client.py, send_chat_file).
FilesReadable ==
    \A msg \in messages :
        (msg.file # NoFile /\ msg.chat # Notes) =>
            (teamCall[msg.call].before \cap members[msg.chat]) \ NoEmail \subseteq shared[msg.file]

\* The file a message shows is the one that was sent with it, whatever was sent later under
\* the same name.
FilesStay == \A msg \in messages : msg.file # NoFile => files[msg.file] = msg.call

\* "Not sent" is said of nothing that was posted.
NotSentMeansNotSent ==
    \A msg \in messages : teamCall[msg.call].answer # "not_sent"
=============================================================================
