------------------------------- MODULE OneDrive -------------------------------
(* The OneDrive tools: one tool call against a drive that other applications of  *)
(* its owner change as well. Items are named by paths, which Graph resolves when *)
(* it carries a request out; a move and a copy look their destination up first   *)
(* and name it by its id, a copy is only started, and a download may be          *)
(* redirected (mcp_onedrive, the download rules of mcp_common/graph_url_policy). *)
EXTENDS Integers, Sequences, FiniteSets, SequencesExt

CONSTANTS Items,   \* ids Graph may give
          Words,   \* names of items
          Texts,   \* contents of files
          MaxCopies, \* bound: copies Graph has taken on at a time
          Root, Nothing

DriveAssumption ==
  /\ Root \notin Items /\ Nothing \notin Items /\ Texts # {}
  /\ \A x \in Items \cup {Root}, w \in Words, t \in Texts \cup {Nothing} :
       \A k \in {"file", "folder"} : Nothing # [kind |-> k, in |-> x, name |-> w, text |-> t]

VARIABLES drive,     \* id -> the item, or Nothing
          copying,   \* the copies Graph has taken on
          enabled,   \* the account gets tokens
          driveCall  \* the call

driveVars == <<drive, copying, enabled, driveCall>>

Files == [kind : {"file"}, in : Items \cup {Root}, name : Words, text : Texts]
Folders == [kind : {"folder"}, in : {Root}, name : Words, text : {Nothing}]
DrivePaths == SeqOf(Words, 2) \ {<<>>}
Lookups == {"get_item", "list_files"}
Relocations == {"copy_file", "move_file"}
Changes == {"write_file", "delete_file", "create_folder"}

There == {i \in Items : drive[i] # Nothing}
\* An id that is still named somewhere is given to no other item.
Free == {i \in Items \ There : /\ \A c \in copying : i \notin {c.from, c.to}
                               /\ driveCall.pc = "request" => i # driveCall.folder}
Called(parent, name) == {i \in There : drive[i].in = parent /\ drive[i].name = name}
\* What a path names, at most one item, and the folder it lies in.
ParentsOf(path) ==
  IF Len(path) = 1 THEN {Root} ELSE {f \in Called(Root, path[1]) : drive[f].kind = "folder"}
ItemsAt(path) == UNION {Called(f, Last(path)) : f \in ParentsOf(path)}

DriveIdle(answer) == [pc |-> "idle", answer |-> answer, cutOff |-> FALSE]

DriveTypeOK ==
  /\ drive \in [Items -> Files \cup Folders \cup {Nothing}]
  /\ \A i, j \in There : i # j => <<drive[i].in, drive[i].name>> # <<drive[j].in, drive[j].name>>
  /\ \A i \in There : drive[i].in = Root \/ drive[i].in \in There
  /\ enabled \in BOOLEAN /\ driveCall.cutOff \in BOOLEAN
  /\ driveCall.pc \in {"idle", "destination", "request", "redirected", "download"}

DriveInit ==
  /\ drive = [i \in Items |-> Nothing] /\ copying = {} /\ enabled = TRUE
  /\ driveCall = DriveIdle("none")

-----------------------------------------------------------------------------
\* A tool is called; a move and a copy begin with the folder they go to.
BeginDrive(op, path, dest, name, text, overwrite) ==
  /\ driveCall.pc = "idle"
  /\ op \in Relocations <=> dest # Nothing
  /\ op \notin Relocations => name = Nothing
  /\ op # "write_file" => text = CHOOSE t \in Texts : TRUE
  /\ op # "write_file" => overwrite
  /\ driveCall' = [pc |-> IF op \in Relocations THEN "destination" ELSE "request",
                   answer |-> "none", op |-> op, path |-> path, dest |-> dest, name |-> name,
                   text |-> text, overwrite |-> overwrite, folder |-> Nothing, cutOff |-> FALSE]
  /\ UNCHANGED <<drive, copying, enabled>>

\* Mutant: the name of the destination is kept, and resolved again by the move.
FolderByName(found) == CHOOSE f \in ItemsAt(driveCall.dest) \cup {found} :
                         ItemsAt(driveCall.dest) # {} => f \in ItemsAt(driveCall.dest)
\* The destination a move or a copy sends: the id its lookup found.
FolderById(found) == found

\* get_item of the destination, which may turn out to be a file.
FindDestination ==
  /\ driveCall.pc = "destination" /\ enabled
  /\ \E f \in ItemsAt(driveCall.dest) :
       driveCall' = [driveCall EXCEPT !.pc = "request", !.folder = f]
  /\ UNCHANGED <<drive, copying, enabled>>

\* Graph refuses, no answer comes, or the account gets no token any more.
DriveFails ==
  /\ driveCall.pc \in {"destination", "request"}
  /\ \E answer \in IF enabled THEN {"refused", "unsure"} ELSE {"no_token"} :
       driveCall' = DriveIdle(answer)
  /\ UNCHANGED <<drive, copying, enabled>>

\* A request is carried out, whether or not its answer arrives.
DriveRequest(op) == driveCall.pc = "request" /\ driveCall.op = op /\ enabled
DriveAnswers ==
  /\ \E answer \in {"success", "unsure"} : driveCall' = DriveIdle(answer)
  /\ UNCHANGED enabled

\* Mutant: the two behaviours are swapped.
ReplacesUnasked == ~driveCall.overwrite
\* overwrite chooses between conflictBehavior replace and fail.
Replaces == driveCall.overwrite

New(i, kind, parent, name, text) ==
  drive' = [drive EXCEPT ![i] = [kind |-> kind, in |-> parent, name |-> name, text |-> text]]

\* write_file is one PUT; Graph makes the file or replaces its content.
WriteFile ==
  /\ DriveRequest("write_file") /\ DriveAnswers /\ UNCHANGED copying
  /\ \/ /\ ItemsAt(driveCall.path) = {}
        /\ \E i \in Free, parent \in ParentsOf(driveCall.path) :
             New(i, "file", parent, Last(driveCall.path), driveCall.text)
     \/ \E i \in ItemsAt(driveCall.path) :
          /\ drive[i].kind = "file" /\ Replaces
          /\ drive' = [drive EXCEPT ![i].text = driveCall.text]

\* A folder goes with everything in it.
DeleteItem(i) ==
  drive' = [j \in Items |-> IF j = i \/ (j \in There /\ drive[j].in = i) THEN Nothing ELSE drive[j]]

DeleteFile ==
  /\ DriveRequest("delete_file") /\ DriveAnswers /\ UNCHANGED copying
  /\ \E i \in ItemsAt(driveCall.path) : DeleteItem(i)

\* Mutant: a folder takes the place of what has its name.
FolderIdReplacing(name) == IF Called(Root, name) # {} THEN Called(Root, name) ELSE Free
\* conflictBehavior rename: a folder is always a new item.
FolderId(name) == Free

\* Graph gives a new folder another name when its name is taken.
CreateFolder ==
  /\ DriveRequest("create_folder") /\ DriveAnswers /\ UNCHANGED copying /\ Len(driveCall.path) = 1
  /\ \E i \in FolderId(driveCall.path[1]), name \in Words :
       /\ Called(Root, name) \ {i} = {}
       /\ Called(Root, driveCall.path[1]) = {} => name = driveCall.path[1]
       /\ New(i, "folder", Root, name, Nothing)

\* The name an item gets where it goes.
NameThere(i) == IF driveCall.name = Nothing THEN drive[i].name ELSE driveCall.name

\* move_file is one PATCH of the item its path names now; Graph keeps the names of
\* a folder apart.
MoveFile ==
  /\ DriveRequest("move_file") /\ DriveAnswers /\ UNCHANGED copying
  /\ \E i \in ItemsAt(driveCall.path) :
       LET folder == FolderById(driveCall.folder)
       IN /\ drive[i].kind = "file" /\ folder \in There /\ drive[folder].kind = "folder"
          /\ Called(folder, NameThere(i)) \subseteq {i}
          /\ drive' = [drive EXCEPT ![i].in = folder, ![i].name = NameThere(i)]

\* A copy is answered with 202 as soon as Graph has taken it on.
CopyFile ==
  /\ DriveRequest("copy_file") /\ DriveAnswers /\ UNCHANGED drive
  /\ Cardinality(copying) < MaxCopies
  /\ \E i \in ItemsAt(driveCall.path) :
       LET folder == FolderById(driveCall.folder)
       IN /\ drive[i].kind = "file" /\ folder \in There /\ drive[folder].kind = "folder"
          /\ copying' = copying \cup {[from |-> i, to |-> folder, name |-> NameThere(i)]}

\* What becomes of it is told at the monitor url alone.
CopyEnds ==
  /\ \E c \in copying :
       /\ copying' = copying \ {c}
       /\ \/ UNCHANGED drive
          \/ /\ {c.from, c.to} \subseteq There /\ Called(c.to, c.name) = {}
             /\ \E i \in Free : New(i, "file", c.to, c.name, drive[c.from].text)
  /\ UNCHANGED <<enabled, driveCall>>

LookUp ==
  /\ driveCall.pc = "request" /\ driveCall.op \in Lookups /\ enabled
  /\ driveCall.op = "get_item" => ItemsAt(driveCall.path) # {}
  /\ DriveAnswers /\ UNCHANGED <<drive, copying>>

-----------------------------------------------------------------------------
\* read_file: the content itself, or a redirect to an address of the store.
ReadFile ==
  /\ DriveRequest("read_file") /\ ItemsAt(driveCall.path) # {}
  /\ \/ driveCall' = DriveIdle("content")
     \/ driveCall' = [driveCall EXCEPT !.pc = "redirected"]
  /\ UNCHANGED <<drive, copying, enabled>>

\* Mutant: the redirect is followed with the token of the first request.
MayFollowStill == TRUE
\* _assert_active: the account must still get a token.
MayFollow == enabled

\* check_presigned_url: plain https to a host every address of which is public.
Allowed == {"public"}
Follow ==
  /\ driveCall.pc = "redirected"
  /\ \E target \in {"public", "private", "unresolved", "not_https"} :
       driveCall' = IF ~MayFollow THEN DriveIdle("unsure")
                    ELSE IF target \in Allowed THEN [driveCall EXCEPT !.pc = "download"]
                    ELSE DriveIdle("bad_address")
  /\ UNCHANGED <<drive, copying, enabled>>

\* A second redirect is not followed.
Download ==
  /\ driveCall.pc = "download"
  /\ \E answer \in {"content", "redirected_again", "refused", "unsure"} :
       driveCall' = [DriveIdle(answer) EXCEPT !.cutOff = driveCall.cutOff]
  /\ UNCHANGED <<drive, copying, enabled>>

\* The account is disabled or disconnected, perhaps with a redirect at hand.
Disable ==
  /\ enabled /\ enabled' = FALSE
  /\ driveCall' = [driveCall EXCEPT !.cutOff = driveCall.pc = "redirected"]
  /\ UNCHANGED <<drive, copying>>

\* The owner, in other applications.
OwnerChanges ==
  /\ \/ \E i \in There, name \in Words :
          /\ Called(drive[i].in, name) = {} /\ drive' = [drive EXCEPT ![i].name = name]
     \/ \E i \in There : DeleteItem(i)
     \/ \E i \in Free, path \in DrivePaths, text \in Texts :
          \E parent \in ParentsOf(path) :
            ItemsAt(path) = {} /\ New(i, "file", parent, Last(path), text)
  /\ UNCHANGED <<copying, enabled, driveCall>>

DriveNext ==
  \/ \E op \in Lookups \cup Relocations \cup Changes \cup {"read_file"}, path \in DrivePaths,
        dest \in {<<w>> : w \in Words} \cup {Nothing}, name \in Words \cup {Nothing},
        text \in Texts, overwrite \in BOOLEAN : BeginDrive(op, path, dest, name, text, overwrite)
  \/ FindDestination \/ DriveFails
  \/ WriteFile \/ DeleteFile \/ CreateFolder \/ MoveFile \/ CopyFile \/ CopyEnds \/ LookUp
  \/ ReadFile \/ Follow \/ Download
  \/ Disable \/ OwnerChanges

DriveSpec == DriveInit /\ [][DriveNext]_driveVars

-----------------------------------------------------------------------------
\* Whatever the owner does meanwhile, a call takes away or replaces the content of
\* an item only when it deletes or overwrites the path that names it then: a write
\* without overwrite, a new folder, a move and a copy leave every content alone.
ContentsStay ==
  driveCall' # driveCall \/ copying' # copying =>
    \A i \in There : drive'[i] = Nothing \/ drive'[i].text # drive[i].text =>
      \/ driveCall.op = "write_file" /\ driveCall.overwrite /\ i \in ItemsAt(driveCall.path)
      \/ driveCall.op = "delete_file"
           /\ (i \in ItemsAt(driveCall.path) \/ drive[i].in \in ItemsAt(driveCall.path))

\* A move ends in the folder its lookup found, renamed or not since, and never in
\* one that took the name over.
MovesWhereItLooked ==
  driveCall.pc = "request" /\ driveCall' # driveCall /\ driveCall.op = "move_file" =>
    \A i \in There : drive'[i] # drive[i] => drive'[i].in = driveCall.folder

\* An account cut off while a redirect was at hand gets no content: the redirect is
\* followed only after a new check of the account.
CutOffGetsNothing == ~(driveCall.answer = "content" /\ driveCall.cutOff)

=============================================================================
