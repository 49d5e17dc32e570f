-------------------------------- MODULE Office --------------------------------
(* An operator's login and the tools of an account's notes, chats, mail and calendar, *)
(* one component at a time: a behaviour is one of logins (OperatorLogin), of OneNote  *)
(* pages (OneNote), of chats (Teams), of the mailbox (Mailbox) or of the calendar     *)
(* (Calendar). The variables of the other components are Off.                         *)
EXTENDS Integers, Sequences, FiniteSets, SequencesExt

CONSTANTS PageOrder, NoteCalls, ChunkSize, MaxVersion,                     \* OneNote
          Chats, HangulChats, People, NoEmail, TeamCalls, ListLimit,       \* Teams
          MaxMail, Unwanted, MailCalls, MailTop, PageSize, MaxConcurrent,
          BatchSize, IdLists,                                              \* Mailbox
          Events, Zones, Subjects, MaxClock, Korea, EventTop, Nothing,     \* Calendar
          Calls, Flows, Links, Callbacks, Procs, ProcOf, Emails, Asked,
          GraphEmails, Lower, Nobody,                                      \* OperatorLogin
          Off

VARIABLES part,
  version, deleted, rows, recent, summary, changes, noteCall,
  joined, left, members, files, shared, messages, chatRow, koreanName, teamCall,
  place, applied, sent, mailCall,
  calendar, asked, calendarCall,
  row, users, states, waiter, site, up, lock, pc, mem

Notes == INSTANCE OneNote
Chat == INSTANCE Teams
Mail == INSTANCE Mailbox WITH Top <- MailTop
Agenda == INSTANCE Calendar WITH Top <- EventTop
Login == INSTANCE OperatorLogin

ASSUME OfficeAssumption ==
  /\ Notes!NoteAssumption /\ Chat!TeamAssumption /\ Mail!MailboxAssumption
  /\ Agenda!CalendarAssumption /\ Login!LoginAssumption

-----------------------------------------------------------------------------
noteVars == <<version, deleted, rows, recent, summary, changes, noteCall>>
teamVars == <<joined, left, members, files, shared, messages, chatRow, koreanName, teamCall>>
mailVars == <<place, applied, sent, mailCall>>
calendarVars == <<calendar, asked, calendarCall>>
loginVars == <<row, users, states, waiter, site, up, lock, pc, mem>>
vars == <<part, noteVars, teamVars, mailVars, calendarVars, loginVars>>

NotesOff == /\ version = Off /\ deleted = Off /\ rows = Off /\ recent = Off
            /\ summary = Off /\ changes = Off /\ noteCall = Off
ChatOff == /\ joined = Off /\ left = Off /\ members = Off /\ files = Off /\ shared = Off
           /\ messages = Off /\ chatRow = Off /\ koreanName = Off /\ teamCall = Off
MailOff == place = Off /\ applied = Off /\ sent = Off /\ mailCall = Off
CalendarOff == calendar = Off /\ asked = Off /\ calendarCall = Off
LoginOff == /\ row = Off /\ users = Off /\ states = Off /\ waiter = Off /\ site = Off
            /\ up = Off /\ lock = Off /\ pc = Off /\ mem = Off

Init ==
  \/ part = "notes" /\ Notes!NoteInit /\ ChatOff /\ MailOff /\ CalendarOff /\ LoginOff
  \/ part = "chat" /\ Chat!TeamInit /\ NotesOff /\ MailOff /\ CalendarOff /\ LoginOff
  \/ part = "mail" /\ Mail!MailInit /\ NotesOff /\ ChatOff /\ CalendarOff /\ LoginOff
  \/ part = "calendar" /\ Agenda!CalendarInit /\ NotesOff /\ ChatOff /\ MailOff /\ LoginOff
  \/ part = "login" /\ Login!Init /\ NotesOff /\ ChatOff /\ MailOff /\ CalendarOff

NoteStep ==
  /\ part = "notes" /\ Notes!NoteNext
  /\ UNCHANGED <<part, teamVars, mailVars, calendarVars, loginVars>>
ChatStep ==
  /\ part = "chat" /\ Chat!TeamNext
  /\ UNCHANGED <<part, noteVars, mailVars, calendarVars, loginVars>>
MailStep ==
  /\ part = "mail" /\ Mail!MailNext
  /\ UNCHANGED <<part, noteVars, teamVars, calendarVars, loginVars>>
CalendarStep ==
  /\ part = "calendar" /\ Agenda!CalendarNext
  /\ UNCHANGED <<part, noteVars, teamVars, mailVars, loginVars>>
LoginStep ==
  /\ part = "login" /\ Login!Next
  /\ UNCHANGED <<part, noteVars, teamVars, mailVars, calendarVars>>

Next == NoteStep \/ ChatStep \/ MailStep \/ CalendarStep \/ LoginStep

Spec == Init /\ [][Next]_vars

-----------------------------------------------------------------------------
\* Every variable of the component at work has its type.
TypeOK ==
  /\ part = "notes" => Notes!NoteTypeOK
  /\ part = "chat" => Chat!TeamTypeOK
  /\ part = "mail" => Mail!MailTypeOK
  /\ part = "calendar" => Agenda!CalendarTypeOK
  /\ part = "login" => Login!TypeOK

\* A tool's answer says what became of the account, lost answers and others' changes
\* notwithstanding: a page said to be deleted is gone (DeletedMeansGone), a message said
\* not to be sent was not (NotSentMeansNotSent), what a batch says was done was done, and
\* it leaves out no mail it asked for (BatchAnswersAreTrue), and a success names all it did
\* (AnswersOwnUp).
AnswersTell ==
  /\ part = "notes" => Notes!DeletedMeansGone
  /\ part = "chat" => Chat!NotSentMeansNotSent
  /\ part = "mail" => Mail!BatchAnswersAreTrue /\ Mail!AnswersOwnUp

\* A list shows what is there: a query the newest mails of an inbox that did not change
\* meanwhile, each once and in order, though its pages come in any order
\* (QueryShowsTheInbox), a view and a schedule the events whose bare times a tool gave,
\* by the same clock (BareTimesAgree).
ListsAreTrue ==
  /\ [](part = "mail" => Mail!QueryShowsTheInbox)
  /\ [][part = "calendar" => Agenda!BareTimesAgree]_vars

\* A call or a sync changes nothing but what it was for: a page that is alive keeps its
\* row unless it was created during the listing or a chunk of the listing came empty
\* (SparesTheLiving), a chat keeps its row unless it was joined during the sync
\* (SparesTheJoined) and the name it was given (GivenNamesStay), a message its file
\* (FilesStay) and the file its readers (FilesReadable), an event its guests and what the
\* update did not name (KeepsTheRest).
OthersAreKept ==
  /\ [](part = "chat" => Chat!FilesStay /\ Chat!FilesReadable)
  /\ [][/\ part = "notes" => Notes!SparesTheLiving
        /\ part = "chat" => Chat!SparesTheJoined /\ Chat!GivenNamesStay
        /\ part = "calendar" => Agenda!KeepsTheRest]_vars

\* Whatever calls, flows and callbacks race, two calls of one process for one spelling of an
\* e-mail never refresh its token or open a browser for it at once (RefreshAlone), and no
\* lock stays behind (LocksReturned).  The locks are asyncio's: calls of two processes, or
\* under two spellings, are not kept apart (auth_manager.py, _get_refresh_lock).
LoginsTakeTurns == part = "login" => Login!RefreshAlone /\ Login!LocksReturned

\* A login ends in the token of the account it was for (AnswersRequested), by a callback
\* with its own state and by nothing else (HearsItsOwn): callback_server.py.
LoginsHearTheirOwn ==
  /\ [](part = "login" => Login!AnswersRequested)
  /\ [][part = "login" => Login!HearsItsOwn]_vars
=============================================================================
