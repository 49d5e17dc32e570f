----------------------------- MODULE Conversions -----------------------------
(* The conversion of files to text for one user of one server process: the     *)
(* converter threads that cannot be stopped, the slots that bound them, the     *)
(* directories they read from and the requests that wait for them.              *)
(* mcp_outlook and mcp_file_handler each keep a copy of conversion_workers.py.  *)
(* A mail call converts one attachment held in memory in the service's one      *)
(* group of threads; a file call of FileHandler runs in a worker of its own,    *)
(* with a work directory, budgets and a group of threads of its own.            *)
(* A thread is a pair <<call, item>>; an item is a file of the call, in order.  *)
EXTENDS Integers, FiniteSets, FiniteSetsExt, Functions

CONSTANTS MailCalls, FileCalls,  \* the tool calls of the user
          MaxWorkers,            \* slots of each domain (MAX_CONVERSION_WORKERS, max_workers)
          Items,                 \* the files of a call: 1..Items
          Size,                  \* their sizes, in chunks of the download
          Budget,                \* max_total_size
          MaxFileSize, MaxFiles  \* max_file_size, max_download_files

ConversionAssumption ==
  /\ MailCalls \cap FileCalls = {}
  /\ MaxWorkers \in Nat /\ Items \in Nat \ {0} /\ Size \in [1 .. Items -> Nat \ {0}]
  /\ Budget \in Nat /\ MaxFileSize \in Nat /\ MaxFiles \in Nat

VARIABLES call,     \* each call's progress, and what became of the service it was made to
          thread,   \* the converter threads
          taken,    \* the threads holding a slot
          deferred, \* file calls whose cleanup is left to their last thread
          closing   \* of the two services: "open", "joining", "closed" or "failed"

convertVars == <<call, thread, taken, deferred, closing>>

ConvertCalls == MailCalls \cup FileCalls
Converters == ConvertCalls \X (1 .. Items)
Services == {"mail", "file"}
ServiceOf(c) == IF c \in MailCalls THEN "mail" ELSE "file"
ThreadsOf(s) == {t \in Converters : ServiceOf(t[1]) = s}
\* What process, process_directory and process_onedrive are asked for.
Kinds == {"local", "folder", "onedrive"}

\* is_alive: the thread has run its last statement only when "ended". One that could not
\* be started is never alive, but stays among the group's threads.
Alive(t) == thread[t] \in {"running", "released"}
AliveOf(c) == {t \in {c} \X (1 .. Items) : Alive(t)}
GroupOf(c) == {t \in {c} \X (1 .. Items) : Alive(t) \/ thread[t] = "unstarted"}
\* What a service finds alive of its own calls; those of an earlier one are not in its groups.
LiveOf(s) == {t \in ThreadsOf(s) : call[t[1]].service = "open" /\ Alive(t)}
Last(c) == IF call[c].kind \in {"mail", "local"} THEN 1 ELSE Items

ConvertTypeOK ==
  /\ call \in [ConvertCalls ->
       [pc: {"idle", "fetch", "slot", "wait", "leaving", "joining", "over"},
        kind: Kinds \cup {"mail"}, at: 1 .. Items, late: BOOLEAN,
        bytes: Nat, files: 0 .. MaxFiles,
        \* the directories: made, their files, and what was converted
        dir: BOOLEAN, got: SUBSET (1 .. Items), texts: SUBSET (1 .. Items),
        answer: {"none", "text", "error", "overloaded"},
        service: {"open", "closed", "failed"}]]
  /\ thread \in [Converters -> {"none", "unstarted", "running", "released", "ended"}]
  /\ taken \subseteq Converters
  /\ deferred \subseteq FileCalls
  /\ closing \in [Services -> {"open", "joining", "closed", "failed"}]

ConvertInit ==
  /\ call = [c \in ConvertCalls |->
       [pc |-> "idle", kind |-> "mail", at |-> 1, late |-> FALSE, bytes |-> 0,
        files |-> 0, dir |-> FALSE, got |-> {}, texts |-> {}, answer |-> "none",
        service |-> "open"]]
  /\ thread = [t \in Converters |-> "none"]
  /\ taken = {} /\ deferred = {}
  /\ closing = [s \in Services |-> "open"]

Goes(c, pc) == call' = [call EXCEPT ![c].pc = pc]
Fails(c, answer) == call' = [call EXCEPT ![c].pc = "leaving", ![c].answer = answer]
Answers(c, answer) == call' = [call EXCEPT ![c].pc = "over", ![c].answer = answer]
NoThread == UNCHANGED <<thread, taken, deferred, closing>>

\* The registry of slots belongs to the process, one entry per user of a domain.
SlotFree(s) == Cardinality(taken \cap ThreadsOf(s)) < MaxWorkers

-----------------------------------------------------------------------------
(* A mail call: convert_with_deadline.                                         *)

BeginMail(c) ==
  /\ call[c].pc = "idle" /\ closing["mail"] = "open"
  /\ Goes(c, "slot") /\ NoThread

\* The poll of the slots every 10 ms.
MailTakesSlot(c) ==
  /\ call[c].pc = "slot" /\ SlotFree("mail")
  /\ \/ /\ call' = [call EXCEPT ![c].pc = "wait", ![c].late = FALSE]
        /\ thread' = [thread EXCEPT ![<<c, 1>>] = "running"]
        /\ taken' = taken \cup {<<c, 1>>}
     \/ \* Thread.start failed: finished, then the slot is released
        /\ Answers(c, "error")
        /\ UNCHANGED <<thread, taken>>
  /\ UNCHANGED <<deferred, closing>>

MailOverloaded(c) ==
  /\ call[c].pc = "slot" /\ call[c].late /\ ~SlotFree("mail")
  /\ Answers(c, "overloaded") /\ NoThread

\* wait_for with a shield: a timeout leaves the thread and its slot alone.
MailAnswer(c) ==
  /\ call[c].pc = "wait"
  /\ \/ /\ ~Alive(<<c, 1>>)
        /\ \E answer \in {"text", "error"} : Answers(c, answer)
     \/ /\ call[c].late /\ Alive(<<c, 1>>)
        /\ Answers(c, "error")
  /\ NoThread

-----------------------------------------------------------------------------
(* A file call: the runner of FileHandlerService._run and FileManager.         *)

\* The runner makes the work directory and binds the scope.
BeginFile(c) ==
  /\ call[c].pc = "idle" /\ closing["file"] = "open"
  /\ \E k \in Kinds :
       call' = [call EXCEPT ![c].pc = "fetch", ![c].kind = k, ![c].dir = TRUE]
  /\ NoThread

FitsAlone(c) == Size[call[c].at] <= MaxFileSize /\ Size[call[c].at] <= Budget
\* The bytes of one file pass the guard of the stream: the file's limit and the
\* budget of the request, which every download and every copy draws from.
Fits(c) == /\ Size[call[c].at] <= MaxFileSize
           /\ call[c].bytes + Size[call[c].at] <= Budget

\* The deadline and the count of files are checked before a download and before
\* each file of a folder, and end the whole call.
FetchRefused(c) ==
  /\ call[c].pc = "fetch" /\ call[c].kind # "local"
  /\ call[c].late \/ call[c].files = MaxFiles
  /\ Fails(c, "error") /\ NoThread

Counted(c) == IF call[c].kind = "local" THEN 0 ELSE 1
FetchAllowed(c) ==
  /\ call[c].pc = "fetch"
  /\ call[c].kind # "local" => ~call[c].late /\ call[c].files < MaxFiles

\* The next file, or the end of the call: some text makes a success of it.
After(r, c) ==
  IF r.at < Last(c) THEN [r EXCEPT !.at = @ + 1,
                                   !.pc = IF r.kind = "onedrive" THEN "slot" ELSE "fetch"]
  ELSE [r EXCEPT !.pc = "leaving", !.answer = IF r.texts = {} THEN "error" ELSE "text"]

\* OneDrive: all files are downloaded before the first one is converted.
Fetched(c) ==
  /\ FetchAllowed(c) /\ Fits(c)
  /\ LET r == [call[c] EXCEPT !.got = @ \cup {call[c].at}, !.bytes = @ + Size[call[c].at],
                              !.files = @ + Counted(c)]
     IN call' = [call EXCEPT ![c] =
          IF r.kind = "onedrive" /\ r.at < Items THEN [r EXCEPT !.at = @ + 1]
          ELSE IF r.kind = "onedrive" THEN [r EXCEPT !.at = 1, !.pc = "slot"]
          ELSE [r EXCEPT !.pc = "slot"]]
  /\ NoThread

\* The stream breaks off or a limit stops it: the part on disk is removed, what
\* was drawn from the budget stays drawn. One lost download loses a OneDrive call.
FetchFailed(c) ==
  /\ FetchAllowed(c)
  /\ \E part \in 0 .. Size[call[c].at] - 1 :
       /\ part <= MaxFileSize /\ call[c].bytes + part <= Budget
       /\ LET r == [call[c] EXCEPT !.bytes = @ + part, !.files = @ + Counted(c)]
          IN call' = [call EXCEPT ![c] =
               IF r.kind = "onedrive" THEN [r EXCEPT !.pc = "leaving", !.answer = "error"]
               ELSE After(r, c)]
  /\ NoThread

\* _run_converter up to Thread.start; the slot is waited for until it expires.
FileTakesSlot(c) ==
  LET t == <<c, call[c].at>> IN
  /\ call[c].pc = "slot" /\ ~call[c].late /\ SlotFree("file")
  /\ \/ /\ Goes(c, "wait")
        /\ thread' = [thread EXCEPT ![t] = "running"]
     \/ \* Thread.start failed: nobody releases the slot or takes it off the group
        /\ call' = [call EXCEPT ![c] = After(@, c)]
        /\ thread' = [thread EXCEPT ![t] = "unstarted"]
  /\ taken' = taken \cup {t}
  /\ UNCHANGED <<deferred, closing>>

FileOverloaded(c) ==
  /\ call[c].pc = "slot" /\ ~call[c].late /\ ~SlotFree("file")
  /\ Fails(c, "overloaded") /\ NoThread

\* check_deadline before a conversion: the file fails, the call goes on.
TooLate(c) ==
  /\ call[c].pc = "slot" /\ call[c].late
  /\ call' = [call EXCEPT ![c] = After(@, c)] /\ NoThread

Converted(c) ==
  /\ call[c].pc = "wait" /\ ~Alive(<<c, call[c].at>>)
  /\ \E text \in {{}, {call[c].at}} :
       call' = [call EXCEPT ![c] = After([call[c] EXCEPT !.texts = @ \cup text], c)]
  /\ NoThread

ConversionTimesOutReleasing(c) ==
  /\ call[c].pc = "wait" /\ call[c].late /\ Alive(<<c, call[c].at>>)
  /\ call' = [call EXCEPT ![c] = After(@, c)]
  /\ taken' = taken \ {<<c, call[c].at>>}
  /\ UNCHANGED <<thread, deferred, closing>>
ConversionTimesOutNever(c) == call[c].pc = "wait" /\ FALSE /\ NoThread

\* join returned at the deadline: the result will be thrown away.
ConversionTimesOut(c) ==
  /\ call[c].pc = "wait" /\ call[c].late /\ Alive(<<c, call[c].at>>)
  /\ call' = [call EXCEPT ![c] = After(@, c)] /\ NoThread

\* A OneDrive call removes its downloads as it leaves _download_dir.
LeaveDownloads(c) ==
  /\ call[c].pc = "leaving"
  /\ call' = [call EXCEPT ![c].pc = "joining",
                          ![c].got = IF call[c].kind = "onedrive" THEN {} ELSE @]
  /\ NoThread

LeaveFileAtOnce(c) ==
  /\ call[c].pc = "joining"
  /\ call' = [call EXCEPT ![c].pc = "over", ![c].dir = FALSE, ![c].got = {}]
  /\ NoThread
\* WorkerGroup.close: the work directory goes with all in it when no thread is
\* alive any more, or is left to the last thread.
LeaveFile(c) ==
  /\ call[c].pc = "joining"
  /\ \/ /\ AliveOf(c) = {}
        /\ call' = [call EXCEPT ![c].pc = "over", ![c].dir = FALSE, ![c].got = {}]
        /\ UNCHANGED deferred
     \/ \* the join gave up after HARD_JOIN_CAP_SECONDS
        /\ AliveOf(c) # {}
        /\ Goes(c, "over")
        /\ deferred' = deferred \cup {c}
  /\ UNCHANGED <<thread, taken, closing>>

-----------------------------------------------------------------------------
(* The threads and the closing of a service.                                   *)

\* converter.convert returned or raised; the slot is the first thing given back.
ReleaseSlot(t) ==
  /\ thread[t] = "running"
  /\ thread' = [thread EXCEPT ![t] = "released"]
  /\ taken' = taken \ {t}
  /\ UNCHANGED <<call, deferred, closing>>

\* WorkerGroup.finished: the last thread of the group runs the cleanup left to it.
Finished(t) ==
  LET c == t[1] IN
  /\ thread[t] = "released"
  /\ thread' = [thread EXCEPT ![t] = "ended"]
  /\ IF c \in deferred /\ GroupOf(c) = {t}
     THEN /\ call' = [call EXCEPT ![c].dir = FALSE, ![c].got = {}]
          /\ deferred' = deferred \ {c}
     ELSE UNCHANGED <<call, deferred>>
  /\ UNCHANGED <<taken, closing>>

\* The deadline of the call, of its slot or of its conversion passes.
Deadline(c) ==
  /\ call[c].pc \in {"fetch", "slot", "wait"} /\ ~call[c].late
  /\ call' = [call EXCEPT ![c].late = TRUE] /\ NoThread

\* The pool closes a service that no call uses any more; that it may close one in use,
\* found expired, is ServicePool's matter.
BeginClose(s) ==
  /\ closing[s] = "open"
  /\ \A c \in ConvertCalls : ServiceOf(c) = s => call[c].pc \in {"idle", "over"}
  /\ closing' = [closing EXCEPT ![s] = "joining"]
  /\ UNCHANGED <<call, thread, taken, deferred>>

\* Joined, or the cap passed: then closing fails and the pool reports it. The mail
\* service has one group of threads, the file service those of the calls it served.
CloseMail ==
  /\ closing["mail"] = "joining"
  /\ closing' = [closing EXCEPT !["mail"] = IF LiveOf("mail") # {} THEN "failed" ELSE "closed"]
  /\ UNCHANGED <<call, thread, taken, deferred>>

CloseFile ==
  /\ closing["file"] = "joining"
  /\ closing' = [closing EXCEPT !["file"] = IF LiveOf("file") # {} THEN "failed" ELSE "closed"]
  /\ UNCHANGED <<call, thread, taken, deferred>>

\* The next call of the user makes a new service, with groups of its own; the slots are
\* the old ones.
Reopen(s) ==
  /\ closing[s] \in {"closed", "failed"}
  /\ closing' = [closing EXCEPT ![s] = "open"]
  /\ call' = [c \in ConvertCalls |->
       IF ServiceOf(c) = s /\ call[c].pc # "idle" /\ call[c].service = "open"
       THEN [call[c] EXCEPT !.service = closing[s]] ELSE call[c]]
  /\ UNCHANGED <<thread, taken, deferred>>

MailSteps(c) == MailTakesSlot(c) \/ MailOverloaded(c) \/ MailAnswer(c)
FileSteps(c) ==
  \/ FetchRefused(c) \/ Fetched(c) \/ FetchFailed(c)
  \/ FileTakesSlot(c) \/ FileOverloaded(c) \/ TooLate(c)
  \/ Converted(c) \/ ConversionTimesOut(c)
  \/ LeaveDownloads(c) \/ LeaveFile(c)

ConvertNext ==
  \/ \E c \in MailCalls : BeginMail(c) \/ MailSteps(c)
  \/ \E c \in FileCalls : BeginFile(c) \/ FileSteps(c)
  \/ \E c \in ConvertCalls : Deadline(c)
  \/ \E t \in Converters : ReleaseSlot(t) \/ Finished(t)
  \/ \E s \in Services : BeginClose(s) \/ Reopen(s)
  \/ CloseMail \/ CloseFile

\* The calls' own steps and the clock go on; a converter may run for ever.
ConvertFairness ==
  /\ \A c \in MailCalls : WF_convertVars(MailSteps(c))
  /\ \A c \in FileCalls : WF_convertVars(FileSteps(c))
  /\ \A c \in ConvertCalls : WF_convertVars(Deadline(c))

ConvertSpec == ConvertInit /\ [][ConvertNext]_convertVars
ConvertFairSpec == ConvertSpec /\ ConvertFairness

-----------------------------------------------------------------------------
\* No more converters run for the user than the process allows, whatever timed
\* out, was abandoned or outlived the service that started it.
WorkersBounded ==
  \A s \in Services :
    Cardinality({t \in ThreadsOf(s) : thread[t] = "running"}) <= MaxWorkers

\* The work directory of a call is there as long as one of its threads runs, and
\* nothing of it is left when the call is over and its threads have ended, unless one
\* of them could not be started while another outlived the call.
DirectoryHeld ==
  \A c \in FileCalls :
    /\ (\E t \in AliveOf(c) : thread[t] = "running") => call[c].dir
    /\ call[c].pc = "over" /\ AliveOf(c) = {} =>
         \/ ~call[c].dir /\ call[c].got = {}
         \/ c \in deferred /\ GroupOf(c) # {}

\* A service that closed without an error has left none of its own converters running,
\* then or later, whatever service follows it. What an earlier service left behind when
\* its closing failed may still be running, and the next one does not ask for it.
ClosedIsQuiet ==
  \A s \in Services, t \in Converters :
    t \in ThreadsOf(s) /\ Alive(t) =>
      /\ call[t[1]].service # "closed"
      /\ closing[s] = "closed" => call[t[1]].service = "failed"

\* The files a call holds on disk never exceed the budget of the request, however
\* many downloads and copies failed half way.
BudgetKept == \A c \in FileCalls : SumFunctionOnSet(Size, call[c].got) <= Budget

\* Every call is answered, although a converter may never return.
CallsAnswered ==
  \A c \in ConvertCalls : call[c].pc = "fetch" \/ call[c].pc = "slot" ~> call[c].pc = "over"

\* The file a converter reads stays as long as the converter runs.
InputsHeld ==
  \A t \in Converters :
    t[1] \in FileCalls /\ thread[t] = "running" => t[2] \in call[t[1]].got

\* Does not hold (README, 5): nothing of a call's directory is left when its last thread
\* has ended.
LeftoversGo ==
  \A c \in FileCalls : call[c].pc = "over" /\ AliveOf(c) = {} => ~call[c].dir

\* When no converter is alive and no call waits, every slot has been returned.
SlotsReturned ==
  (\A t \in Converters : ~Alive(t)) => taken = {}

=============================================================================
