------------------------------- MODULE Mailbox -------------------------------
(***************************************************************************)
(* The mail tools of one account: a query reads the inbox in pages that    *)
(* several workers ask for at once (graph_mail_query.py), a request for    *)
(* mails by their ids goes out in batches (graph_mail_id_batch.py), and    *)
(* graph_mail_client.py and outlook_service.py make the answers of it.     *)
(* Meanwhile mail arrives and is removed, and other calls run.  A mail is  *)
(* a number, given in the order of arrival; moving or deleting one ends    *)
(* the life of its id.  Graph answers each request of a batch it answers.  *)
(***************************************************************************)
EXTENDS Naturals, Sequences, FiniteSets, SequencesExt

CONSTANTS
    MaxMail,        \* bound: mails that ever arrive
    Unwanted,       \* the mails the client_filter of the queries excludes
    MailCalls,
    Top,            \* top: the number of mails a query asks for
    PageSize,       \* page_size, 150 in the code
    MaxConcurrent,  \* max_concurrent: the workers of a query, 3 in the code
    BatchSize,      \* max_batch_size, 20 in the code
    IdLists         \* the lists of ids the batch tools are called with; an id may repeat

Mails == 1..MaxMail
MailboxAssumption ==
    /\ MaxMail \in Nat
    /\ {Top, PageSize, MaxConcurrent, BatchSize} \subseteq Nat \ {0}
    /\ Unwanted \subseteq Mails
    /\ \A ids \in IdLists : ids \in Seq(Mails) /\ ids # <<>>

VARIABLES
    place,     \* Graph: mail -> "coming", "inbox" or "away"
    applied,   \* Graph: <<call, mail>>: the changes made for the calls
    sent,      \* Graph: the calls whose mail was sent or whose draft was saved
    mailCall   \* call -> its local state

mailVars == <<place, applied, sent, mailCall>>

Reading == {"fetch", "process"}
Changing == {"delete", "move", "report_not_junk"}
Writing == {"send", "draft"}
NumPages == (Top + PageSize - 1) \div PageSize
\* What is not there, in the fields that are functions.
NoPages == [p \in 1..NumPages |-> [mails |-> {}, failed |-> FALSE]]
NoInbox == [m \in {} |-> "away"]
IdleMail == [op |-> "none", pc |-> "idle", attach |-> FALSE, next |-> 1, asked |-> {},
             pages |-> NoPages, before |-> NoInbox, ids |-> <<>>, reply |-> "none",
             responses |-> {}, shown |-> <<>>, done |-> {}, failed |-> {}, status |-> "none"]
Inboxes == [Mails -> {"coming", "inbox", "away"}]
CallStates == [op : {"none", "query", "search"} \cup Reading \cup Changing \cup Writing,
               pc : {"idle", "paging", "attachments", "batch", "posting", "replied", "done"},
               attach : BOOLEAN, next : Nat \ {0}, asked : SUBSET (1..NumPages),
               pages : [1..NumPages -> [mails : SUBSET Mails, failed : BOOLEAN]],
               before : Inboxes \cup {NoInbox}, ids : Seq(Mails),
               reply : {"none", "answered", "lost"}, responses : SUBSET [id : Nat, ok : BOOLEAN],
               shown : Seq(Mails), done : SUBSET Mails, failed : SUBSET (Mails \cup 1..NumPages),
               status : {"none", "success", "partial", "error", "refused"}]

MailTypeOK ==
    /\ place \in Inboxes
    /\ applied \subseteq MailCalls \X Mails /\ sent \subseteq MailCalls
    /\ mailCall \in [MailCalls -> CallStates]
    /\ \A c \in MailCalls : Cardinality(mailCall[c].asked) <= MaxConcurrent

MailInit ==
    /\ \E n \in 0..MaxMail : place = [m \in Mails |-> IF m <= n THEN "inbox" ELSE "coming"]
    /\ applied = {} /\ sent = {}
    /\ mailCall = [c \in MailCalls |-> IdleMail]

-----------------------------------------------------------------------------
InboxOf(where) == {m \in Mails : where[m] = "inbox"}
Present == InboxOf(place)
\* receivedDateTime desc: how many mails are before a mail, itself included.
Rank(where, m) == Cardinality({n \in InboxOf(where) : n >= m})
Newest(where, n) == {m \in InboxOf(where) : Rank(where, m) <= n}

Put(c, call) == mailCall' = [mailCall EXCEPT ![c] = call]
At(c, pc) == mailCall[c].pc = pc
\* _apply_client_side_filter()
Filtered(mails) == mails \ Unwanted

OwnerActs ==
    /\ \/ \E m \in Mails : /\ place[m] = "coming" /\ \A n \in 1..(m-1) : place[n] # "coming"
                           /\ place' = [place EXCEPT ![m] = "inbox"]
       \/ \E m \in Present : place' = [place EXCEPT ![m] = "away"]
    /\ UNCHANGED <<applied, sent, mailCall>>

-----------------------------------------------------------------------------
\* query_mail_list(), fetch_filter(), fetch_url(), and fetch_and_process() where attach.
BeginQuery(c) ==
    /\ At(c, "idle")
    /\ \E attach \in BOOLEAN :
        Put(c, [mailCall[c] EXCEPT !.op = "query", !.pc = "paging", !.attach = attach,
                                   !.before = place])
    /\ UNCHANGED <<place, applied, sent>>

\* page_url_for(): $skip and $top of a page. A page shows the newest of its mails first.
PageOf(where, p) ==
    {m \in Newest(where, Top) : Rank(where, m) > (p - 1) * PageSize /\ Rank(where, m) <= p * PageSize}

\* worker(): the next page nobody has taken.
AskPage(c) ==
    /\ At(c, "paging")
    /\ mailCall[c].next <= NumPages /\ Cardinality(mailCall[c].asked) < MaxConcurrent
    /\ Put(c, [mailCall[c] EXCEPT !.asked = @ \cup {mailCall[c].next}, !.next = @ + 1])
    /\ UNCHANGED <<place, applied, sent>>

\* fetch_page(): the page as the inbox is now, or the error that stands for it.
FetchPage(c) ==
    /\ \E p \in mailCall[c].asked, works \in BOOLEAN :
        LET page == [mails |-> IF works THEN Filtered(PageOf(place, p)) ELSE {}, failed |-> ~works]
        IN  Put(c, [mailCall[c] EXCEPT !.asked = @ \ {p}, !.pages[p] = page])
    /\ UNCHANGED <<place, applied, sent>>

\* The user has to connect again: the whole query is given up.
QueryRefused(c) ==
    /\ mailCall[c].asked # {}
    /\ Put(c, [IdleMail EXCEPT !.op = "query", !.pc = "done", !.status = "refused"])
    /\ UNCHANGED <<place, applied, sent>>

\* The pages in their order, a mail where it is first seen, and of a page the newest first.
Shown(pages) == UNION {pages[p].mails : p \in DOMAIN pages}
Earlier(pages, m, n) ==
    \E p \in DOMAIN pages :
        /\ m \in pages[p].mails /\ n \notin UNION {pages[q].mails : q \in 1..(p-1)}
        /\ n \in pages[p].mails => m >= n
Joined(pages) ==
    LET Upto(m) == {n \in Shown(pages) : Earlier(pages, n, m)}
    IN  [k \in 1..Cardinality(Shown(pages)) |->
            CHOOSE m \in Shown(pages) : Cardinality(Upto(m)) = k]

\* Mutant: some pages failed, and the answer is a success.
QueryStatusLenient(pages) ==
    IF \A p \in 1..NumPages : pages[p].failed THEN "error" ELSE "success"

QueryStatus(pages) ==
    LET failures == {p \in 1..NumPages : pages[p].failed}
    IN  CASE Cardinality(failures) = NumPages -> "error"
          [] failures = {} -> "success"
          [] OTHER -> "partial"

\* The rest of _fetch_parallel_with_url(), build_and_fetch() and fetch_and_process().
Assemble(c) ==
    LET mails == Joined(mailCall[c].pages)
        status == QueryStatus(mailCall[c].pages)
    IN  /\ At(c, "paging") /\ mailCall[c].next > NumPages /\ mailCall[c].asked = {}
        /\ Put(c, [mailCall[c] EXCEPT
                     !.shown = mails, !.status = status, !.pages = NoPages, !.attach = FALSE,
                     !.failed = {p \in 1..NumPages : mailCall[c].pages[p].failed},
                     !.before = IF place = @ THEN @ ELSE NoInbox,
                     !.pc = IF mailCall[c].attach /\ status # "error" /\ mails # <<>>
                            THEN "attachments" ELSE "done"])
        /\ UNCHANGED <<place, applied, sent>>

\* fetch_and_process(): the attachments of the mails, which may all fail.
Attachments(c) ==
    /\ At(c, "attachments")
    /\ \E failed \in BOOLEAN :
        Put(c, [mailCall[c] EXCEPT !.pc = "done", !.status = IF failed THEN "partial" ELSE @])
    /\ UNCHANGED <<place, applied, sent>>

\* query_search(): one request, whose answer is the whole one.
Search(c) ==
    /\ At(c, "idle")
    /\ \/ Put(c, [mailCall[c] EXCEPT !.op = "search", !.pc = "done", !.status = "success",
                     !.shown = Joined(<<[mails |-> Filtered(Newest(place, Top))]>>)])
       \/ Put(c, [mailCall[c] EXCEPT !.op = "search", !.pc = "done", !.status = "error"])
    /\ UNCHANGED <<place, applied, sent>>

-----------------------------------------------------------------------------
\* mail_action(), batch_and_fetch(), batch_and_process(). Without a token the call is over
\* before its first batch, and its answer has neither list.
BeginBatch(c) ==
    /\ At(c, "idle")
    /\ \E op \in Reading \cup Changing, ids \in IdLists :
        \/ Put(c, [mailCall[c] EXCEPT !.op = op, !.ids = ids, !.pc = "batch"])
        \/ \E status \in {"error", "refused"} :
            Put(c, [mailCall[c] EXCEPT !.op = op, !.ids = ids, !.pc = "done", !.status = status])
    /\ UNCHANGED <<place, applied, sent>>

\* _split_into_batches()
Batches(c) == (Len(mailCall[c].ids) + BatchSize - 1) \div BatchSize
BatchIds(c) ==
    LET from == (mailCall[c].next - 1) * BatchSize
    IN  SubSeq(mailCall[c].ids, from + 1, Min({from + BatchSize, Len(mailCall[c].ids)}))

\* Graph does what the requests of a batch ask, each of which it may also refuse, and
\* answers them in any order, by the ids "1", "2", ... they have in this batch; or nothing
\* of it is seen. Of two requests that end the life of one id, one at most is done.
PostBatch(c) ==
    LET ids == BatchIds(c)
        call == mailCall[c]
    IN  /\ At(c, "batch") /\ call.next <= Batches(c)
        /\ \/ \E works \in SUBSET {i \in DOMAIN ids : ids[i] \in Present} :
                /\ call.op \in {"delete", "move"} =>
                    \A i, j \in works : ids[i] = ids[j] => i = j
                /\ place' = IF call.op \in {"delete", "move"}
                            THEN [m \in Mails |-> IF m \in {ids[i] : i \in works} THEN "away" ELSE place[m]]
                            ELSE place
                /\ applied' = applied \cup {<<c, ids[i]>> : i \in works}
                /\ \E reply \in {"answered", "lost"} :
                    Put(c, [mailCall[c] EXCEPT !.pc = "replied", !.reply = reply,
                              !.responses = {[id |-> i, ok |-> i \in works] : i \in DOMAIN ids}])
           \/ /\ Put(c, [mailCall[c] EXCEPT !.pc = "replied", !.reply = "lost", !.responses = {}])
              /\ UNCHANGED <<place, applied>>
        /\ UNCHANGED sent

\* Mutant: the id of a response counts through all the ids of the call.
MailOfAny(c, r) == mailCall[c].ids[r.id]
\* batch_ids[int(req_id) - 1]
MailOf(c, r) == BatchIds(c)[r.id]

\* A batch whose answer is an error, or did not come, failed as a whole.
BatchAnswered(c) ==
    LET call == mailCall[c]
        good == IF call.reply = "lost" THEN {} ELSE {MailOf(c, r) : r \in {s \in call.responses : s.ok}}
        bad == IF call.reply = "lost" THEN ToSet(BatchIds(c))
               ELSE {MailOf(c, r) : r \in {s \in call.responses : ~s.ok}}
    IN  /\ At(c, "replied") /\ call.op \in Reading \cup Changing
        /\ Put(c, [mailCall[c] EXCEPT !.pc = "batch", !.next = @ + 1, !.responses = {},
                     !.reply = "none", !.done = @ \cup good, !.failed = @ \cup bad])
        /\ UNCHANGED <<place, applied, sent>>

\* Mutant: what could be read is all there is.
FetchStatusLenient(done, failed) == IF done = {} THEN "error" ELSE "success"
\* batch_and_fetch()
FetchStatus(done, failed) ==
    IF done = {} THEN "error" ELSE IF failed = {} THEN "success" ELSE "partial"
\* batch_and_process(): with return_on_error, which is the default.
ProcessStatus(done, failed) == IF done = {} THEN "error" ELSE "success"
\* delete_messages(), report_not_junk_messages(), move_messages(): the lists of the two
\* kinds are in the answer.
ChangeStatus(done, failed) == IF done = {} THEN "error" ELSE "success"

BatchesDone(c) ==
    LET call == mailCall[c]
    IN  /\ At(c, "batch") /\ call.next > Batches(c)
        /\ Put(c, [mailCall[c] EXCEPT !.pc = "done", !.status =
                     CASE call.op = "fetch" -> FetchStatus(call.done, call.failed)
                       [] call.op = "process" -> ProcessStatus(call.done, call.failed)
                       [] OTHER -> ChangeStatus(call.done, call.failed)])
        /\ UNCHANGED <<place, applied, sent>>

-----------------------------------------------------------------------------
\* send_mail(), save_draft(): _build_message_payload() may refuse what is to be attached.
BeginWrite(c) ==
    /\ At(c, "idle")
    /\ \E op \in Writing :
        \/ Put(c, [mailCall[c] EXCEPT !.op = op, !.pc = "posting"])
        \/ Put(c, [mailCall[c] EXCEPT !.op = op, !.pc = "done", !.status = "refused"])
    /\ UNCHANGED <<place, applied, sent>>

PostMail(c) ==
    /\ At(c, "posting")
    /\ \/ /\ sent' = sent \cup {c}
          /\ \E r \in {"answered", "lost"} : Put(c, [mailCall[c] EXCEPT !.pc = "replied", !.reply = r])
       \/ UNCHANGED sent /\ Put(c, [mailCall[c] EXCEPT !.pc = "replied", !.reply = "lost"])
    /\ UNCHANGED <<place, applied>>

\* Mutant: an answer that did not come is taken for a refusal.
WriteStatusCertain(reply) == IF reply = "answered" THEN "success" ELSE "refused"
\* 202 and 201; any other answer is an error, which says nothing of the mail.
WriteStatus(reply) == IF reply = "answered" THEN "success" ELSE "error"

MailAnswered(c) ==
    /\ At(c, "replied") /\ mailCall[c].op \in Writing
    /\ Put(c, [mailCall[c] EXCEPT !.pc = "done", !.status = WriteStatus(mailCall[c].reply)])
    /\ UNCHANGED <<place, applied, sent>>

-----------------------------------------------------------------------------
MailNext ==
    \/ OwnerActs
    \/ \E c \in MailCalls :
        \/ BeginQuery(c) \/ AskPage(c) \/ FetchPage(c) \/ QueryRefused(c) \/ Assemble(c)
        \/ Attachments(c) \/ Search(c)
        \/ BeginBatch(c) \/ PostBatch(c) \/ BatchAnswered(c) \/ BatchesDone(c)
        \/ BeginWrite(c) \/ PostMail(c) \/ MailAnswered(c)

MailSpec == MailInit /\ [][MailNext]_mailVars

-----------------------------------------------------------------------------
Done(c, op) == mailCall[c].pc = "done" /\ mailCall[c].op = op
Repeated(ids, m) == \E i, j \in DOMAIN ids : i # j /\ ids[i] = m /\ ids[j] = m

\* A query never shows a mail twice, whatever arrives between its pages; when no page
\* failed it is a success or lost only attachments, and if the inbox was left alone it
\* shows the first Top mails in their order, without the unwanted
\* (_fetch_parallel_with_url()).
QueryShowsTheInbox ==
    \A c \in MailCalls : LET call == mailCall[c] IN Done(c, "query") =>
        /\ IsInjective(call.shown) /\ Len(call.shown) <= Top
        /\ call.status = "success" =>
            /\ call.failed = {}
            /\ call.before # NoInbox =>
                /\ ToSet(call.shown) = Filtered(Newest(call.before, Top))
                /\ \A i, j \in DOMAIN call.shown : i < j => call.shown[i] > call.shown[j]

\* The mails a batch tool says are deleted, moved or reported are so. Its two lists name
\* every mail asked for, whichever batches failed, unless it names none and changed nothing;
\* only a mail asked for more than once is in both (batch_delete_by_ids() and its like).
BatchAnswersAreTrue ==
    \A c \in MailCalls, op \in Changing : LET call == mailCall[c] IN Done(c, op) =>
        /\ \A m \in call.done : <<c, m>> \in applied
        /\ \/ call.done \cup call.failed = ToSet(call.ids)
           \/ call.done \cup call.failed = {} /\ \A m \in Mails : <<c, m>> \notin applied
        /\ \A m \in call.done \cap call.failed : Repeated(call.ids, m)

\* batch_and_fetch() is a success only with every mail asked for; send_mail() and
\* save_draft() are a success only when Graph has the mail, and refuse only before it can.
AnswersOwnUp ==
    \A c \in MailCalls :
        /\ Done(c, "fetch") /\ mailCall[c].status = "success" =>
            mailCall[c].done = ToSet(mailCall[c].ids)
        /\ \A op \in Writing : Done(c, op) =>
            /\ mailCall[c].status = "success" => c \in sent
            /\ mailCall[c].status = "refused" => c \notin sent

\* Some failed ids make batch_and_process() partial, as they do batch_and_fetch() whose
\* answer it hands on (graph_mail_client.py:436).  Not so: it says success.
ProcessTellsFailures ==
    \A c \in MailCalls : Done(c, "process") /\ mailCall[c].status = "success" =>
        mailCall[c].done = ToSet(mailCall[c].ids)
=============================================================================
