------------------------------- MODULE OneNote -------------------------------
(***************************************************************************)
(* The OneNote tools of one account: Graph holds the pages, a local store  *)
(* (onenote_db_service.py) holds a row per known page, the order in which  *)
(* pages were used, summaries and the history of edits.  A call talks to   *)
(* Graph (graph_onenote_client.py), then writes the store without an await *)
(* (onenote_write.py, onenote_delete.py, onenote_read.py); the agent       *)
(* (onenote_agent.py) summarises between awaits.  Calls of one account are *)
(* interleaved, and its owner edits pages elsewhere meanwhile.             *)
(* A page is an id, its content a version; ids are never used twice.       *)
(***************************************************************************)
EXTENDS Naturals, Sequences, FiniteSets, SequencesExt

CONSTANTS
    PageOrder,      \* the pages that may exist, in the order Graph lists them
    NoteCalls,      \* tool calls
    ChunkSize,      \* $top: pages in one answer of a listing
    MaxVersion      \* bound: edits of a page

Pages == ToSet(PageOrder)

NoteAssumption ==
    /\ PageOrder \in Seq(Pages) /\ IsInjective(PageOrder)
    /\ ChunkSize \in Nat \ {0} /\ MaxVersion \in Nat \ {0}

VARIABLES
    version,     \* Graph: page -> version of its content, 0 before it is created
    deleted,     \* Graph: the pages that were deleted
    rows,        \* store: page -> "none", "nameless" or "named"
    recent,      \* store: the pages with a last_accessed, latest first
    summary,     \* store: page -> the version its summary is of, 0 without one
    changes,     \* store: the recorded edits
    noteCall     \* call -> its local state; of it, living (the pages when its listing began)
                 \* and hollow (a chunk of it came empty) are kept for the properties only

noteVars == <<version, deleted, rows, recent, summary, changes, noteCall>>

Ops == {"create", "edit", "append", "delete", "sync", "list", "search"}
NoPage == 0
Idle == [op |-> "none", pc |-> "idle", page |-> NoPage, reply |-> "none", cursor |-> 0,
         seen |-> {}, truncated |-> FALSE, hollow |-> FALSE, previous |-> 0, living |-> {},
         answer |-> "none"]
CallStates == [op : Ops \cup {"none"},
               pc : {"idle", "asking", "replied", "listing", "changing", "reading", "summarizing", "done"},
               page : Pages \cup {NoPage}, reply : {"none", "ok", "missing", "failed"},
               cursor : 0..Len(PageOrder), seen : SUBSET Pages, truncated : BOOLEAN,
               hollow : BOOLEAN, previous : 0..MaxVersion, living : SUBSET Pages,
               answer : {"none", "ok", "already_deleted", "nothing_recent", "failed"}]

NoteTypeOK ==
    /\ version \in [Pages -> 0..MaxVersion]
    /\ deleted \subseteq Pages
    /\ rows \in [Pages -> {"none", "nameless", "named"}]
    /\ recent \in Seq(Pages) /\ IsInjective(recent)
    /\ summary \in [Pages -> 0..MaxVersion]
    /\ changes \subseteq [call : NoteCalls, page : Pages, previous : 0..MaxVersion]
    /\ noteCall \in [NoteCalls -> CallStates]

NoteInit ==
    /\ \E known \in SUBSET Pages :
        /\ version = [p \in Pages |-> IF p \in known THEN 1 ELSE 0]
        /\ \E listed \in SUBSET known : rows = [p \in Pages |-> IF p \in listed THEN "named" ELSE "none"]
    /\ deleted = {} /\ recent = <<>> /\ changes = {}
    /\ summary = [p \in Pages |-> 0]
    /\ noteCall = [c \in NoteCalls |-> Idle]

-----------------------------------------------------------------------------
Alive(p) == version[p] > 0 /\ p \notin deleted
Living == {p \in Pages : Alive(p)}
Rows == {p \in Pages : rows[p] # "none"}
SummaryOf(p) == summary[p]

Set(c, call) == noteCall' = [noteCall EXCEPT ![c] = call]
Answer(c, a) ==
    Set(c, [Idle EXCEPT !.op = noteCall[c].op, !.page = noteCall[c].page, !.pc = "done", !.answer = a])

\* save_item(): a new row takes the name given, an existing one keeps its own when the
\* name is ''.
SaveItem(named, p) ==
    rows' = [rows EXCEPT ![p] = IF named THEN "named" ELSE IF @ = "none" THEN "nameless" ELSE @]
\* The pages that are not gone, in their order.
Without(pages, gone) ==
    LET kept == {i \in DOMAIN pages : pages[i] \notin gone}
        Upto(i) == {j \in kept : j <= i}
    IN  [k \in 1..Cardinality(kept) |-> pages[CHOOSE i \in kept : Cardinality(Upto(i)) = k]]
\* Mutant: a page used again is listed twice.
TouchTwice(p) == recent' = <<p>> \o recent
Touch(p) == recent' = <<p>> \o Without(recent, {p})
Forget(gone) ==
    /\ rows' = [p \in Pages |-> IF p \in gone THEN "none" ELSE rows[p]]
    /\ recent' = Without(recent, gone)
    /\ summary' = [p \in Pages |-> IF p \in gone THEN 0 ELSE summary[p]]

-----------------------------------------------------------------------------
\* The owner works on the pages elsewhere.
OwnerActs ==
    /\ \E p \in Pages :
        \/ version[p] = 0 /\ version' = [version EXCEPT ![p] = 1] /\ UNCHANGED deleted
        \/ Alive(p) /\ version[p] < MaxVersion
           /\ version' = [version EXCEPT ![p] = @ + 1] /\ UNCHANGED deleted
        \/ Alive(p) /\ deleted' = deleted \cup {p} /\ UNCHANGED version
    /\ UNCHANGED <<rows, recent, summary, changes, noteCall>>

\* write_onenote(), delete_onenote(), read_onenote(): the arguments were checked, the
\* caller is the service's owner.
BeginCreate(c) ==
    /\ noteCall[c].pc = "idle"
    /\ Set(c, [noteCall[c] EXCEPT !.op = "create", !.pc = "asking"])
    /\ UNCHANGED <<version, deleted, rows, recent, summary, changes>>

\* edit_page() notes which content the summary at hand is of, before it asks Graph.
BeginEdit(c) ==
    /\ noteCall[c].pc = "idle"
    /\ \E p \in Pages :
        /\ version[p] > 0
        /\ Set(c, [noteCall[c] EXCEPT !.op = "edit", !.pc = "asking", !.page = p, !.previous = SummaryOf(p)])
    /\ UNCHANGED <<version, deleted, rows, recent, summary, changes>>

\* append() without a page takes the one used last; without one nothing is written.
BeginAppend(c) ==
    /\ noteCall[c].pc = "idle"
    /\ IF recent = <<>> THEN Answer(c, "nothing_recent")
       ELSE Set(c, [noteCall[c] EXCEPT !.op = "append", !.pc = "asking", !.page = Head(recent),
                                            !.previous = SummaryOf(Head(recent))])
    /\ UNCHANGED <<version, deleted, rows, recent, summary, changes>>

BeginDelete(c) ==
    /\ noteCall[c].pc = "idle"
    /\ \E p \in Pages :
        /\ version[p] > 0
        /\ Set(c, [noteCall[c] EXCEPT !.op = "delete", !.pc = "asking", !.page = p])
    /\ UNCHANGED <<version, deleted, rows, recent, summary, changes>>

\* list_pages() of the reader answers from the store, and asks Graph only when it is empty.
BeginList(c) ==
    /\ noteCall[c].pc = "idle"
    /\ IF Rows # {} THEN Answer(c, "ok")
       ELSE Set(c, [noteCall[c] EXCEPT !.op = "list", !.pc = "listing", !.living = Living])
    /\ UNCHANGED <<version, deleted, rows, recent, summary, changes>>

\* sync_db(), and search_pages(), which lists the pages first.
BeginListing(c) ==
    /\ noteCall[c].pc = "idle"
    /\ \E op \in {"sync", "search"} :
        Set(c, [noteCall[c] EXCEPT !.op = op, !.pc = "listing", !.living = Living])
    /\ UNCHANGED <<version, deleted, rows, recent, summary, changes>>

-----------------------------------------------------------------------------
\* Graph takes the request: it is carried out, there is no such page, or it is refused.
\* A carried out request whose answer is lost (timeout) looks refused.
CarriedOut == {"ok", "failed"}

GraphCreates(c) ==
    /\ noteCall[c].pc = "asking" /\ noteCall[c].op = "create"
    /\ \/ \E p \in Pages, reply \in CarriedOut :
            /\ version[p] = 0
            /\ version' = [version EXCEPT ![p] = 1]
            /\ Set(c, [noteCall[c] EXCEPT !.pc = "replied", !.page = p, !.reply = reply])
       \/ Set(c, [noteCall[c] EXCEPT !.pc = "replied", !.reply = "failed"]) /\ UNCHANGED version
    /\ UNCHANGED <<deleted, rows, recent, summary, changes>>

GraphEdits(c) ==
    /\ noteCall[c].pc = "asking" /\ noteCall[c].op \in {"edit", "append"}
    /\ LET p == noteCall[c].page IN
       \/ /\ Alive(p) /\ version[p] < MaxVersion
          /\ version' = [version EXCEPT ![p] = @ + 1]
          /\ \E reply \in CarriedOut : Set(c, [noteCall[c] EXCEPT !.pc = "replied", !.reply = reply])
       \/ ~Alive(p) /\ Set(c, [noteCall[c] EXCEPT !.pc = "replied", !.reply = "missing"]) /\ UNCHANGED version
       \/ Set(c, [noteCall[c] EXCEPT !.pc = "replied", !.reply = "failed"]) /\ UNCHANGED version
    /\ UNCHANGED <<deleted, rows, recent, summary, changes>>

GraphDeletes(c) ==
    /\ noteCall[c].pc = "asking" /\ noteCall[c].op = "delete"
    /\ LET p == noteCall[c].page IN
       \/ /\ Alive(p) /\ deleted' = deleted \cup {p}
          /\ \E reply \in CarriedOut : Set(c, [noteCall[c] EXCEPT !.pc = "replied", !.reply = reply])
       \/ ~Alive(p) /\ Set(c, [noteCall[c] EXCEPT !.pc = "replied", !.reply = "missing"]) /\ UNCHANGED deleted
       \/ Set(c, [noteCall[c] EXCEPT !.pc = "replied", !.reply = "failed"]) /\ UNCHANGED deleted
    /\ UNCHANGED <<version, rows, recent, summary, changes>>

Created(c) ==
    /\ noteCall[c].pc = "replied" /\ noteCall[c].op = "create"
    /\ IF noteCall[c].reply = "ok"
       THEN SaveItem(TRUE, noteCall[c].page) /\ Touch(noteCall[c].page) /\ Answer(c, "ok")
       ELSE Answer(c, "failed") /\ UNCHANGED <<rows, recent>>
    /\ UNCHANGED <<version, deleted, summary, changes>>

\* Mutant: any failure is taken for a page that is already gone.
DeletedAnyway(reply) ==
    CASE reply = "ok" -> "ok" [] OTHER -> "already_deleted"

\* delete_page(): a page that is not there any more is as good as deleted, any other
\* failure leaves the store as it is.
DeleteAnswer(reply) ==
    CASE reply = "ok" -> "ok" [] reply = "missing" -> "already_deleted" [] OTHER -> "failed"

Deleted(c) ==
    /\ noteCall[c].pc = "replied" /\ noteCall[c].op = "delete"
    /\ LET a == DeleteAnswer(noteCall[c].reply) IN
       /\ Answer(c, a)
       /\ IF a = "failed" THEN UNCHANGED <<rows, recent, summary>> ELSE Forget({noteCall[c].page})
    /\ UNCHANGED <<version, deleted, changes>>

\* edit_page(): the row is refreshed at once, the change is described by the agent.
Edited(c) ==
    /\ noteCall[c].pc = "replied" /\ noteCall[c].op \in {"edit", "append"}
    /\ IF noteCall[c].reply = "ok"
       THEN /\ SaveItem(FALSE, noteCall[c].page) /\ Touch(noteCall[c].page)
            /\ Set(c, [noteCall[c] EXCEPT !.pc = "changing"])
       ELSE Answer(c, "failed") /\ UNCHANGED <<rows, recent>>
    /\ UNCHANGED <<version, deleted, summary, changes>>

ChangeOf(c) == [call |-> c, page |-> noteCall[c].page, previous |-> noteCall[c].previous]

\* summarize_change() is back, or failed: the edit is recorded, and a page that had a
\* summary gets a new one.
RecordChange(c) ==
    /\ noteCall[c].pc = "changing"
    /\ changes' = changes \cup {ChangeOf(c)}
    /\ IF noteCall[c].previous > 0 THEN Set(c, [noteCall[c] EXCEPT !.pc = "reading"]) ELSE Answer(c, "ok")
    /\ UNCHANGED <<version, deleted, rows, recent, summary>>

\* summarize_page(force_refresh): the content it reads is what the summary will be of.
\* Without the SDK, the page or an answer there is none, and the edit is a success all the same.
ReadContent(c) ==
    /\ noteCall[c].pc = "reading"
    /\ \/ Alive(noteCall[c].page)
          /\ Set(c, [noteCall[c] EXCEPT !.pc = "summarizing",
                                       !.previous = version[noteCall[c].page]])
       \/ Answer(c, "ok")
    /\ UNCHANGED <<version, deleted, rows, recent, summary, changes>>

SaveSummary(c) ==
    /\ noteCall[c].pc = "summarizing"
    /\ summary' = [summary EXCEPT ![noteCall[c].page] = noteCall[c].previous]
    /\ Answer(c, "ok")
    /\ UNCHANGED <<version, deleted, rows, recent, changes>>

\* summarize_page() as a call of its own: the summary at hand serves as long as it is of
\* the content just read.
Summarize(c) ==
    /\ noteCall[c].pc = "idle"
    /\ \E p \in Living :
        IF SummaryOf(p) = version[p] THEN Answer(c, "ok")
        ELSE Set(c, [noteCall[c] EXCEPT !.op = "edit", !.pc = "summarizing", !.page = p,
                                           !.previous = version[p]])
    /\ UNCHANGED <<version, deleted, rows, recent, summary, changes>>

-----------------------------------------------------------------------------
\* list_pages() of the client follows the next links; each chunk is what Graph has then,
\* from the place after the cursor up to another.  A chunk may also be empty while its next
\* link leads to more pages: the client stops there, and takes what it has for the whole.
Ahead(c) == {i \in DOMAIN PageOrder : i > noteCall[c].cursor /\ Alive(PageOrder[i])}
Chunk(c, upto) == {i \in Ahead(c) : i <= upto}

\* The listing is over: the whole of it, a part, or (the first chunk failed) nothing.
ListingEnds(c, seen, truncated) ==
    Set(c, [noteCall[c] EXCEPT !.pc = "replied", !.reply = "ok", !.seen = seen, !.truncated = truncated])

NextChunk(c) ==
    /\ noteCall[c].pc = "listing"
    /\ LET Seen(places) == noteCall[c].seen \cup {PageOrder[i] : i \in places} IN
       \/ Cardinality(Ahead(c)) <= ChunkSize /\ ListingEnds(c, Seen(Ahead(c)), FALSE)
       \/ /\ Cardinality(Ahead(c)) > ChunkSize
          /\ \E upto \in Ahead(c) :
              /\ Cardinality(Chunk(c, upto)) = ChunkSize
              /\ Set(c, [noteCall[c] EXCEPT !.seen = Seen(Chunk(c, upto)), !.cursor = upto])
       \/ Set(c, [noteCall[c] EXCEPT !.pc = "replied", !.reply = "ok", !.hollow = TRUE])
    /\ UNCHANGED <<version, deleted, rows, recent, summary, changes>>

\* Nothing came of the first request; a later link that is not Graph's own is refused.
ListingFails(c) ==
    /\ noteCall[c].pc = "listing"
    /\ Answer(c, "failed")
    /\ UNCHANGED <<version, deleted, rows, recent, summary, changes>>

ListingBreaksOff(c) ==
    /\ noteCall[c].pc = "listing" /\ noteCall[c].cursor > 0
    /\ ListingEnds(c, noteCall[c].seen, TRUE)
    /\ UNCHANGED <<version, deleted, rows, recent, summary, changes>>

\* Mutant: a part of a listing counts as the whole.
PrunableAnyway(c, failed) ==
    IF noteCall[c].seen = {} THEN {} ELSE Rows \ noteCall[c].seen

\* Only a complete listing, stored at least in part, says which rows lead nowhere; an
\* empty one is not believed.
Prunable(c, failed) ==
    IF noteCall[c].truncated \/ noteCall[c].seen \in {{}, failed} THEN {}
    ELSE Rows \ noteCall[c].seen

\* sync_pages_to_db(): a part that could be saved is a success.
SyncAnswer(seen, failed) == IF failed = seen /\ seen # {} THEN "failed" ELSE "ok"

\* sync_db(): every page is saved, then the rows without a page are removed, without an
\* await in between.  Some rows may fail to be saved.
StoreListing(c) ==
    /\ noteCall[c].pc = "replied" /\ noteCall[c].op \in {"sync", "list"}
    /\ \E failed \in SUBSET noteCall[c].seen :
        LET seen == noteCall[c].seen
            gone == Prunable(c, failed) IN
        /\ rows' = [p \in Pages |-> IF p \in seen \ failed THEN "named"
                                    ELSE IF p \in gone THEN "none" ELSE rows[p]]
        /\ recent' = Without(recent, gone)
        /\ summary' = [p \in Pages |-> IF p \in gone THEN 0 ELSE summary[p]]
        /\ Answer(c, SyncAnswer(seen, failed))
    /\ UNCHANGED <<version, deleted, changes>>

\* search_pages(): the pages that could be read and were found relevant; the store is
\* neither asked nor told.
SearchAnswer(c) ==
    /\ noteCall[c].pc = "replied" /\ noteCall[c].op = "search"
    /\ Answer(c, "ok")
    /\ UNCHANGED <<version, deleted, rows, recent, summary, changes>>

NoteStep(c) ==
    \/ BeginCreate(c) \/ BeginEdit(c) \/ BeginAppend(c) \/ BeginDelete(c)
    \/ BeginList(c) \/ BeginListing(c) \/ Summarize(c)
    \/ GraphCreates(c) \/ GraphEdits(c) \/ GraphDeletes(c)
    \/ Created(c) \/ Deleted(c) \/ Edited(c)
    \/ RecordChange(c) \/ ReadContent(c) \/ SaveSummary(c)
    \/ NextChunk(c) \/ ListingFails(c) \/ ListingBreaksOff(c)
    \/ StoreListing(c) \/ SearchAnswer(c)

NoteNext == OwnerActs \/ \E c \in NoteCalls : NoteStep(c)
NoteSpec == NoteInit /\ [][NoteNext]_noteVars

-----------------------------------------------------------------------------
\* The row of a page that is in Graph goes in two cases only, both at the end of a listing
\* that shows other pages and none of whose requests failed: the page was created since the
\* listing began, or a chunk came empty before the last.  A listing that failed or broke off
\* takes no row of a living page, and neither does any other call (onenote_write.py, sync_db).
SparesTheLiving ==
    \A p \in Pages :
     (rows[p] # "none" /\ rows'[p] = "none" /\ Alive(p)) =>
         \E c \in NoteCalls : /\ noteCall[c].pc = "replied" /\ noteCall'[c].pc = "done"
                              /\ noteCall[c].op \in {"sync", "list"} /\ ~noteCall[c].truncated
                              /\ noteCall[c].seen # {} /\ p \notin noteCall[c].seen
                              /\ p \notin noteCall[c].living \/ noteCall[c].hollow

\* A page whose deletion was reported, as done or as done before, is not in Graph any more,
\* also when the answer to an earlier request was lost (onenote_delete.py).
DeletedMeansGone ==
    \A c \in NoteCalls :
        (noteCall[c].op = "delete" /\ noteCall[c].answer \in {"ok", "already_deleted"})
            => ~Alive(noteCall[c].page)

\* What the comment in sync_db says: a complete listing removes the rows of pages that are
\* not in Graph.
PrunesOnlyMissing ==
    \A p \in Pages : (rows[p] # "none" /\ rows'[p] = "none") => ~Alive(p)
=============================================================================
