----------------------------- MODULE OfficeProofs -----------------------------
(***************************************************************************)
(* Proofs about the operator's login and the tools of an account's notes,  *)
(* chats, mail and calendar (Office.tla), for all values of its constants: *)
(* each component has an inductive invariant of its own, and the last      *)
(* section puts them together.                                             *)
(***************************************************************************)
EXTENDS Office, FiniteSetTheorems, TLAPS

-----------------------------------------------------------------------------
(* Numbers and orders.                                                               *)

\* What holds of 0 and passes from each number to the next holds of every number.
LEMMA Numbers ==
  ASSUME NEW T, T \subseteq Nat, 0 \in T, \A n \in T : n + 1 \in T
  PROVE  T = Nat
<1> DEFINE B == {n \in Nat : n \notin T}
           I == {0 .. n : n \in B}
           R == StrictSubsetOrdering(Nat)
<1> SUFFICES ASSUME B # {} PROVE FALSE
  OBVIOUS
<1>1. I \subseteq FiniteSubsetsOf(Nat) /\ I # {}
  <2>1. \A n \in Nat : 0 .. n \in SUBSET Nat /\ IsFiniteSet(0 .. n)
    BY FS_Interval
  <2> QED BY <2>1 DEF FiniteSubsetsOf
<1>2. IsWellFoundedOn(R, FiniteSubsetsOf(Nat))
  BY FS_StrictSubsetOrderingWellFounded
<1> HIDE DEF I, R
<1>3. PICK U \in I : \A V \in I : ~(<<V, U>> \in R)
  BY <1>1, <1>2, WFMin
<1>4. PICK m \in B : U = 0 .. m
  BY <1>3 DEF I
<1>5. m # 0 /\ m - 1 \in Nat
  BY <1>4
<1>6. CASE m - 1 \in B
  <2>1. 0 .. (m - 1) \in I
    BY <1>6 DEF I
  <2>2. 0 .. (m - 1) \subseteq 0 .. m /\ m \in 0 .. m /\ m \notin 0 .. (m - 1)
    BY <1>5
  <2>3. <<0 .. (m - 1), 0 .. m>> \in R
    <3>1. 0 .. (m - 1) \in SUBSET Nat /\ 0 .. m \in SUBSET Nat
      BY <1>4, <1>5
    <3> QED BY <2>2, <3>1 DEF R, StrictSubsetOrdering
  <2> QED BY <1>3, <1>4, <2>1, <2>3
<1>7. CASE m - 1 \in T
  <2>1. (m - 1) + 1 = m
    BY <1>5
  <2> QED BY <1>4, <1>7, <2>1
<1> QED BY <1>4, <1>5, <1>6, <1>7

LEMMA LeastExists ==
  ASSUME NEW S \in SUBSET Nat, S # {}
  PROVE  \E x \in S : \A y \in S : x =< y
<1> DEFINE T == {n \in Nat : \A k \in 0 .. n : k \notin S}
<1>1. SUFFICES ASSUME \A x \in S : ~(\A y \in S : x =< y) PROVE FALSE
  OBVIOUS
<1>2. 0 \in T
  <2>1. 0 \notin S
    BY <1>1
  <2> QED BY <2>1
<1>3. ASSUME NEW n \in T PROVE n + 1 \in T
  <2>1. n + 1 \notin S
    <3>1. SUFFICES ASSUME n + 1 \in S PROVE FALSE
      OBVIOUS
    <3>2. PICK y \in S : ~(n + 1 =< y)
      BY <1>1, <3>1
    <3>3. y \in 0 .. n
      BY <3>2
    <3> QED BY <3>3
  <2> QED BY <2>1
<1>4. T = Nat
  <2> HIDE DEF T
  <2>1. T \subseteq Nat
    BY DEF T
  <2> QED BY <1>2, <1>3, <2>1, Numbers
<1>5. PICK x \in S : TRUE
  OBVIOUS
<1>6. x \in T /\ x \in 0 .. x
  BY <1>4
<1> QED BY <1>6

\* One element taken out of a finite set.
LEMMA OneOut ==
  ASSUME NEW s, IsFiniteSet(s), NEW x \in s
  PROVE  /\ IsFiniteSet(s \ {x}) /\ Cardinality(s \ {x}) \in Nat /\ Cardinality(s) \in Nat
         /\ Cardinality(s) = Cardinality(s \ {x}) + 1
<1>1. IsFiniteSet(s \ {x}) /\ Cardinality(s \ {x}) = Cardinality(s) - 1
  BY FS_RemoveElement
<1>2. Cardinality(s \ {x}) \in Nat /\ Cardinality(s) \in Nat
  BY <1>1, FS_CardinalityType
<1> QED BY <1>1, <1>2

\* The elements of a finite set in an order: U[x] are those up to x, x included.  Each has
\* a rank, the number of those up to it, and the ranks are 1, 2 and so on.
InOrder(S, U) ==
  /\ IsFiniteSet(S) /\ U \in [S -> SUBSET S]
  /\ \A x \in S : x \in U[x]
  /\ \A x, y \in S : x # y => \/ x \in U[y] /\ y \notin U[x] /\ U[x] \subseteq U[y]
                              \/ y \in U[x] /\ x \notin U[y] /\ U[y] \subseteq U[x]

LEMMA RanksRise ==
  ASSUME NEW S, NEW U, InOrder(S, U), NEW x \in S, NEW y \in S, x \in U[y], x # y
  PROVE  Cardinality(U[x]) < Cardinality(U[y])
<1>1. U[x] \subseteq U[y] /\ y \notin U[x] /\ y \in U[y] /\ U[x] # U[y]
  BY DEF InOrder
<1>2. IsFiniteSet(U[y]) /\ IsFiniteSet(U[x])
  BY FS_Subset DEF InOrder
<1>3. Cardinality(U[x]) <= Cardinality(U[y]) /\ Cardinality(U[x]) # Cardinality(U[y])
  BY <1>1, <1>2, FS_Subset
<1> QED BY <1>2, <1>3, FS_CardinalityType

LEMMA Ranks ==
  ASSUME NEW S, NEW U, InOrder(S, U)
  PROVE  /\ Cardinality(S) \in Nat
         /\ \A x \in S : Cardinality(U[x]) \in 1 .. Cardinality(S)
         /\ \A x, y \in S : Cardinality(U[x]) = Cardinality(U[y]) => x = y
         /\ \A k \in 1 .. Cardinality(S) : \E x \in S : Cardinality(U[x]) = k
<1>1. Cardinality(S) \in Nat /\ IsFiniteSet(S)
  BY FS_CardinalityType DEF InOrder
<1>2. ASSUME NEW x \in S PROVE Cardinality(U[x]) \in 1 .. Cardinality(S)
  <2>1. IsFiniteSet(U[x]) /\ Cardinality(U[x]) <= Cardinality(S) /\ U[x] # {}
    BY FS_Subset DEF InOrder
  <2>2. Cardinality(U[x]) \in Nat /\ Cardinality(U[x]) # 0
    BY <2>1, FS_CardinalityType, FS_EmptySet
  <2> QED BY <1>1, <2>1, <2>2
<1>3. ASSUME NEW x \in S, NEW y \in S, Cardinality(U[x]) = Cardinality(U[y]), x # y PROVE FALSE
  <2>1. x \in U[y] \/ y \in U[x]
    BY <1>3 DEF InOrder
  <2>2. Cardinality(U[x]) < Cardinality(U[y]) \/ Cardinality(U[y]) < Cardinality(U[x])
    BY <1>3, <2>1, RanksRise
  <2> QED BY <1>2, <1>3, <2>2
<1> DEFINE rank == [x \in S |-> Cardinality(U[x])]
           T == 1 .. Cardinality(S)
<1>4. rank \in Injection(S, T)
  BY <1>2, <1>3 DEF Injection, IsInjective
<1>5. IsFiniteSet(T) /\ Cardinality(T) = Cardinality(S)
  BY <1>1, FS_Interval
<1>6. rank \in Surjection(S, T)
  <2> HIDE DEF rank, T
  <2> QED BY <1>4, <1>5, FS_Injection
<1>7. \A k \in T : \E x \in S : Cardinality(U[x]) = k
  <2>1. \A k \in T : \E x \in S : rank[x] = k
    <3> HIDE DEF rank, T
    <3> QED BY <1>6 DEF Surjection
  <2> QED BY <2>1
<1> QED BY <1>1, <1>2, <1>3, <1>7

\* A list in which the element of rank k is at place k ...
Ranked(S, U, f) ==
  /\ f \in [1 .. Cardinality(S) -> S]
  /\ \A k \in 1 .. Cardinality(S) : Cardinality(U[f[k]]) = k

\* ... has every element once, in order.
Listed(S, U, f) ==
  /\ Cardinality(S) \in Nat /\ f \in Seq(S)
  /\ Len(f) = Cardinality(S) /\ DOMAIN f = 1 .. Cardinality(S)
  /\ \A i, j \in 1 .. Cardinality(S) : f[i] = f[j] => i = j
  /\ \A x \in S : \E k \in 1 .. Cardinality(S) : f[k] = x
  /\ \A i, j \in 1 .. Cardinality(S) : i < j => f[i] \in U[f[j]] /\ f[i] # f[j]

LEMMA RankedSequence ==
  ASSUME NEW S, NEW U, NEW f, InOrder(S, U), Ranked(S, U, f)
  PROVE  Listed(S, U, f)
<1> DEFINE n == Cardinality(S)
<1>1. n \in Nat
  BY Ranks
<1>2. \A k \in 1 .. n : f[k] \in S /\ Cardinality(U[f[k]]) = k
  BY DEF Ranked
<1>3. DOMAIN f = 1 .. n
  BY DEF Ranked
<1>4. f \in Seq(S) /\ Len(f) = n
  BY <1>1 DEF Ranked
<1>5. \A i, j \in 1 .. n : f[i] = f[j] => i = j
  BY <1>2
<1>6. ASSUME NEW x \in S PROVE \E k \in 1 .. n : f[k] = x
  <2>1. Cardinality(U[x]) \in 1 .. n /\ f[Cardinality(U[x])] \in S
        /\ Cardinality(U[f[Cardinality(U[x])]]) = Cardinality(U[x])
    BY <1>2, Ranks
  <2>2. f[Cardinality(U[x])] = x
    BY <2>1, Ranks
  <2> QED BY <2>1, <2>2
<1>7. ASSUME NEW i \in 1 .. n, NEW j \in 1 .. n, i < j
      PROVE  f[i] \in U[f[j]] /\ f[i] # f[j]
  <2>1. f[i] # f[j] /\ f[i] \in S /\ f[j] \in S /\ Cardinality(U[f[i]]) = i /\ Cardinality(U[f[j]]) = j
    BY <1>2, <1>5, <1>7
  <2>2. f[i] \in U[f[j]] \/ f[j] \in U[f[i]]
    BY <2>1 DEF InOrder
  <2>3. f[j] \in U[f[i]] => j < i
    BY <2>1, RanksRise
  <2> QED BY <1>7, <2>1, <2>2, <2>3
<1> QED BY <1>1, <1>3, <1>4, <1>5, <1>6, <1>7 DEF Listed

-----------------------------------------------------------------------------
(* The notes: what is known of a call.                                               *)

\* The operators of the modules of sequences and sets, as the module of the notes has them.
LEMMA NoteCounts ==
  /\ \A S : Notes!Cardinality(S) = Cardinality(S)
  /\ \A f : Notes!IsInjective(f) <=> \A i, j \in DOMAIN f : f[i] = f[j] => i = j
  /\ \A s : Notes!ToSet(s) = {s[i] : i \in DOMAIN s}
BY DEF Notes!Cardinality, Cardinality, Notes!IsInjective, Notes!ToSet

\* The steps of a call belong to its tool.
NoteSteps(call) ==
  /\ call.pc = "idle" => call = Notes!Idle
  /\ call.pc = "asking" => call.op \in {"create", "edit", "append", "delete"}
  /\ call.pc = "listing" => call.op \in {"sync", "list", "search"}
  /\ call.pc \in {"changing", "reading", "summarizing"} => call.op \in {"edit", "append"}

\* A call that writes has a page.
NotePage(call) ==
  /\ call.op \in {"edit", "append"} /\ call.pc \in {"asking", "replied", "changing", "reading", "summarizing"} =>
       call.page \in Notes!Pages
  /\ call.op = "create" /\ call.pc = "replied" /\ call.reply = "ok" => call.page \in Notes!Pages

\* A page that is to be deleted was there, and one whose deletion Graph confirmed is not.
NoteDelete(call) ==
  call.op = "delete" =>
    /\ call.pc \in {"asking", "replied"} =>
         call.page \in Notes!Pages /\ version[call.page] > 0 /\ call.answer = "none"
    /\ call.pc = "replied" /\ call.reply \in {"ok", "missing"} => call.page \in deleted
    /\ call.answer \in {"ok", "already_deleted"} => call.page \in deleted

\* A listing saw the pages before its cursor that were there when it began and still are,
\* and a complete one saw all of them.
NoteListing(call) ==
  call.op \in {"sync", "list", "search"} /\ call.pc \in {"listing", "replied"} =>
    /\ \A p \in call.living : version[p] > 0
    /\ call.pc = "listing" =>
         \A i \in DOMAIN PageOrder : i <= call.cursor /\ PageOrder[i] \in call.living \ deleted =>
           PageOrder[i] \in call.seen
    /\ call.pc = "replied" /\ ~call.truncated /\ ~call.hollow => call.living \ deleted \subseteq call.seen

NoteTold(c) == /\ NoteSteps(noteCall[c]) /\ NotePage(noteCall[c])
               /\ NoteDelete(noteCall[c]) /\ NoteListing(noteCall[c])
NoteInv == Notes!NoteTypeOK /\ \A c \in NoteCalls : NoteTold(c)

RowsTyped ==
  /\ version \in [Notes!Pages -> 0 .. MaxVersion]
  /\ deleted \subseteq Notes!Pages
  /\ rows \in [Notes!Pages -> {"none", "nameless", "named"}]
  /\ recent \in Seq(Notes!Pages) /\ \A i, j \in DOMAIN recent : recent[i] = recent[j] => i = j
  /\ summary \in [Notes!Pages -> 0 .. MaxVersion]
  /\ changes \subseteq [call : NoteCalls, page : Notes!Pages, previous : 0 .. MaxVersion]

\* What was created or deleted stays so.
PagesStay ==
  /\ \A p \in Notes!Pages : version[p] > 0 => version'[p] > 0
  /\ deleted \subseteq deleted'

LEMMA NoteConstants ==
  ASSUME Notes!NoteAssumption
  PROVE  /\ PageOrder \in Seq(Notes!Pages) /\ DOMAIN PageOrder = 1 .. Len(PageOrder) /\ Len(PageOrder) \in Nat
         /\ ChunkSize \in Nat \ {0} /\ MaxVersion \in Nat \ {0}
         /\ \A p \in Notes!Pages : \E i \in DOMAIN PageOrder : PageOrder[i] = p
         /\ \A i \in DOMAIN PageOrder : PageOrder[i] \in Notes!Pages
<1>1. PageOrder \in Seq(Notes!Pages) /\ ChunkSize \in Nat \ {0} /\ MaxVersion \in Nat \ {0}
  BY DEF Notes!NoteAssumption
<1>2. Notes!Pages = {PageOrder[i] : i \in DOMAIN PageOrder}
  BY NoteCounts DEF Notes!Pages
<1>3. DOMAIN PageOrder = 1 .. Len(PageOrder) /\ Len(PageOrder) \in Nat
  BY <1>1
<1> QED BY <1>1, <1>2, <1>3

LEMMA NoteParts ==
  ASSUME NoteInv
  PROVE  /\ RowsTyped /\ noteCall \in [NoteCalls -> Notes!CallStates]
         /\ \A c \in NoteCalls : /\ noteCall[c] \in Notes!CallStates /\ NoteTold(c)
                                 /\ NoteSteps(noteCall[c]) /\ NotePage(noteCall[c])
                                 /\ NoteDelete(noteCall[c]) /\ NoteListing(noteCall[c])
<1>1. RowsTyped /\ noteCall \in [NoteCalls -> Notes!CallStates]
  BY NoteCounts DEF NoteInv, Notes!NoteTypeOK, RowsTyped
<1> QED BY <1>1 DEF NoteInv, NoteTold

\* A call of its own is not touched by what others do.
LEMMA OtherNoteTold ==
  ASSUME NoteInv, NEW x \in NoteCalls, noteCall'[x] = noteCall[x], PagesStay
  PROVE  NoteTold(x)'
<1>1. /\ noteCall[x] \in Notes!CallStates /\ NoteSteps(noteCall[x]) /\ NotePage(noteCall[x])
      /\ NoteDelete(noteCall[x]) /\ NoteListing(noteCall[x])
  BY NoteParts
<1>2. NoteSteps(noteCall[x])' /\ NotePage(noteCall[x])'
  BY <1>1 DEF NoteSteps, NotePage
<1>3. NoteDelete(noteCall[x])'
  BY <1>1 DEF NoteDelete, PagesStay
<1>4. NoteListing(noteCall[x])'
  <2>1. noteCall[x].living \subseteq Notes!Pages
    BY <1>1 DEF Notes!CallStates
  <2> QED BY <1>1, <2>1 DEF NoteListing, PagesStay
<1> QED BY <1>2, <1>3, <1>4 DEF NoteTold

LEMMA NoteMoves ==
  ASSUME NoteInv, NEW c \in NoteCalls, NEW call \in Notes!CallStates, Notes!Set(c, call), RowsTyped', PagesStay,
         noteCall'[c] = call => NoteTold(c)'
  PROVE  NoteInv'
<1>1. /\ noteCall' \in [NoteCalls -> Notes!CallStates] /\ noteCall'[c] = call
      /\ \A x \in NoteCalls \ {c} : noteCall'[x] = noteCall[x]
  BY NoteParts DEF Notes!Set
<1>2. Notes!NoteTypeOK'
  BY <1>1, NoteCounts DEF Notes!NoteTypeOK, RowsTyped
<1>3. \A x \in NoteCalls \ {c} : NoteTold(x)'
  BY <1>1, OtherNoteTold
<1> QED BY <1>1, <1>2, <1>3 DEF NoteInv

\* ... while the store and Graph stay as they are.
LEMMA NoteMovesAlone ==
  ASSUME NoteInv, NEW c \in NoteCalls, NEW call \in Notes!CallStates, Notes!Set(c, call),
         UNCHANGED <<version, deleted, rows, recent, summary, changes>>,
         noteCall'[c] = call => NoteTold(c)'
  PROVE  NoteInv'
<1>1. RowsTyped'
  BY NoteParts DEF RowsTyped
<1>2. PagesStay
  BY DEF PagesStay
<1> QED BY <1>1, <1>2, NoteMoves

Endings == {"none", "ok", "already_deleted", "nothing_recent", "failed"}
LEMMA NoteEnds ==
  ASSUME Notes!NoteAssumption, NoteInv, NEW c \in NoteCalls, NEW a \in Endings, Notes!Answer(c, a),
         RowsTyped', PagesStay,
         noteCall[c].op = "delete" /\ a \in {"ok", "already_deleted"} => noteCall[c].page \in deleted'
  PROVE  NoteInv'
<1> DEFINE call == [Notes!Idle EXCEPT !.op = noteCall[c].op, !.page = noteCall[c].page, !.pc = "done",
                                      !.answer = a]
<1>1. Notes!Set(c, call)
  BY DEF Notes!Answer
<1>2. /\ call.op = noteCall[c].op /\ call.page = noteCall[c].page /\ call.pc = "done" /\ call.answer = a
      /\ call.reply = "none" /\ call.cursor = 0 /\ call.seen = {} /\ call.truncated = FALSE
      /\ call.previous = 0 /\ call.living = {}
  BY DEF Notes!Idle
<1>3. call \in Notes!CallStates
  <2>1. /\ noteCall[c].op \in Notes!Ops \cup {"none"} /\ noteCall[c].page \in Notes!Pages \cup {Notes!NoPage}
    BY NoteParts DEF Notes!CallStates
  <2>2. /\ 0 \in 0 .. Len(PageOrder) /\ 0 \in 0 .. MaxVersion
    BY NoteConstants
  <2> QED BY <2>1, <2>2 DEF Notes!CallStates, Notes!Idle, Endings
<1> HIDE DEF call
<1>4. ASSUME noteCall'[c] = call PROVE NoteTold(c)'
  BY <1>2, <1>4 DEF NoteTold, NoteSteps, NotePage, NoteDelete, NoteListing
<1> QED BY <1>1, <1>3, <1>4, NoteMoves

LEMMA BlankNote ==
  ASSUME Notes!NoteAssumption
  PROVE  /\ Notes!Idle \in Notes!CallStates /\ Notes!Idle.pc = "idle" /\ Notes!Idle.op = "none"
         /\ Notes!Idle.answer = "none" /\ Notes!Idle.cursor = 0 /\ Notes!Idle.seen = {}
<1>1. 0 \in 0 .. Len(PageOrder) /\ 0 \in 0 .. MaxVersion
  BY NoteConstants
<1> QED BY <1>1 DEF Notes!Idle, Notes!CallStates

LEMMA NoteStart == ASSUME Notes!NoteAssumption, Notes!NoteInit PROVE NoteInv
<1>1. /\ deleted = {} /\ recent = <<>> /\ changes = {} /\ summary = [p \in Notes!Pages |-> 0]
      /\ noteCall = [c \in NoteCalls |-> Notes!Idle]
  BY DEF Notes!NoteInit
<1>2. version \in [Notes!Pages -> {0, 1}] /\ rows \in [Notes!Pages -> {"none", "named"}]
  BY DEF Notes!NoteInit
<1>3. 0 \in 0 .. MaxVersion /\ 1 \in 0 .. MaxVersion
  BY NoteConstants
<1>4. RowsTyped
  BY <1>1, <1>2, <1>3 DEF RowsTyped
<1>5. noteCall \in [NoteCalls -> Notes!CallStates] /\ \A c \in NoteCalls : noteCall[c] = Notes!Idle
  BY <1>1, BlankNote
<1>6. Notes!NoteTypeOK
  BY <1>4, <1>5, NoteCounts DEF RowsTyped, Notes!NoteTypeOK
<1>7. ASSUME NEW c \in NoteCalls PROVE NoteTold(c)
  BY <1>5, BlankNote DEF NoteTold, NoteSteps, NotePage, NoteDelete, NoteListing
<1> QED BY <1>6, <1>7 DEF NoteInv

LEMMA NotesKept ==
  ASSUME NoteInv, UNCHANGED <<version, deleted, rows, recent, summary, changes>>
  PROVE  RowsTyped' /\ PagesStay
<1>1. RowsTyped'
  BY NoteParts DEF RowsTyped
<1> QED BY <1>1 DEF PagesStay

\* A call that ends and leaves the store and Graph as they are.
LEMMA NoteEndsAlone ==
  ASSUME Notes!NoteAssumption, NoteInv, NEW c \in NoteCalls, NEW a \in Endings, Notes!Answer(c, a),
         UNCHANGED <<version, deleted, rows, recent, summary, changes>>,
         noteCall[c].op # "delete" \/ a \notin {"ok", "already_deleted"}
  PROVE  NoteInv'
BY NotesKept, NoteEnds

LEMMA OwnersNotes ==
  ASSUME Notes!NoteAssumption, NoteInv, Notes!OwnerActs
  PROVE  NoteInv' /\ rows' = rows
<1>1. UNCHANGED <<rows, recent, summary, changes, noteCall>> /\ RowsTyped
  BY NoteParts DEF Notes!OwnerActs
<1>2. PICK p \in Notes!Pages :
        \/ version[p] = 0 /\ version' = [version EXCEPT ![p] = 1] /\ UNCHANGED deleted
        \/ /\ version[p] > 0 /\ version[p] < MaxVersion
           /\ version' = [version EXCEPT ![p] = @ + 1] /\ UNCHANGED deleted
        \/ deleted' = deleted \cup {p} /\ UNCHANGED version
  BY DEF Notes!OwnerActs, Notes!Alive
<1>3. version' \in [Notes!Pages -> 0 .. MaxVersion] /\ deleted' \subseteq Notes!Pages /\ PagesStay
  <2>1. /\ version \in [Notes!Pages -> 0 .. MaxVersion] /\ deleted \subseteq Notes!Pages
        /\ MaxVersion \in Nat \ {0}
    BY <1>1, NoteConstants DEF RowsTyped
  <2>2. CASE version[p] = 0 /\ version' = [version EXCEPT ![p] = 1] /\ UNCHANGED deleted
    BY <2>1, <2>2 DEF PagesStay
  <2>3. CASE /\ version[p] > 0 /\ version[p] < MaxVersion
             /\ version' = [version EXCEPT ![p] = @ + 1] /\ UNCHANGED deleted
    BY <2>1, <2>3 DEF PagesStay
  <2>4. CASE deleted' = deleted \cup {p} /\ UNCHANGED version
    BY <2>1, <2>4 DEF PagesStay
  <2> QED BY <1>2, <2>2, <2>3, <2>4
<1>4. RowsTyped'
  BY <1>1, <1>3 DEF RowsTyped
<1>5. \A x \in NoteCalls : NoteTold(x)'
  BY <1>1, <1>3, OtherNoteTold
<1>6. Notes!NoteTypeOK'
  BY <1>1, <1>4, NoteParts, NoteCounts DEF Notes!NoteTypeOK, RowsTyped
<1> QED BY <1>1, <1>5, <1>6 DEF NoteInv

-----------------------------------------------------------------------------
(* The order in which pages were used.                                               *)

LEMMA WithoutOnce ==
  ASSUME NEW P, NEW s \in Seq(P), \A i, j \in DOMAIN s : s[i] = s[j] => i = j, NEW gone
  PROVE  LET rest == Notes!Without(s, gone) IN
         /\ rest \in Seq(P) /\ \A i, j \in DOMAIN rest : rest[i] = rest[j] => i = j
         /\ \A i \in DOMAIN rest : rest[i] \notin gone
<1> DEFINE kept == {i \in DOMAIN s : s[i] \notin gone}
           U == [i \in kept |-> {j \in kept : j <= i}]
           rest == Notes!Without(s, gone)
           at == [k \in 1 .. Cardinality(kept) |->
                    CHOOSE i \in kept : Notes!Cardinality({j \in kept : j <= i}) = k]
<1>1. DOMAIN s = 1 .. Len(s) /\ Len(s) \in Nat /\ \A i \in DOMAIN s : s[i] \in P
  OBVIOUS
<1>2. IsFiniteSet(kept) /\ \A i \in kept : i \in Nat /\ s[i] \in P /\ s[i] \notin gone /\ i \in DOMAIN s
  <2>1. IsFiniteSet(1 .. Len(s))
    <3>1. 1 \in Int /\ Len(s) \in Int
      BY <1>1
    <3> QED BY <3>1, FS_Interval
  <2>2. kept \subseteq 1 .. Len(s)
    BY <1>1
  <2>3. IsFiniteSet(kept)
    <3> HIDE DEF kept
    <3> QED BY <2>1, <2>2, FS_Subset
  <2> QED BY <1>1, <2>3
<1>14. \A k \in 1 .. Cardinality(kept) :
         at[k] = CHOOSE i \in kept : Notes!Cardinality({j \in kept : j <= i}) = k
  OBVIOUS
<1>3. rest = [k \in 1 .. Cardinality(kept) |-> s[at[k]]]
  <2>1. rest = [k \in 1 .. Notes!Cardinality(kept) |->
                  s[CHOOSE i \in kept : Notes!Cardinality({j \in kept : j <= i}) = k]]
    BY DEF Notes!Without
  <2>2. Notes!Cardinality(kept) = Cardinality(kept)
    BY NoteCounts
  <2> HIDE DEF rest, kept, at
  <2>3. \A k \in 1 .. Cardinality(kept) : rest[k] = s[at[k]]
    BY <2>1, <2>2, <1>14
  <2>4. rest = [k \in 1 .. Cardinality(kept) |-> rest[k]]
    BY <2>1, <2>2
  <2> QED BY <2>3, <2>4
<1> HIDE DEF kept, rest
<1>4. InOrder(kept, U)
  <2>1. \A x \in kept : x \in U[x]
    BY <1>2
  <2>2. ASSUME NEW x \in kept, NEW y \in kept, x # y
        PROVE  \/ x \in U[y] /\ y \notin U[x] /\ U[x] \subseteq U[y]
               \/ y \in U[x] /\ x \notin U[y] /\ U[y] \subseteq U[x]
    BY <1>2, <2>2
  <2>3. U \in [kept -> SUBSET kept]
    OBVIOUS
  <2> HIDE DEF U
  <2> QED BY <1>2, <2>1, <2>2, <2>3 DEF InOrder
<1>5. \A k \in 1 .. Cardinality(kept) : \E i \in kept : Cardinality(U[i]) = k
  <2> HIDE DEF U
  <2> QED BY <1>4, Ranks
<1>6. ASSUME NEW k \in 1 .. Cardinality(kept) PROVE at[k] \in kept /\ Cardinality(U[at[k]]) = k
  <2>1. PICK i \in kept : Cardinality(U[i]) = k
    BY <1>5
  <2>2. \A n \in kept : Notes!Cardinality({j \in kept : j <= n}) = Cardinality(U[n])
    BY NoteCounts
  <2>3. at[k] = CHOOSE n \in kept : Notes!Cardinality({j \in kept : j <= n}) = k
    <3> HIDE DEF at, U
    <3> QED BY <1>14
  <2> HIDE DEF U, at
  <2> QED BY <2>1, <2>2, <2>3
<1>7. at \in [1 .. Cardinality(kept) -> kept]
  <2>1. \A k \in 1 .. Cardinality(kept) :
          (CHOOSE i \in kept : Notes!Cardinality({j \in kept : j <= i}) = k) \in kept
    <3> HIDE DEF at, U
    <3> QED BY <1>6, <1>14
  <2> QED BY <2>1
<1> HIDE DEF at, U
<1>8. Listed(kept, U, at)
  <2>1. Ranked(kept, U, at)
    BY <1>6, <1>7 DEF Ranked
  <2> QED BY <1>4, <2>1, RankedSequence
<1>9. /\ Cardinality(kept) \in Nat
      /\ \A i, j \in 1 .. Cardinality(kept) : at[i] = at[j] => i = j
  BY <1>8 DEF Listed
<1>10. rest \in [1 .. Cardinality(kept) -> P] /\ \A k \in 1 .. Cardinality(kept) : rest[k] = s[at[k]]
  BY <1>2, <1>3, <1>7
<1>11. rest \in Seq(P) /\ DOMAIN rest = 1 .. Cardinality(kept)
  BY <1>9, <1>10
<1>12. ASSUME NEW i \in DOMAIN rest, NEW j \in DOMAIN rest, rest[i] = rest[j] PROVE i = j
  <2>1. at[i] \in DOMAIN s /\ at[j] \in DOMAIN s /\ s[at[i]] = s[at[j]]
    BY <1>2, <1>7, <1>10, <1>11, <1>12
  <2>2. at[i] = at[j]
    BY <2>1
  <2> QED BY <1>9, <1>11, <2>2
<1>13. \A i \in DOMAIN rest : rest[i] \notin gone
  BY <1>2, <1>7, <1>10, <1>11
<1> QED BY <1>11, <1>12, <1>13 DEF rest

LEMMA RecentKept ==
  ASSUME NoteInv, NEW gone, recent' = Notes!Without(recent, gone)
  PROVE  recent' \in Seq(Notes!Pages) /\ \A i, j \in DOMAIN recent' : recent'[i] = recent'[j] => i = j
<1>1. recent \in Seq(Notes!Pages) /\ \A i, j \in DOMAIN recent : recent[i] = recent[j] => i = j
  BY NoteParts DEF RowsTyped
<1>2. LET rest == Notes!Without(recent, gone) IN
      /\ rest \in Seq(Notes!Pages) /\ \A i, j \in DOMAIN rest : rest[i] = rest[j] => i = j
      /\ \A i \in DOMAIN rest : rest[i] \notin gone
  BY <1>1, WithoutOnce
<1> QED BY <1>2

LEMMA Touched ==
  ASSUME NoteInv, NEW p \in Notes!Pages, Notes!Touch(p)
  PROVE  recent' \in Seq(Notes!Pages) /\ \A i, j \in DOMAIN recent' : recent'[i] = recent'[j] => i = j
<1> DEFINE rest == Notes!Without(recent, {p})
<1>1. /\ rest \in Seq(Notes!Pages) /\ \A i, j \in DOMAIN rest : rest[i] = rest[j] => i = j
      /\ \A i \in DOMAIN rest : rest[i] \notin {p}
  <2>1. recent \in Seq(Notes!Pages) /\ \A i, j \in DOMAIN recent : recent[i] = recent[j] => i = j
    BY NoteParts DEF RowsTyped
  <2> QED BY <2>1, WithoutOnce
<1>2. recent' = <<p>> \o rest
  BY DEF Notes!Touch
<1> HIDE DEF rest
<1>3. recent' \in Seq(Notes!Pages) /\ Len(recent') = Len(rest) + 1 /\ DOMAIN recent' = 1 .. (Len(rest) + 1)
  BY <1>1, <1>2
<1>4. \A i \in DOMAIN recent' : IF i = 1 THEN recent'[i] = p
                                ELSE i - 1 \in DOMAIN rest /\ recent'[i] = rest[i - 1]
  BY <1>1, <1>2
<1>5. \A i, j \in DOMAIN recent' : recent'[i] = recent'[j] => i = j
  <2>1. \A i \in DOMAIN recent' : i \in Nat
    BY <1>3
  <2> QED BY <1>1, <1>4, <2>1
<1> QED BY <1>3, <1>5

-----------------------------------------------------------------------------
(* The steps of a call.                                                              *)

LEMMA RowsStay ==
  ASSUME \A p \in Notes!Pages : rows'[p] = "none" => rows[p] = "none"
  PROVE  Notes!SparesTheLiving
BY DEF Notes!SparesTheLiving

LEMMA AtRest ==
  ASSUME NoteInv, NEW c \in NoteCalls, noteCall[c].pc = "idle"
  PROVE  noteCall[c] = Notes!Idle /\ noteCall[c] \in Notes!CallStates /\ noteCall[c].op = "none"
         /\ noteCall[c].answer = "none" /\ noteCall[c].cursor = 0 /\ noteCall[c].seen = {}
<1>1. noteCall[c] = Notes!Idle /\ noteCall[c] \in Notes!CallStates
  BY NoteParts DEF NoteSteps
<1> QED BY <1>1 DEF Notes!Idle

LEMMA CreateBegins ==
  ASSUME Notes!NoteAssumption, NoteInv, NEW c \in NoteCalls, Notes!BeginCreate(c)
  PROVE  NoteInv'
<1> DEFINE call == [noteCall[c] EXCEPT !.op = "create", !.pc = "asking"]
<1>1. noteCall[c].pc = "idle" /\ Notes!Set(c, call) /\ UNCHANGED <<version, deleted, rows, recent, summary, changes>>
  BY DEF Notes!BeginCreate
<1>2. noteCall[c] = Notes!Idle /\ noteCall[c] \in Notes!CallStates /\ noteCall[c].answer = "none"
  BY <1>1, AtRest
<1>3. call \in Notes!CallStates /\ call.op = "create" /\ call.pc = "asking"
  BY <1>2 DEF Notes!CallStates, Notes!Ops
<1> HIDE DEF call
<1>4. ASSUME noteCall'[c] = call PROVE NoteTold(c)'
  BY <1>3, <1>4 DEF NoteTold, NoteSteps, NotePage, NoteDelete, NoteListing
<1> QED BY <1>1, <1>3, <1>4, NoteMovesAlone

\* What is known of a call that edits a page, or is at one.
LEMMA EditorTold ==
  ASSUME NEW c, NEW call, noteCall'[c] = call, call.op \in {"edit", "append"}, call.page \in Notes!Pages,
         call.pc \in {"asking", "replied", "changing", "reading", "summarizing"}
  PROVE  NoteTold(c)'
BY DEF NoteTold, NoteSteps, NotePage, NoteDelete, NoteListing

\* A call that takes up the edit of a page.
LEMMA EditTaken ==
  ASSUME Notes!NoteAssumption, NoteInv, NEW c \in NoteCalls, noteCall[c].pc = "idle",
         UNCHANGED <<version, deleted, rows, recent, summary, changes>>,
         NEW op \in {"edit", "append"}, NEW pc_ \in {"asking", "summarizing"}, NEW p \in Notes!Pages,
         NEW previous \in 0 .. MaxVersion,
         Notes!Set(c, [noteCall[c] EXCEPT !.op = op, !.pc = pc_, !.page = p, !.previous = previous])
  PROVE  NoteInv'
<1> DEFINE call == [noteCall[c] EXCEPT !.op = op, !.pc = pc_, !.page = p, !.previous = previous]
<1>1. noteCall[c] \in Notes!CallStates
  BY AtRest
<1>2. call \in Notes!CallStates /\ call.op = op /\ call.pc = pc_ /\ call.page = p
  BY <1>1 DEF Notes!CallStates, Notes!Ops
<1>3. Notes!Set(c, call)
  OBVIOUS
<1> HIDE DEF call
<1>4. ASSUME noteCall'[c] = call PROVE NoteTold(c)'
  BY <1>2, <1>4, EditorTold
<1> QED BY <1>2, <1>3, <1>4, NoteMovesAlone

LEMMA EditBegins ==
  ASSUME Notes!NoteAssumption, NoteInv, NEW c \in NoteCalls,
         Notes!BeginEdit(c) \/ Notes!BeginAppend(c) \/ Notes!Summarize(c)
  PROVE  NoteInv'
<1>1. noteCall[c].pc = "idle" /\ UNCHANGED <<version, deleted, rows, recent, summary, changes>>
  BY DEF Notes!BeginEdit, Notes!BeginAppend, Notes!Summarize
<1>2. noteCall[c].op = "none"
  BY <1>1, AtRest
<1>3. RowsTyped
  BY NoteParts
<1>4. \A p \in Notes!Pages : Notes!SummaryOf(p) \in 0 .. MaxVersion /\ version[p] \in 0 .. MaxVersion
  BY <1>3 DEF RowsTyped, Notes!SummaryOf
<1>5. CASE Notes!BeginEdit(c)
  <2>1. PICK p \in Notes!Pages :
          Notes!Set(c, [noteCall[c] EXCEPT !.op = "edit", !.pc = "asking", !.page = p,
                                           !.previous = Notes!SummaryOf(p)])
    BY <1>5 DEF Notes!BeginEdit
  <2> QED BY <1>1, <1>4, <2>1, EditTaken
<1>6. CASE Notes!BeginAppend(c)
  <2>1. CASE recent = <<>>
    <3>1. Notes!Answer(c, "nothing_recent")
      BY <1>6, <2>1 DEF Notes!BeginAppend
    <3>2. "nothing_recent" \in Endings /\ "nothing_recent" \notin {"ok", "already_deleted"}
      BY DEF Endings
    <3> QED BY <1>1, <3>1, <3>2, NoteEndsAlone
  <2>2. CASE recent # <<>>
    <3>1. Notes!Set(c, [noteCall[c] EXCEPT !.op = "append", !.pc = "asking", !.page = Head(recent),
                                           !.previous = Notes!SummaryOf(Head(recent))])
      BY <1>6, <2>2 DEF Notes!BeginAppend
    <3>2. Head(recent) \in Notes!Pages
      BY <1>3, <2>2 DEF RowsTyped
    <3> QED BY <1>1, <1>4, <3>1, <3>2, EditTaken
  <2> QED BY <2>1, <2>2
<1>7. CASE Notes!Summarize(c)
  <2>1. PICK p \in Notes!Pages :
          IF Notes!SummaryOf(p) = version[p] THEN Notes!Answer(c, "ok")
          ELSE Notes!Set(c, [noteCall[c] EXCEPT !.op = "edit", !.pc = "summarizing", !.page = p,
                                                !.previous = version[p]])
    BY <1>7 DEF Notes!Summarize, Notes!Living
  <2>2. CASE Notes!SummaryOf(p) = version[p]
    <3>1. Notes!Answer(c, "ok") /\ "ok" \in Endings /\ noteCall[c].op # "delete"
      BY <1>2, <2>1, <2>2 DEF Endings
    <3> QED BY <1>1, <3>1, NoteEndsAlone
  <2>3. CASE Notes!SummaryOf(p) # version[p]
    <3>1. Notes!Set(c, [noteCall[c] EXCEPT !.op = "edit", !.pc = "summarizing", !.page = p,
                                           !.previous = version[p]])
      BY <2>1, <2>3
    <3> QED BY <1>1, <1>4, <3>1, EditTaken
  <2> QED BY <2>2, <2>3
<1> QED BY <1>5, <1>6, <1>7

LEMMA DeleteBegins ==
  ASSUME Notes!NoteAssumption, NoteInv, NEW c \in NoteCalls, Notes!BeginDelete(c)
  PROVE  NoteInv'
<1>1. noteCall[c].pc = "idle" /\ UNCHANGED <<version, deleted, rows, recent, summary, changes>>
  BY DEF Notes!BeginDelete
<1>2. PICK p \in Notes!Pages : /\ version[p] > 0
                               /\ Notes!Set(c, [noteCall[c] EXCEPT !.op = "delete", !.pc = "asking", !.page = p])
  BY DEF Notes!BeginDelete
<1> DEFINE call == [noteCall[c] EXCEPT !.op = "delete", !.pc = "asking", !.page = p]
<1>3. noteCall[c] \in Notes!CallStates /\ noteCall[c].answer = "none"
  BY <1>1, AtRest
<1>4. call \in Notes!CallStates /\ call.op = "delete" /\ call.pc = "asking" /\ call.page = p /\ call.answer = "none"
  BY <1>3 DEF Notes!CallStates, Notes!Ops
<1>5. Notes!Set(c, call)
  BY <1>2
<1> HIDE DEF call
<1>6. ASSUME noteCall'[c] = call PROVE NoteTold(c)'
  BY <1>1, <1>2, <1>4, <1>6 DEF NoteTold, NoteSteps, NotePage, NoteDelete, NoteListing
<1> QED BY <1>1, <1>4, <1>5, <1>6, NoteMovesAlone

LEMMA ListingBegins ==
  ASSUME Notes!NoteAssumption, NoteInv, NEW c \in NoteCalls, Notes!BeginList(c) \/ Notes!BeginListing(c)
  PROVE  NoteInv'
<1>1. noteCall[c].pc = "idle" /\ UNCHANGED <<version, deleted, rows, recent, summary, changes>>
  BY DEF Notes!BeginList, Notes!BeginListing
<1>2. noteCall[c] \in Notes!CallStates /\ noteCall[c].op = "none" /\ noteCall[c].cursor = 0
  BY <1>1, AtRest
<1>3. CASE Notes!Answer(c, "ok")
  BY <1>1, <1>2, <1>3, NoteEndsAlone DEF Endings
<1>4. CASE \E op \in {"list", "sync", "search"} :
             Notes!Set(c, [noteCall[c] EXCEPT !.op = op, !.pc = "listing", !.living = Notes!Living])
  <2>1. PICK op \in {"list", "sync", "search"} :
          Notes!Set(c, [noteCall[c] EXCEPT !.op = op, !.pc = "listing", !.living = Notes!Living])
    BY <1>4
  <2> DEFINE call == [noteCall[c] EXCEPT !.op = op, !.pc = "listing", !.living = Notes!Living]
  <2>2. Notes!Living \in SUBSET Notes!Pages /\ \A p \in Notes!Living : version[p] > 0
    BY DEF Notes!Living, Notes!Alive
  <2>3. call \in Notes!CallStates
    BY <1>2, <2>2 DEF Notes!CallStates, Notes!Ops
  <2>4. call.op = op /\ call.pc = "listing" /\ call.living = Notes!Living /\ call.cursor = 0
    BY <1>2 DEF Notes!CallStates
  <2>5. Notes!Set(c, call)
    BY <2>1
  <2> HIDE DEF call
  <2>6. ASSUME noteCall'[c] = call PROVE NoteTold(c)'
    <3>1. \A i \in DOMAIN PageOrder : ~(i <= call.cursor)
      BY <2>4, NoteConstants
    <3> QED BY <1>1, <2>2, <2>4, <2>6, <3>1 DEF NoteTold, NoteSteps, NotePage, NoteDelete, NoteListing
  <2> QED BY <1>1, <2>3, <2>5, <2>6, NoteMovesAlone
<1> QED BY <1>3, <1>4 DEF Notes!BeginList, Notes!BeginListing

LEMMA PageCreated ==
  ASSUME Notes!NoteAssumption, NoteInv, NEW c \in NoteCalls, Notes!GraphCreates(c)
  PROVE  NoteInv' /\ rows' = rows
<1>1. /\ noteCall[c].pc = "asking" /\ noteCall[c].op = "create"
      /\ UNCHANGED <<deleted, rows, recent, summary, changes>>
  BY DEF Notes!GraphCreates
<1>2. noteCall[c] \in Notes!CallStates /\ RowsTyped /\ MaxVersion \in Nat \ {0}
  BY NoteParts, NoteConstants
<1>3. PICK page \in Notes!Pages \cup {Notes!NoPage}, reply \in {"ok", "failed"} :
        /\ Notes!Set(c, [noteCall[c] EXCEPT !.pc = "replied", !.page = page, !.reply = reply])
        /\ reply = "ok" => page \in Notes!Pages
        /\ version' \in [Notes!Pages -> 0 .. MaxVersion]
        /\ \A p \in Notes!Pages : version[p] > 0 => version'[p] > 0
  <2>1. CASE \E p \in Notes!Pages, reply \in Notes!CarriedOut :
               /\ version' = [version EXCEPT ![p] = 1]
               /\ Notes!Set(c, [noteCall[c] EXCEPT !.pc = "replied", !.page = p, !.reply = reply])
    <3>1. PICK p \in Notes!Pages, reply \in {"ok", "failed"} :
            /\ version' = [version EXCEPT ![p] = 1]
            /\ Notes!Set(c, [noteCall[c] EXCEPT !.pc = "replied", !.page = p, !.reply = reply])
      BY <2>1 DEF Notes!CarriedOut
    <3>2. /\ version' \in [Notes!Pages -> 0 .. MaxVersion]
          /\ \A q \in Notes!Pages : version[q] > 0 => version'[q] > 0
      BY <1>2, <3>1 DEF RowsTyped
    <3> QED BY <3>1, <3>2
  <2>2. CASE Notes!Set(c, [noteCall[c] EXCEPT !.pc = "replied", !.reply = "failed"]) /\ UNCHANGED version
    <3>1. /\ [noteCall[c] EXCEPT !.pc = "replied", !.reply = "failed"] =
               [noteCall[c] EXCEPT !.pc = "replied", !.page = noteCall[c].page, !.reply = "failed"]
          /\ noteCall[c].page \in Notes!Pages \cup {Notes!NoPage}
      BY <1>2 DEF Notes!CallStates
    <3>2. /\ version' \in [Notes!Pages -> 0 .. MaxVersion]
          /\ \A q \in Notes!Pages : version[q] > 0 => version'[q] > 0
      BY <1>2, <2>2 DEF RowsTyped
    <3> QED BY <2>2, <3>1, <3>2
  <2> QED BY <2>1, <2>2 DEF Notes!GraphCreates
<1> DEFINE call == [noteCall[c] EXCEPT !.pc = "replied", !.page = page, !.reply = reply]
<1>4. call \in Notes!CallStates /\ call.op = "create" /\ call.pc = "replied" /\ call.page = page /\ call.reply = reply
  BY <1>1, <1>2 DEF Notes!CallStates
<1>5. Notes!Set(c, call)
  BY <1>3
<1> HIDE DEF call
<1>6. RowsTyped' /\ PagesStay
  BY <1>1, <1>2, <1>3 DEF RowsTyped, PagesStay
<1>7. ASSUME noteCall'[c] = call PROVE NoteTold(c)'
  BY <1>3, <1>4, <1>7 DEF NoteTold, NoteSteps, NotePage, NoteDelete, NoteListing
<1> QED BY <1>1, <1>4, <1>5, <1>6, <1>7, NoteMoves

LEMMA PageEdited ==
  ASSUME Notes!NoteAssumption, NoteInv, NEW c \in NoteCalls, Notes!GraphEdits(c)
  PROVE  NoteInv' /\ rows' = rows
<1> DEFINE p == noteCall[c].page
<1>1. /\ noteCall[c].pc = "asking" /\ noteCall[c].op \in {"edit", "append"}
      /\ UNCHANGED <<deleted, rows, recent, summary, changes>>
  BY DEF Notes!GraphEdits
<1>2. noteCall[c] \in Notes!CallStates /\ RowsTyped /\ MaxVersion \in Nat \ {0} /\ p \in Notes!Pages
  BY <1>1, NoteParts, NoteConstants DEF NotePage
<1>3. PICK reply \in {"ok", "missing", "failed"} :
        /\ Notes!Set(c, [noteCall[c] EXCEPT !.pc = "replied", !.reply = reply])
        /\ \/ UNCHANGED version
           \/ version[p] < MaxVersion /\ version' = [version EXCEPT ![p] = @ + 1]
  BY DEF Notes!GraphEdits, Notes!CarriedOut
<1> DEFINE call == [noteCall[c] EXCEPT !.pc = "replied", !.reply = reply]
<1>4. call \in Notes!CallStates /\ call.op \in {"edit", "append"} /\ call.pc = "replied" /\ call.page = p
  BY <1>1, <1>2 DEF Notes!CallStates
<1>5. Notes!Set(c, call)
  BY <1>3
<1> HIDE DEF call, p
<1>6. /\ version' \in [Notes!Pages -> 0 .. MaxVersion]
      /\ \A q \in Notes!Pages : version[q] > 0 => version'[q] > 0
  <2>1. version \in [Notes!Pages -> 0 .. MaxVersion]
    BY <1>2 DEF RowsTyped
  <2>2. CASE UNCHANGED version
    BY <2>1, <2>2
  <2>3. CASE version[p] < MaxVersion /\ version' = [version EXCEPT ![p] = @ + 1]
    BY <1>2, <2>1, <2>3
  <2> QED BY <1>3, <2>2, <2>3
<1>7. RowsTyped' /\ PagesStay
  BY <1>1, <1>2, <1>6 DEF RowsTyped, PagesStay
<1>8. ASSUME noteCall'[c] = call PROVE NoteTold(c)'
  BY <1>2, <1>4, <1>8, EditorTold
<1> QED BY <1>1, <1>4, <1>5, <1>7, <1>8, NoteMoves

LEMMA PageDeleted ==
  ASSUME Notes!NoteAssumption, NoteInv, NEW c \in NoteCalls, Notes!GraphDeletes(c)
  PROVE  NoteInv' /\ rows' = rows
<1> DEFINE p == noteCall[c].page
<1>1. /\ noteCall[c].pc = "asking" /\ noteCall[c].op = "delete"
      /\ UNCHANGED <<version, rows, recent, summary, changes>>
  BY DEF Notes!GraphDeletes
<1>2. /\ noteCall[c] \in Notes!CallStates /\ RowsTyped /\ p \in Notes!Pages /\ version[p] > 0
      /\ noteCall[c].answer = "none"
  BY <1>1, NoteParts DEF NoteDelete
<1>3. PICK reply \in {"ok", "missing", "failed"} :
        /\ Notes!Set(c, [noteCall[c] EXCEPT !.pc = "replied", !.reply = reply])
        /\ UNCHANGED deleted \/ deleted' = deleted \cup {p}
        /\ reply \in {"ok", "missing"} => p \in deleted'
  <2>1. CASE /\ deleted' = deleted \cup {p}
             /\ \E reply \in Notes!CarriedOut :
                  Notes!Set(c, [noteCall[c] EXCEPT !.pc = "replied", !.reply = reply])
    BY <2>1 DEF Notes!CarriedOut
  <2>2. CASE /\ ~Notes!Alive(p) /\ UNCHANGED deleted
             /\ Notes!Set(c, [noteCall[c] EXCEPT !.pc = "replied", !.reply = "missing"])
    BY <1>2, <2>2 DEF Notes!Alive
  <2>3. CASE Notes!Set(c, [noteCall[c] EXCEPT !.pc = "replied", !.reply = "failed"]) /\ UNCHANGED deleted
    BY <2>3
  <2> QED BY <2>1, <2>2, <2>3 DEF Notes!GraphDeletes
<1> DEFINE call == [noteCall[c] EXCEPT !.pc = "replied", !.reply = reply]
<1>4. /\ call \in Notes!CallStates /\ call.op = "delete" /\ call.pc = "replied" /\ call.page = p
      /\ call.reply = reply /\ call.answer = "none"
  BY <1>1, <1>2 DEF Notes!CallStates
<1>5. Notes!Set(c, call)
  BY <1>3
<1> HIDE DEF call, p
<1>6. RowsTyped' /\ PagesStay
  BY <1>1, <1>2, <1>3 DEF RowsTyped, PagesStay
<1>7. ASSUME noteCall'[c] = call PROVE NoteTold(c)'
  BY <1>1, <1>2, <1>3, <1>4, <1>7 DEF NoteTold, NoteSteps, NotePage, NoteDelete, NoteListing
<1> QED BY <1>1, <1>4, <1>5, <1>6, <1>7, NoteMoves

\* A call that saves a row takes none away.
LEMMA ItemSaved ==
  ASSUME RowsTyped, NEW p, NEW named \in BOOLEAN, Notes!SaveItem(named, p)
  PROVE  /\ rows' \in [Notes!Pages -> {"none", "nameless", "named"}]
         /\ \A q \in Notes!Pages : rows'[q] = "none" => rows[q] = "none"
BY DEF RowsTyped, Notes!SaveItem

LEMMA CreateEnds ==
  ASSUME Notes!NoteAssumption, NoteInv, NEW c \in NoteCalls, Notes!Created(c)
  PROVE  NoteInv' /\ Notes!SparesTheLiving
<1>1. /\ noteCall[c].pc = "replied" /\ noteCall[c].op = "create" /\ UNCHANGED <<version, deleted, summary, changes>>
      /\ RowsTyped
  BY NoteParts DEF Notes!Created
<1>2. CASE noteCall[c].reply = "ok"
  <2>1. noteCall[c].page \in Notes!Pages
    BY <1>1, <1>2, NoteParts DEF NotePage
  <2>2. Notes!SaveItem(TRUE, noteCall[c].page) /\ Notes!Touch(noteCall[c].page) /\ Notes!Answer(c, "ok")
    BY <1>2 DEF Notes!Created
  <2>3. /\ rows' \in [Notes!Pages -> {"none", "nameless", "named"}]
        /\ \A q \in Notes!Pages : rows'[q] = "none" => rows[q] = "none"
    BY <1>1, <2>2, ItemSaved
  <2>4. recent' \in Seq(Notes!Pages) /\ \A i, j \in DOMAIN recent' : recent'[i] = recent'[j] => i = j
    BY <2>1, <2>2, Touched
  <2>5. RowsTyped' /\ PagesStay
    BY <1>1, <2>3, <2>4 DEF RowsTyped, PagesStay
  <2>6. NoteInv'
    BY <1>1, <2>2, <2>5, NoteEnds DEF Endings
  <2> QED BY <2>3, <2>6, RowsStay
<1>3. CASE noteCall[c].reply # "ok"
  <2>1. Notes!Answer(c, "failed") /\ UNCHANGED <<rows, recent>>
    BY <1>3 DEF Notes!Created
  <2> QED BY <1>1, <2>1, NoteEndsAlone, RowsStay DEF Endings
<1> QED BY <1>2, <1>3

LEMMA EditEnds ==
  ASSUME Notes!NoteAssumption, NoteInv, NEW c \in NoteCalls, Notes!Edited(c)
  PROVE  NoteInv' /\ Notes!SparesTheLiving
<1>1. /\ noteCall[c].pc = "replied" /\ noteCall[c].op \in {"edit", "append"}
      /\ UNCHANGED <<version, deleted, summary, changes>>
      /\ RowsTyped /\ noteCall[c] \in Notes!CallStates
  BY NoteParts DEF Notes!Edited
<1>2. CASE noteCall[c].reply = "ok"
  <2> DEFINE call == [noteCall[c] EXCEPT !.pc = "changing"]
  <2>1. noteCall[c].page \in Notes!Pages
    BY <1>1, NoteParts DEF NotePage
  <2>2. Notes!SaveItem(FALSE, noteCall[c].page) /\ Notes!Touch(noteCall[c].page) /\ Notes!Set(c, call)
    BY <1>2 DEF Notes!Edited
  <2>3. /\ rows' \in [Notes!Pages -> {"none", "nameless", "named"}]
        /\ \A q \in Notes!Pages : rows'[q] = "none" => rows[q] = "none"
    BY <1>1, <2>2, ItemSaved
  <2>4. recent' \in Seq(Notes!Pages) /\ \A i, j \in DOMAIN recent' : recent'[i] = recent'[j] => i = j
    BY <2>1, <2>2, Touched
  <2>5. RowsTyped' /\ PagesStay
    BY <1>1, <2>3, <2>4 DEF RowsTyped, PagesStay
  <2>6. call \in Notes!CallStates /\ call.op \in {"edit", "append"} /\ call.pc = "changing" /\ call.page = noteCall[c].page
    BY <1>1 DEF Notes!CallStates
  <2> HIDE DEF call
  <2>7. ASSUME noteCall'[c] = call PROVE NoteTold(c)'
    BY <2>1, <2>6, <2>7, EditorTold
  <2>8. NoteInv'
    BY <2>2, <2>5, <2>6, <2>7, NoteMoves
  <2> QED BY <2>3, <2>8, RowsStay
<1>3. CASE noteCall[c].reply # "ok"
  <2>1. Notes!Answer(c, "failed") /\ UNCHANGED <<rows, recent>>
    BY <1>3 DEF Notes!Edited
  <2> QED BY <1>1, <2>1, NoteEndsAlone, RowsStay DEF Endings
<1> QED BY <1>2, <1>3

\* A page is forgotten only when Graph said that it is gone.
LEMMA DeleteEnds ==
  ASSUME Notes!NoteAssumption, NoteInv, NEW c \in NoteCalls, Notes!Deleted(c)
  PROVE  NoteInv' /\ Notes!SparesTheLiving
<1> DEFINE a == Notes!DeleteAnswer(noteCall[c].reply)
           p == noteCall[c].page
<1>1. /\ noteCall[c].pc = "replied" /\ noteCall[c].op = "delete" /\ UNCHANGED <<version, deleted, changes>>
      /\ RowsTyped /\ NoteDelete(noteCall[c]) /\ Notes!Answer(c, a)
      /\ IF a = "failed" THEN UNCHANGED <<rows, recent, summary>> ELSE Notes!Forget({p})
  BY NoteParts DEF Notes!Deleted
<1>2. a \in {"ok", "already_deleted", "failed"} /\ (a # "failed" => noteCall[c].reply \in {"ok", "missing"})
  BY DEF Notes!DeleteAnswer
<1> HIDE DEF a
<1>3. a # "failed" => p \in deleted
  BY <1>1, <1>2 DEF NoteDelete
<1>4. CASE a = "failed"
  <2>1. UNCHANGED <<version, deleted, rows, recent, summary, changes>>
    BY <1>1, <1>4
  <2>2. "failed" \in Endings /\ Notes!Answer(c, "failed")
    BY <1>1, <1>4 DEF Endings
  <2> QED BY <2>1, <2>2, NoteEndsAlone, RowsStay
<1>5. CASE a # "failed"
  <2>1. /\ rows' = [q \in Notes!Pages |-> IF q \in {p} THEN "none" ELSE rows[q]]
        /\ recent' = Notes!Without(recent, {p})
        /\ summary' = [q \in Notes!Pages |-> IF q \in {p} THEN 0 ELSE summary[q]]
    BY <1>1, <1>5 DEF Notes!Forget
  <2>2. recent' \in Seq(Notes!Pages) /\ \A i, j \in DOMAIN recent' : recent'[i] = recent'[j] => i = j
    BY <2>1, RecentKept
  <2>3. rows' \in [Notes!Pages -> {"none", "nameless", "named"}] /\ summary' \in [Notes!Pages -> 0 .. MaxVersion]
    BY <1>1, <2>1, NoteConstants DEF RowsTyped
  <2>4. RowsTyped' /\ PagesStay
    BY <1>1, <2>2, <2>3 DEF RowsTyped, PagesStay
  <2>5. a \in Endings /\ p \in deleted'
    BY <1>1, <1>2, <1>3, <1>5 DEF Endings
  <2>6. NoteInv'
    BY <1>1, <2>4, <2>5, NoteEnds
  <2>7. Notes!SparesTheLiving
    BY <1>3, <1>5, <2>1 DEF Notes!SparesTheLiving, Notes!Alive
  <2> QED BY <2>6, <2>7
<1> QED BY <1>4, <1>5

LEMMA ChangeRecorded ==
  ASSUME Notes!NoteAssumption, NoteInv, NEW c \in NoteCalls, Notes!RecordChange(c)
  PROVE  NoteInv' /\ rows' = rows
<1>1. /\ noteCall[c].pc = "changing" /\ changes' = changes \cup {Notes!ChangeOf(c)}
      /\ UNCHANGED <<version, deleted, rows, recent, summary>>
      /\ RowsTyped /\ noteCall[c] \in Notes!CallStates
  BY NoteParts DEF Notes!RecordChange
<1>2. noteCall[c].op \in {"edit", "append"}
  BY <1>1, NoteParts DEF NoteSteps
<1>3. noteCall[c].page \in Notes!Pages
  BY <1>1, <1>2, NoteParts DEF NotePage
<1>4. RowsTyped' /\ PagesStay
  <2>1. Notes!ChangeOf(c) \in [call : NoteCalls, page : Notes!Pages, previous : 0 .. MaxVersion]
    BY <1>1, <1>3 DEF Notes!ChangeOf, Notes!CallStates
  <2> QED BY <1>1, <2>1 DEF RowsTyped, PagesStay
<1>5. CASE noteCall[c].previous > 0
  <2> DEFINE call == [noteCall[c] EXCEPT !.pc = "reading"]
  <2>1. Notes!Set(c, call)
    BY <1>5 DEF Notes!RecordChange
  <2>2. call \in Notes!CallStates /\ call.op \in {"edit", "append"} /\ call.pc = "reading" /\ call.page = noteCall[c].page
    BY <1>1, <1>2 DEF Notes!CallStates
  <2> HIDE DEF call
  <2>3. ASSUME noteCall'[c] = call PROVE NoteTold(c)'
    BY <1>3, <2>2, <2>3, EditorTold
  <2> QED BY <1>1, <1>4, <2>1, <2>2, <2>3, NoteMoves
<1>6. CASE ~(noteCall[c].previous > 0)
  <2>1. Notes!Answer(c, "ok")
    BY <1>6 DEF Notes!RecordChange
  <2> QED BY <1>1, <1>2, <1>4, <2>1, NoteEnds DEF Endings
<1> QED BY <1>5, <1>6

LEMMA ContentRead ==
  ASSUME Notes!NoteAssumption, NoteInv, NEW c \in NoteCalls, Notes!ReadContent(c)
  PROVE  NoteInv' /\ rows' = rows
<1>1. /\ noteCall[c].pc = "reading" /\ UNCHANGED <<version, deleted, rows, recent, summary, changes>>
      /\ RowsTyped /\ noteCall[c] \in Notes!CallStates
  BY NoteParts DEF Notes!ReadContent
<1>2. noteCall[c].op \in {"edit", "append"}
  BY <1>1, NoteParts DEF NoteSteps
<1>3. noteCall[c].page \in Notes!Pages
  BY <1>1, <1>2, NoteParts DEF NotePage
<1>4. CASE Notes!Set(c, [noteCall[c] EXCEPT !.pc = "summarizing", !.previous = version[noteCall[c].page]])
  <2> DEFINE call == [noteCall[c] EXCEPT !.pc = "summarizing", !.previous = version[noteCall[c].page]]
  <2>1. version[noteCall[c].page] \in 0 .. MaxVersion
    BY <1>1, <1>3 DEF RowsTyped
  <2>2. /\ call \in Notes!CallStates /\ call.op \in {"edit", "append"} /\ call.pc = "summarizing"
        /\ call.page = noteCall[c].page
    BY <1>1, <1>2, <2>1 DEF Notes!CallStates
  <2>3. Notes!Set(c, call)
    BY <1>4
  <2> HIDE DEF call
  <2>4. ASSUME noteCall'[c] = call PROVE NoteTold(c)'
    BY <1>3, <2>2, <2>4, EditorTold
  <2> QED BY <1>1, <2>2, <2>3, <2>4, NoteMovesAlone
<1>5. CASE Notes!Answer(c, "ok")
  BY <1>1, <1>2, <1>5, NoteEndsAlone DEF Endings
<1> QED BY <1>4, <1>5 DEF Notes!ReadContent

LEMMA SummarySaved ==
  ASSUME Notes!NoteAssumption, NoteInv, NEW c \in NoteCalls, Notes!SaveSummary(c)
  PROVE  NoteInv' /\ rows' = rows
<1>1. /\ noteCall[c].pc = "summarizing" /\ UNCHANGED <<version, deleted, rows, recent, changes>>
      /\ summary' = [summary EXCEPT ![noteCall[c].page] = noteCall[c].previous]
      /\ Notes!Answer(c, "ok") /\ RowsTyped /\ noteCall[c].previous \in 0 .. MaxVersion
  BY NoteParts DEF Notes!SaveSummary, Notes!CallStates
<1>2. noteCall[c].op \in {"edit", "append"}
  BY <1>1, NoteParts DEF NoteSteps
<1>3. RowsTyped' /\ PagesStay
  BY <1>1 DEF RowsTyped, PagesStay
<1> QED BY <1>1, <1>2, <1>3, NoteEnds DEF Endings

-----------------------------------------------------------------------------
(* Listings.                                                                         *)

LEMMA ListerTold ==
  ASSUME NEW c, NEW call, noteCall'[c] = call, call.op \in {"sync", "list", "search"},
         call.pc \in {"listing", "replied"}, NoteListing(noteCall[c])'
  PROVE  NoteTold(c)'
BY DEF NoteTold, NoteSteps, NotePage, NoteDelete

\* A listing that ends, with what it saw.
LEMMA ListingOver ==
  ASSUME Notes!NoteAssumption, NoteInv, NEW c \in NoteCalls, noteCall[c].pc = "listing",
         UNCHANGED <<version, deleted, rows, recent, summary, changes>>,
         NEW seen \in SUBSET Notes!Pages, NEW truncated \in BOOLEAN, Notes!ListingEnds(c, seen, truncated),
         truncated = TRUE \/ noteCall[c].living \ deleted \subseteq seen
  PROVE  NoteInv'
<1> DEFINE call == [noteCall[c] EXCEPT !.pc = "replied", !.reply = "ok", !.seen = seen, !.truncated = truncated]
<1>1. noteCall[c] \in Notes!CallStates /\ noteCall[c].op \in {"sync", "list", "search"} /\ NoteListing(noteCall[c])
  BY NoteParts DEF NoteSteps
<1>2. \A p \in noteCall[c].living : version[p] > 0
  BY <1>1 DEF NoteListing
<1>3. /\ call \in Notes!CallStates /\ call.op = noteCall[c].op /\ call.pc = "replied" /\ call.seen = seen
      /\ call.truncated = truncated /\ call.living = noteCall[c].living
  BY <1>1 DEF Notes!CallStates
<1>4. Notes!Set(c, call)
  BY DEF Notes!ListingEnds
<1> HIDE DEF call
<1>5. ASSUME noteCall'[c] = call PROVE NoteTold(c)'
  <2>1. NoteListing(noteCall[c])'
    BY <1>2, <1>3, <1>5 DEF NoteListing
  <2> QED BY <1>1, <1>3, <1>5, <2>1, ListerTold
<1> QED BY <1>3, <1>4, <1>5, NoteMovesAlone

LEMMA ChunkListed ==
  ASSUME Notes!NoteAssumption, NoteInv, NEW c \in NoteCalls, Notes!NextChunk(c)
  PROVE  NoteInv' /\ rows' = rows
<1> DEFINE Seen(places) == noteCall[c].seen \cup {PageOrder[i] : i \in places}
<1>1. /\ noteCall[c].pc = "listing" /\ UNCHANGED <<version, deleted, rows, recent, summary, changes>>
      /\ noteCall[c] \in Notes!CallStates /\ NoteListing(noteCall[c]) /\ noteCall[c].op \in {"sync", "list", "search"}
  BY NoteParts DEF Notes!NextChunk, NoteSteps
<1>2. /\ DOMAIN PageOrder = 1 .. Len(PageOrder) /\ Len(PageOrder) \in Nat
      /\ \A p \in Notes!Pages : \E i \in DOMAIN PageOrder : PageOrder[i] = p
      /\ \A i \in DOMAIN PageOrder : PageOrder[i] \in Notes!Pages
  BY NoteConstants
<1>3. /\ noteCall[c].living \subseteq Notes!Pages /\ noteCall[c].seen \subseteq Notes!Pages
      /\ noteCall[c].cursor \in 0 .. Len(PageOrder)
      /\ \A p \in noteCall[c].living : version[p] > 0
      /\ \A i \in DOMAIN PageOrder : i <= noteCall[c].cursor /\ PageOrder[i] \in noteCall[c].living \ deleted =>
           PageOrder[i] \in noteCall[c].seen
  BY <1>1 DEF NoteListing, Notes!CallStates
\* What was there all the time is in the chunk it belongs to.
<1>4. ASSUME NEW i \in DOMAIN PageOrder, PageOrder[i] \in noteCall[c].living \ deleted, i > noteCall[c].cursor
      PROVE  i \in Notes!Ahead(c)
  BY <1>3, <1>4 DEF Notes!Ahead, Notes!Alive
<1>5. Notes!Ahead(c) \subseteq DOMAIN PageOrder
  BY DEF Notes!Ahead
<1>6. CASE Notes!ListingEnds(c, Seen(Notes!Ahead(c)), FALSE)
  <2>1. Seen(Notes!Ahead(c)) \in SUBSET Notes!Pages
    BY <1>2, <1>3, <1>5
  <2>2. noteCall[c].living \ deleted \subseteq Seen(Notes!Ahead(c))
    <3>1. ASSUME NEW p \in noteCall[c].living \ deleted PROVE p \in Seen(Notes!Ahead(c))
      <4>1. PICK i \in DOMAIN PageOrder : PageOrder[i] = p
        BY <1>2, <1>3
      <4>2. i <= noteCall[c].cursor \/ i > noteCall[c].cursor
        BY <1>2, <1>3
      <4> QED BY <1>3, <1>4, <4>1, <4>2
    <3> QED BY <3>1
  <2> HIDE DEF Seen
  <2> QED BY <1>1, <1>6, <2>1, <2>2, ListingOver
<1>7. CASE \E upto \in Notes!Ahead(c) :
             Notes!Set(c, [noteCall[c] EXCEPT !.seen = Seen(Notes!Chunk(c, upto)), !.cursor = upto])
  <2>1. PICK upto \in Notes!Ahead(c) :
          Notes!Set(c, [noteCall[c] EXCEPT !.seen = Seen(Notes!Chunk(c, upto)), !.cursor = upto])
    BY <1>7
  <2> DEFINE call == [noteCall[c] EXCEPT !.seen = Seen(Notes!Chunk(c, upto)), !.cursor = upto]
  <2>2. Seen(Notes!Chunk(c, upto)) \in SUBSET Notes!Pages /\ upto \in 0 .. Len(PageOrder)
    BY <1>2, <1>3, <1>5 DEF Notes!Chunk
  <2>3. ASSUME NEW i \in DOMAIN PageOrder, i <= upto, PageOrder[i] \in noteCall[c].living \ deleted
        PROVE  PageOrder[i] \in Seen(Notes!Chunk(c, upto))
    <3>1. i <= noteCall[c].cursor \/ i > noteCall[c].cursor
      BY <1>2, <1>3
    <3>2. i > noteCall[c].cursor => i \in Notes!Chunk(c, upto)
      BY <1>4, <2>3 DEF Notes!Chunk
    <3> QED BY <1>3, <2>3, <3>1, <3>2
  <2> HIDE DEF Seen
  <2>4. /\ call \in Notes!CallStates /\ call.op = noteCall[c].op /\ call.pc = "listing"
        /\ call.seen = Seen(Notes!Chunk(c, upto)) /\ call.cursor = upto /\ call.living = noteCall[c].living
    BY <1>1, <2>2 DEF Notes!CallStates
  <2>5. Notes!Set(c, call)
    BY <2>1
  <2> HIDE DEF call
  <2>6. ASSUME noteCall'[c] = call PROVE NoteTold(c)'
    <3>1. NoteListing(noteCall[c])'
      BY <1>1, <1>3, <2>3, <2>4, <2>6 DEF NoteListing
    <3> QED BY <1>1, <2>4, <2>6, <3>1, ListerTold
  <2> QED BY <1>1, <2>4, <2>5, <2>6, NoteMovesAlone
<1>8. CASE Notes!Set(c, [noteCall[c] EXCEPT !.pc = "replied", !.reply = "ok", !.hollow = TRUE])
  <2> DEFINE call == [noteCall[c] EXCEPT !.pc = "replied", !.reply = "ok", !.hollow = TRUE]
  <2>1. /\ call \in Notes!CallStates /\ call.op = noteCall[c].op /\ call.pc = "replied"
        /\ call.hollow = TRUE /\ call.living = noteCall[c].living
    BY <1>1 DEF Notes!CallStates
  <2>2. Notes!Set(c, call)
    BY <1>8
  <2> HIDE DEF call
  <2>3. ASSUME noteCall'[c] = call PROVE NoteTold(c)'
    <3>1. NoteListing(noteCall[c])'
      BY <1>1, <1>3, <2>1, <2>3 DEF NoteListing
    <3> QED BY <1>1, <2>1, <2>3, <3>1, ListerTold
  <2> QED BY <1>1, <2>1, <2>2, <2>3, NoteMovesAlone
<1> QED BY <1>1, <1>6, <1>7, <1>8 DEF Notes!NextChunk

LEMMA ListingStops ==
  ASSUME Notes!NoteAssumption, NoteInv, NEW c \in NoteCalls,
         Notes!ListingFails(c) \/ Notes!ListingBreaksOff(c) \/ Notes!SearchAnswer(c)
  PROVE  NoteInv' /\ rows' = rows
<1>1. UNCHANGED <<version, deleted, rows, recent, summary, changes>>
  BY DEF Notes!ListingFails, Notes!ListingBreaksOff, Notes!SearchAnswer
<1>2. CASE Notes!ListingFails(c)
  <2>1. noteCall[c].pc = "listing" /\ Notes!Answer(c, "failed")
    BY <1>2 DEF Notes!ListingFails
  <2> QED BY <1>1, <2>1, NoteEndsAlone DEF Endings
<1>3. CASE Notes!ListingBreaksOff(c)
  <2>1. noteCall[c].pc = "listing" /\ Notes!ListingEnds(c, noteCall[c].seen, TRUE)
    BY <1>3 DEF Notes!ListingBreaksOff
  <2>2. noteCall[c].seen \in SUBSET Notes!Pages
    BY NoteParts DEF Notes!CallStates
  <2> QED BY <1>1, <2>1, <2>2, ListingOver
<1>4. CASE Notes!SearchAnswer(c)
  <2>1. noteCall[c].op = "search" /\ Notes!Answer(c, "ok")
    BY <1>4 DEF Notes!SearchAnswer
  <2> QED BY <1>1, <2>1, NoteEndsAlone DEF Endings
<1> QED BY <1>2, <1>3, <1>4

\* The rows a listing takes away are of pages it did not see and should have.
LEMMA ListingStored ==
  ASSUME Notes!NoteAssumption, NoteInv, NEW c \in NoteCalls, Notes!StoreListing(c)
  PROVE  NoteInv' /\ Notes!SparesTheLiving
<1>1. /\ noteCall[c].pc = "replied" /\ noteCall[c].op \in {"sync", "list"}
      /\ UNCHANGED <<version, deleted, changes>> /\ RowsTyped
      /\ noteCall[c] \in Notes!CallStates /\ NoteListing(noteCall[c])
  BY NoteParts DEF Notes!StoreListing
<1>2. PICK failed \in SUBSET noteCall[c].seen :
        /\ rows' = [p \in Notes!Pages |-> IF p \in noteCall[c].seen \ failed THEN "named"
                                          ELSE IF p \in Notes!Prunable(c, failed) THEN "none" ELSE rows[p]]
        /\ recent' = Notes!Without(recent, Notes!Prunable(c, failed))
        /\ summary' = [p \in Notes!Pages |-> IF p \in Notes!Prunable(c, failed) THEN 0 ELSE summary[p]]
        /\ Notes!Answer(c, Notes!SyncAnswer(noteCall[c].seen, failed))
  BY DEF Notes!StoreListing
<1> DEFINE gone == Notes!Prunable(c, failed)
<1>3. \A p \in gone : ~noteCall[c].truncated /\ noteCall[c].seen # {} /\ p \notin noteCall[c].seen
  BY DEF Notes!Prunable
<1>4. \A p \in gone : p \notin noteCall[c].living \ deleted \/ noteCall[c].hollow
  BY <1>1, <1>3 DEF NoteListing
<1> HIDE DEF gone
<1>5. recent' \in Seq(Notes!Pages) /\ \A i, j \in DOMAIN recent' : recent'[i] = recent'[j] => i = j
  BY <1>2, RecentKept
<1>6. rows' \in [Notes!Pages -> {"none", "nameless", "named"}] /\ summary' \in [Notes!Pages -> 0 .. MaxVersion]
  BY <1>1, <1>2, NoteConstants DEF RowsTyped
<1>7. RowsTyped' /\ PagesStay
  BY <1>1, <1>5, <1>6 DEF RowsTyped, PagesStay
<1>8. Notes!SyncAnswer(noteCall[c].seen, failed) \in Endings
  BY DEF Notes!SyncAnswer, Endings
<1>9. NoteInv'
  BY <1>1, <1>2, <1>7, <1>8, NoteEnds
<1>10. noteCall'[c].pc = "done"
  <2>1. noteCall'[c] = [Notes!Idle EXCEPT !.op = noteCall[c].op, !.page = noteCall[c].page, !.pc = "done",
                                          !.answer = Notes!SyncAnswer(noteCall[c].seen, failed)]
    BY <1>2, NoteParts DEF Notes!Answer, Notes!Set
  <2> QED BY <2>1 DEF Notes!Idle
<1>11. ASSUME NEW p \in Notes!Pages, rows[p] # "none", rows'[p] = "none", Notes!Alive(p)
       PROVE  /\ ~noteCall[c].truncated /\ noteCall[c].seen # {} /\ p \notin noteCall[c].seen
              /\ p \notin noteCall[c].living \/ noteCall[c].hollow
  <2>1. p \in gone
    BY <1>2, <1>11 DEF gone
  <2> QED BY <1>3, <1>4, <1>11, <2>1 DEF Notes!Alive
<1>12. Notes!SparesTheLiving
  BY <1>1, <1>10, <1>11 DEF Notes!SparesTheLiving
<1> QED BY <1>9, <1>12

-----------------------------------------------------------------------------
LEMMA NoteHolds ==
  ASSUME Notes!NoteAssumption, NoteInv, [Notes!NoteNext]_noteVars
  PROVE  NoteInv' /\ [Notes!SparesTheLiving]_vars
<1> SUFFICES NoteInv' /\ Notes!SparesTheLiving
  OBVIOUS
<1>1. CASE UNCHANGED noteVars
  <2>1. UNCHANGED <<version, deleted, rows, recent, summary, changes, noteCall>>
    BY <1>1 DEF noteVars
  <2>2. RowsTyped' /\ PagesStay
    BY <2>1, NotesKept
  <2>3. \A x \in NoteCalls : NoteTold(x)'
    BY <2>1, <2>2, OtherNoteTold
  <2>4. Notes!NoteTypeOK'
    BY <2>1, <2>2, NoteParts, NoteCounts DEF Notes!NoteTypeOK, RowsTyped
  <2> QED BY <2>1, <2>3, <2>4, RowsStay DEF NoteInv
<1>2. CASE Notes!OwnerActs
  BY <1>2, OwnersNotes, RowsStay
<1>3. ASSUME NEW c \in NoteCalls, Notes!NoteStep(c)
      PROVE  NoteInv' /\ Notes!SparesTheLiving
  <2>1. CASE \/ Notes!BeginCreate(c) \/ Notes!BeginEdit(c) \/ Notes!BeginAppend(c) \/ Notes!BeginDelete(c)
             \/ Notes!BeginList(c) \/ Notes!BeginListing(c) \/ Notes!Summarize(c)
    <3>1. rows' = rows
      BY <2>1 DEF Notes!BeginCreate, Notes!BeginEdit, Notes!BeginAppend, Notes!BeginDelete, Notes!BeginList,
         Notes!BeginListing, Notes!Summarize
    <3> QED BY <2>1, <3>1, RowsStay, CreateBegins, EditBegins, DeleteBegins, ListingBegins
  <2>2. CASE \/ Notes!GraphCreates(c) \/ Notes!GraphEdits(c) \/ Notes!GraphDeletes(c)
             \/ Notes!RecordChange(c) \/ Notes!ReadContent(c) \/ Notes!SaveSummary(c)
             \/ Notes!NextChunk(c) \/ Notes!ListingFails(c) \/ Notes!ListingBreaksOff(c) \/ Notes!SearchAnswer(c)
    BY <2>2, RowsStay, PageCreated, PageEdited, PageDeleted, ChangeRecorded, ContentRead, SummarySaved,
       ChunkListed, ListingStops
  <2>3. CASE Notes!Created(c) \/ Notes!Deleted(c) \/ Notes!Edited(c) \/ Notes!StoreListing(c)
    BY <2>3, CreateEnds, DeleteEnds, EditEnds, ListingStored
  <2> QED BY <1>3, <2>1, <2>2, <2>3 DEF Notes!NoteStep
<1> QED BY <1>1, <1>2, <1>3 DEF Notes!NoteNext

LEMMA NoteHeld == ASSUME NoteInv PROVE Notes!NoteTypeOK /\ Notes!DeletedMeansGone
<1>1. Notes!DeletedMeansGone
  BY NoteParts DEF Notes!DeletedMeansGone, NoteDelete, Notes!Alive
<1> QED BY <1>1 DEF NoteInv

-----------------------------------------------------------------------------
(* The chats.                                                                        *)

\* A posted message: its call is over and did not say otherwise, its file is the one the
\* call uploaded, and whoever was there when the call began may read it.
MessageKept(msg) ==
  /\ teamCall[msg.call].pc = "done" /\ teamCall[msg.call].answer \in {"ok", "maybe_sent"}
  /\ msg.file # Chat!NoFile =>
       /\ msg.file = msg.call /\ files[msg.call] = msg.call
       /\ msg.chat # Chat!Notes => teamCall[msg.call].before \ NoEmail \subseteq shared[msg.call]

\* A call that sends a file, before the message is posted.
FileFollowed(c) ==
  /\ Chat!At(c, "file", "members") =>
       teamCall[c].chat \in Chats /\ teamCall[c].before \subseteq members[teamCall[c].chat]
  /\ Chat!At(c, "file", "one_on_one") => teamCall[c].chat \in Chats
  /\ \A step \in {"one_on_one", "upload", "invite", "post"} :
       Chat!At(c, "file", step) /\ teamCall[c].chat # Chat!Notes =>
         teamCall[c].before \ NoEmail \subseteq teamCall[c].readers
  /\ \A step \in {"invite", "post"} :
       Chat!At(c, "file", step) => teamCall[c].file = c /\ files[c] = c
  /\ Chat!At(c, "file", "post") /\ teamCall[c].chat # Chat!Notes =>
       teamCall[c].before \ NoEmail \subseteq shared[c]

\* A sync, before its rows are stored.
SyncFollowed(c) ==
  /\ \A step \in {"asking", "listed"} :
       Chat!At(c, "sync", step) => teamCall[c].before \subseteq joined \cup left
  /\ Chat!At(c, "sync", "listed") /\ ~teamCall[c].more =>
       teamCall[c].before \subseteq teamCall[c].seen \cup left

IdleIsBlank(c) == teamCall[c].pc = "idle" => teamCall[c] = Chat!IdleCall

CallFollowed(c) == FileFollowed(c) /\ SyncFollowed(c) /\ IdleIsBlank(c)

ChatInv ==
  /\ Chat!TeamTypeOK
  /\ \A msg \in messages : MessageKept(msg)
  /\ \A c \in TeamCalls : CallFollowed(c)

LEMMA ChatConstants ==
  ASSUME Chat!TeamAssumption
  PROVE  HangulChats \subseteq Chats /\ NoEmail \subseteq People /\ Chat!Notes \notin Chats
         /\ Chat!NoFile \notin TeamCalls
BY DEF Chat!TeamAssumption

LEMMA ChatStart == ASSUME Chat!TeamInit PROVE ChatInv
<1>1. Chat!IdleCall \in Chat!CallStates
  BY DEF Chat!IdleCall, Chat!CallStates, Chat!Answers
<1>2. Chat!TeamTypeOK
  <2>1. teamCall \in [TeamCalls -> Chat!CallStates]
    BY <1>1 DEF Chat!TeamInit
  <2> QED BY <2>1 DEF Chat!TeamInit, Chat!TeamTypeOK
<1>3. \A c \in TeamCalls : CallFollowed(c)
  BY DEF Chat!TeamInit, CallFollowed, FileFollowed, SyncFollowed, IdleIsBlank, Chat!At, Chat!IdleCall
<1>4. messages = {}
  BY DEF Chat!TeamInit
<1> QED BY <1>2, <1>3, <1>4 DEF ChatInv

\* The calls the steps write are calls.
LEMMA ChatCalls ==
  ASSUME NEW call \in Chat!CallStates
  PROVE  /\ \A a \in Chat!Answers : [call EXCEPT !.pc = "done", !.answer = a, !.seen = {}] \in Chat!CallStates
         /\ \A before \in SUBSET Chats :
              [call EXCEPT !.op = "sync", !.pc = "asking", !.before = before] \in Chat!CallStates
         /\ \A seen \in SUBSET Chats, more \in BOOLEAN :
              [call EXCEPT !.pc = "listed", !.seen = seen, !.more = more] \in Chat!CallStates
         /\ \A ch \in Chats, before \in SUBSET People :
              [call EXCEPT !.op = "file", !.pc = "members", !.chat = ch, !.before = before] \in Chat!CallStates
         /\ \A ch \in Chats, readers, before \in SUBSET People :
              [call EXCEPT !.op = "file", !.pc = "one_on_one", !.chat = ch, !.readers = readers,
                           !.before = before] \in Chat!CallStates
         /\ [call EXCEPT !.op = "file", !.pc = "upload"] \in Chat!CallStates
         /\ \A readers \in SUBSET People : [call EXCEPT !.pc = "upload", !.readers = readers] \in Chat!CallStates
         /\ [call EXCEPT !.pc = "upload"] \in Chat!CallStates
         /\ \A f \in TeamCalls, pcNext \in {"post", "invite"} :
              [call EXCEPT !.file = f, !.pc = pcNext] \in Chat!CallStates
         /\ [call EXCEPT !.pc = "post"] \in Chat!CallStates
         /\ \A a \in Chat!Answers : [call EXCEPT !.pc = "done", !.answer = a] \in Chat!CallStates
BY DEF Chat!CallStates

\* Graph as it may become meanwhile, for the calls other than c.
ChatGrows(c) ==
  /\ joined \cup left \subseteq joined' \cup left' /\ left \subseteq left'
  /\ \A ch \in Chats : members[ch] \subseteq members'[ch]
  /\ \A f \in TeamCalls : shared[f] \subseteq shared'[f]
  /\ \A f \in TeamCalls : f # c => files'[f] = files[f]

LEMMA OthersFollowed ==
  ASSUME Chat!TeamAssumption, ChatInv, NEW c, ChatGrows(c), NEW x \in TeamCalls, x # c,
         teamCall'[x] = teamCall[x]
  PROVE  CallFollowed(x)'
<1>1. CallFollowed(x) /\ teamCall[x].file \in TeamCalls \cup {Chat!NoFile}
  BY DEF ChatInv, Chat!TeamTypeOK, Chat!CallStates
<1>2. \A op, step : Chat!At(x, op, step)' <=> Chat!At(x, op, step)
  BY DEF Chat!At
<1>3. FileFollowed(x)'
  <2>1. Chat!At(x, "file", "members") =>
          teamCall[x].chat \in Chats /\ teamCall[x].before \subseteq members'[teamCall[x].chat]
    BY <1>1 DEF CallFollowed, FileFollowed, ChatGrows
  <2>2. \A step \in {"invite", "post"} :
          Chat!At(x, "file", step) => teamCall[x].file = x /\ files'[x] = x
    BY <1>1 DEF CallFollowed, FileFollowed, ChatGrows
  <2>3. Chat!At(x, "file", "post") /\ teamCall[x].chat # Chat!Notes =>
          teamCall[x].before \ NoEmail \subseteq shared'[x]
    BY <1>1 DEF CallFollowed, FileFollowed, ChatGrows
  <2> QED BY <1>1, <1>2, <2>1, <2>2, <2>3 DEF CallFollowed, FileFollowed
<1>4. SyncFollowed(x)'
  BY <1>1, <1>2 DEF CallFollowed, SyncFollowed, ChatGrows
<1>5. IdleIsBlank(x)'
  BY <1>1 DEF CallFollowed, IdleIsBlank
<1> QED BY <1>3, <1>4, <1>5 DEF CallFollowed

LEMMA MessagesKept ==
  ASSUME Chat!TeamAssumption, ChatInv, NEW c, ChatGrows(c), NEW msg \in messages,
         c \in TeamCalls => teamCall[c].pc # "done",
         \A x \in TeamCalls \ {c} : teamCall'[x] = teamCall[x]
  PROVE  MessageKept(msg)'
<1>1. MessageKept(msg) /\ msg.call \in TeamCalls
  BY DEF ChatInv, Chat!TeamTypeOK, Chat!Messages
<1>2. msg.call # c
  BY <1>1 DEF MessageKept
<1> QED BY <1>1, <1>2 DEF MessageKept, ChatGrows

\* One call moves on.
LEMMA OneCallMoves ==
  ASSUME Chat!TeamAssumption, ChatInv, NEW c \in TeamCalls, NEW call \in Chat!CallStates, Chat!Set(c, call),
         ChatGrows(c), teamCall[c].pc # "done", call.pc # "idle",
         \A msg \in messages' \ messages : MessageKept(msg)',
         joined' \subseteq Chats, left' \subseteq Chats, joined' \cap left' = {},
         members' \in [Chats -> SUBSET People], files' \in [TeamCalls -> TeamCalls \cup {Chat!NoFile}],
         shared' \in [TeamCalls -> SUBSET People], messages' \subseteq Chat!Messages,
         chatRow' \in [Chats -> {"none", "active", "inactive"}],
         koreanName' \in [Chats -> {"none", "synced", "given"}],
         FileFollowed(c)', SyncFollowed(c)'
  PROVE  ChatInv'
<1>1. teamCall \in [TeamCalls -> Chat!CallStates]
  BY DEF ChatInv, Chat!TeamTypeOK
<1>2. /\ teamCall' \in [TeamCalls -> Chat!CallStates] /\ teamCall'[c] = call
      /\ \A x \in TeamCalls \ {c} : teamCall'[x] = teamCall[x]
  BY <1>1 DEF Chat!Set
<1>3. Chat!TeamTypeOK'
  BY <1>2 DEF Chat!TeamTypeOK
<1>4. \A msg \in messages' : MessageKept(msg)'
  BY <1>2, MessagesKept
<1>5. IdleIsBlank(c)'
  BY <1>2 DEF IdleIsBlank
<1>6. CallFollowed(c)'
  BY <1>5 DEF CallFollowed
<1>7. \A x \in TeamCalls : CallFollowed(x)'
  BY <1>2, <1>6, OthersFollowed
<1> QED BY <1>3, <1>4, <1>7 DEF ChatInv

\* A call that ends without a message.
LEMMA CallEnds ==
  ASSUME Chat!TeamAssumption, ChatInv, NEW c \in TeamCalls, NEW a \in Chat!Answers,
         Chat!Answer(c, a) \/ Chat!Set(c, [teamCall[c] EXCEPT !.pc = "done", !.answer = a]),
         ChatGrows(c), teamCall[c].pc # "done", messages' = messages,
         joined' \subseteq Chats, left' \subseteq Chats, joined' \cap left' = {},
         members' \in [Chats -> SUBSET People], files' \in [TeamCalls -> TeamCalls \cup {Chat!NoFile}],
         shared' \in [TeamCalls -> SUBSET People],
         chatRow' \in [Chats -> {"none", "active", "inactive"}],
         koreanName' \in [Chats -> {"none", "synced", "given"}]
  PROVE  ChatInv'
<1>1. teamCall \in [TeamCalls -> Chat!CallStates] /\ teamCall[c] \in Chat!CallStates /\ messages \subseteq Chat!Messages
  BY DEF ChatInv, Chat!TeamTypeOK
<1>2. PICK call \in {[teamCall[c] EXCEPT !.pc = "done", !.answer = a, !.seen = {}],
                     [teamCall[c] EXCEPT !.pc = "done", !.answer = a]} : Chat!Set(c, call)
  BY DEF Chat!Answer
<1>3. call \in Chat!CallStates /\ call.pc = "done"
  <2>1. call \in Chat!CallStates
    <3>1. /\ [teamCall[c] EXCEPT !.pc = "done", !.answer = a, !.seen = {}] \in Chat!CallStates
          /\ [teamCall[c] EXCEPT !.pc = "done", !.answer = a] \in Chat!CallStates
      BY <1>1, ChatCalls
    <3> QED BY <1>2, <3>1
  <2>2. call.pc = "done"
    BY <1>1, <1>2 DEF Chat!CallStates
  <2> QED BY <2>1, <2>2
<1>4. teamCall'[c] = call
  BY <1>1, <1>2 DEF Chat!Set
<1>5. FileFollowed(c)' /\ SyncFollowed(c)'
  BY <1>3, <1>4 DEF FileFollowed, SyncFollowed, Chat!At
<1> QED BY <1>1, <1>2, <1>3, <1>5, OneCallMoves

\* What a step leaves alone keeps its type and what other calls know of it.
GraphTyped ==
  /\ joined \subseteq Chats /\ left \subseteq Chats /\ joined \cap left = {}
  /\ members \in [Chats -> SUBSET People]
  /\ files \in [TeamCalls -> TeamCalls \cup {Chat!NoFile}]
  /\ shared \in [TeamCalls -> SUBSET People]
  /\ messages \subseteq Chat!Messages
StoreTyped ==
  /\ chatRow \in [Chats -> {"none", "active", "inactive"}]
  /\ koreanName \in [Chats -> {"none", "synced", "given"}]

LEMMA ChatParts == ASSUME ChatInv PROVE GraphTyped /\ StoreTyped /\ teamCall \in [TeamCalls -> Chat!CallStates]
BY DEF ChatInv, Chat!TeamTypeOK, GraphTyped, StoreTyped

LEMMA GraphKept ==
  ASSUME ChatInv, UNCHANGED Chat!graphVars
  PROVE  GraphTyped' /\ (\A c : ChatGrows(c)) /\ messages' = messages
BY ChatParts DEF Chat!graphVars, GraphTyped, ChatGrows

LEMMA StoreKept == ASSUME ChatInv, UNCHANGED Chat!storeVars PROVE StoreTyped'
BY ChatParts DEF Chat!storeVars, StoreTyped

LEMMA GraphCallMoves ==
  ASSUME Chat!TeamAssumption, ChatInv, NEW c \in TeamCalls, NEW call \in Chat!CallStates, Chat!Set(c, call),
         UNCHANGED Chat!graphVars, UNCHANGED Chat!storeVars, teamCall[c].pc # "done", call.pc # "idle",
         FileFollowed(c)', SyncFollowed(c)'
  PROVE  ChatInv'
<1>1. GraphTyped' /\ ChatGrows(c) /\ messages' = messages /\ StoreTyped'
  BY GraphKept, StoreKept
<1> QED BY <1>1, OneCallMoves DEF GraphTyped, StoreTyped

LEMMA GraphCallEnds ==
  ASSUME Chat!TeamAssumption, ChatInv, NEW c \in TeamCalls, NEW a \in Chat!Answers, Chat!Answer(c, a),
         UNCHANGED Chat!graphVars, StoreTyped', teamCall[c].pc # "done"
  PROVE  ChatInv'
<1>1. GraphTyped' /\ ChatGrows(c) /\ messages' = messages
  BY GraphKept
<1> QED BY <1>1, CallEnds DEF GraphTyped, StoreTyped

LEMMA OthersActStep == ASSUME Chat!TeamAssumption, ChatInv, Chat!OthersAct PROVE ChatInv'
<1>1. /\ files' = files /\ shared' = shared /\ messages' = messages /\ teamCall' = teamCall
      /\ chatRow' = chatRow /\ koreanName' = koreanName
  BY DEF Chat!OthersAct, Chat!storeVars
<1>2. GraphTyped /\ StoreTyped
  BY ChatParts
<1>3. /\ joined' \subseteq Chats /\ left' \subseteq Chats /\ joined' \cap left' = {}
      /\ joined \cup left \subseteq joined' \cup left' /\ left \subseteq left'
      /\ members' \in [Chats -> SUBSET People]
      /\ \A ch \in Chats : members[ch] \subseteq members'[ch]
  <2>1. PICK ch \in Chats :
          \/ ch \notin joined \cup left /\ joined' = joined \cup {ch} /\ UNCHANGED <<left, members>>
          \/ ch \in joined /\ joined' = joined \ {ch} /\ left' = left \cup {ch} /\ UNCHANGED members
          \/ /\ \E p \in People \ members[ch] : members' = [members EXCEPT ![ch] = @ \cup {p}]
             /\ UNCHANGED <<joined, left>>
    BY DEF Chat!OthersAct
  <2>2. CASE ch \notin joined \cup left /\ joined' = joined \cup {ch} /\ UNCHANGED <<left, members>>
    BY <1>2, <2>2 DEF GraphTyped
  <2>3. CASE ch \in joined /\ joined' = joined \ {ch} /\ left' = left \cup {ch} /\ UNCHANGED members
    BY <1>2, <2>3 DEF GraphTyped
  <2>4. CASE /\ \E p \in People \ members[ch] : members' = [members EXCEPT ![ch] = @ \cup {p}]
             /\ UNCHANGED <<joined, left>>
    BY <1>2, <2>4 DEF GraphTyped
  <2> QED BY <2>1, <2>2, <2>3, <2>4
<1> DEFINE nobody == CHOOSE x : x \notin TeamCalls
<1>4. nobody \notin TeamCalls
  BY NoSetContainsEverything
<1>5. ChatGrows(nobody)
  BY <1>1, <1>3 DEF ChatGrows
<1> HIDE DEF nobody
<1>6. \A c \in TeamCalls : CallFollowed(c)'
  BY <1>1, <1>4, <1>5, OthersFollowed
<1>7. \A msg \in messages : MessageKept(msg)'
  BY <1>1, <1>4, <1>5, MessagesKept
<1>8. Chat!TeamTypeOK'
  BY <1>1, <1>2, <1>3, ChatParts DEF Chat!TeamTypeOK, GraphTyped, StoreTyped
<1> QED BY <1>1, <1>6, <1>7, <1>8 DEF ChatInv

-----------------------------------------------------------------------------
(* Syncs and names.                                                                  *)

LEMMA SyncBegins == ASSUME Chat!TeamAssumption, ChatInv, NEW c \in TeamCalls, Chat!BeginSync(c) PROVE ChatInv'
<1> DEFINE call == [teamCall[c] EXCEPT !.op = "sync", !.pc = "asking", !.before = joined]
<1>1. teamCall[c] \in Chat!CallStates /\ teamCall \in [TeamCalls -> Chat!CallStates] /\ joined \in SUBSET Chats
  BY ChatParts DEF GraphTyped
<1>2. call \in Chat!CallStates
  BY <1>1, ChatCalls
<1>3. call.op = "sync" /\ call.pc = "asking" /\ call.before = joined
  BY <1>1 DEF Chat!CallStates
<1>4. Chat!Set(c, call) /\ UNCHANGED Chat!graphVars /\ UNCHANGED Chat!storeVars /\ teamCall[c].pc = "idle"
  BY DEF Chat!BeginSync
<1> HIDE DEF call
<1>5. teamCall'[c] = call /\ joined' = joined
  BY <1>1, <1>4 DEF Chat!Set, Chat!graphVars
<1>6. FileFollowed(c)' /\ SyncFollowed(c)'
  BY <1>3, <1>5 DEF FileFollowed, SyncFollowed, Chat!At
<1> QED BY <1>2, <1>3, <1>4, <1>6, GraphCallMoves

LEMMA ChatsListed == ASSUME Chat!TeamAssumption, ChatInv, NEW c \in TeamCalls, Chat!ListChats(c) PROVE ChatInv'
<1>1. /\ teamCall[c] \in Chat!CallStates /\ teamCall \in [TeamCalls -> Chat!CallStates] /\ joined \in SUBSET Chats
      /\ SyncFollowed(c)
  BY ChatParts DEF GraphTyped, ChatInv, CallFollowed
<1>2. /\ UNCHANGED Chat!graphVars /\ UNCHANGED Chat!storeVars
      /\ teamCall[c].op = "sync" /\ teamCall[c].pc = "asking"
  BY DEF Chat!ListChats, Chat!At
<1>3. ASSUME NEW seen \in SUBSET joined,
             Chat!Set(c, [teamCall[c] EXCEPT !.pc = "listed", !.seen = seen, !.more = (seen # joined)])
      PROVE  ChatInv'
  <2> DEFINE call == [teamCall[c] EXCEPT !.pc = "listed", !.seen = seen, !.more = (seen # joined)]
  <2>1. seen \in SUBSET Chats /\ (seen # joined) \in BOOLEAN
    BY <1>1
  <2>2. call \in Chat!CallStates
    BY <1>1, <2>1, ChatCalls
  <2>3. /\ call.op = "sync" /\ call.pc = "listed" /\ call.seen = seen
        /\ call.more = (seen # joined) /\ call.before = teamCall[c].before
    BY <1>1, <1>2 DEF Chat!CallStates
  <2> HIDE DEF call
  <2>4. teamCall'[c] = call /\ joined' = joined /\ left' = left
    BY <1>1, <1>2, <1>3 DEF Chat!Set, Chat!graphVars, call
  <2>5. teamCall[c].before \subseteq joined \cup left
    BY <1>1, <1>2 DEF SyncFollowed, Chat!At
  <2>6. FileFollowed(c)' /\ SyncFollowed(c)'
    BY <2>3, <2>4, <2>5 DEF FileFollowed, SyncFollowed, Chat!At
  <2>7. Chat!Set(c, call)
    BY <1>3 DEF call
  <2> QED BY <1>2, <2>2, <2>3, <2>6, <2>7, GraphCallMoves
<1>4. ASSUME Chat!Answer(c, "failed") PROVE ChatInv'
  <2>1. "failed" \in Chat!Answers /\ StoreTyped' /\ teamCall[c].pc # "done"
    BY <1>2, StoreKept DEF Chat!Answers
  <2> QED BY <1>2, <1>4, <2>1, GraphCallEnds
<1> QED BY <1>3, <1>4 DEF Chat!ListChats

\* What is put away was not in the answer of a sync that showed everything.
LEMMA ChatsStored ==
  ASSUME Chat!TeamAssumption, ChatInv, NEW c \in TeamCalls, Chat!StoreChats(c)
  PROVE  ChatInv' /\ Chat!SparesTheJoined /\ Chat!GivenNamesStay
<1>1. /\ StoreTyped /\ GraphTyped /\ SyncFollowed(c)
  BY ChatParts DEF ChatInv, CallFollowed
<1>2. /\ UNCHANGED Chat!graphVars /\ teamCall[c].pc = "listed" /\ Chat!At(c, "sync", "listed")
  BY DEF Chat!StoreChats, Chat!At
<1>3. /\ StoreTyped'
      /\ \A ch \in Chats : /\ koreanName[ch] = "given" => koreanName'[ch] = "given"
                           /\ chatRow[ch] = "active" /\ chatRow'[ch] = "inactive" =>
                                ~teamCall[c].more /\ ch \notin teamCall[c].seen
      /\ \E a \in Chat!Answers : Chat!Answer(c, a)
  <2>1. CASE /\ chatRow' = [ch \in Chats |-> IF ch \in teamCall[c].seen THEN "active"
                                             ELSE IF ch \in Chat!Missing(c) THEN "inactive" ELSE chatRow[ch]]
             /\ koreanName' = [ch \in Chats |-> IF ch \in teamCall[c].seen THEN Chat!NameAfterSync(ch)
                                                ELSE koreanName[ch]]
             /\ Chat!Answer(c, "ok")
    <3>1. \A ch \in Chats : /\ Chat!NameAfterSync(ch) \in {"none", "synced", "given"}
                            /\ koreanName[ch] = "given" => Chat!NameAfterSync(ch) = "given"
      BY <1>1 DEF Chat!NameAfterSync, StoreTyped
    <3>2. StoreTyped'
      BY <1>1, <2>1, <3>1 DEF StoreTyped
    <3>3. \A ch \in Chats : chatRow[ch] = "active" /\ chatRow'[ch] = "inactive" =>
                              ~teamCall[c].more /\ ch \notin teamCall[c].seen
      BY <2>1 DEF Chat!Missing
    <3> QED BY <2>1, <3>1, <3>2, <3>3 DEF Chat!Answers
  <2>2. CASE Chat!Answer(c, "failed") /\ UNCHANGED Chat!storeVars
    BY <1>1, <2>2, StoreKept DEF Chat!storeVars, Chat!Answers
  <2> QED BY <2>1, <2>2 DEF Chat!StoreChats
<1>4. ChatInv'
  BY <1>2, <1>3, GraphCallEnds
<1>5. Chat!GivenNamesStay
  BY <1>3 DEF Chat!GivenNamesStay
<1>6. ASSUME NEW ch \in Chats, chatRow[ch] = "active", chatRow'[ch] = "inactive", ch \in joined
      PROVE  ch \notin teamCall[c].before
  BY <1>1, <1>2, <1>3, <1>6 DEF SyncFollowed, GraphTyped
<1>7. Chat!SparesTheJoined
  BY <1>2, <1>6 DEF Chat!SparesTheJoined
<1> QED BY <1>4, <1>5, <1>7

LEMMA NamesGiven ==
  ASSUME Chat!TeamAssumption, ChatInv, NEW c \in TeamCalls, Chat!SaveName(c) \/ Chat!SaveNames(c)
  PROVE  ChatInv' /\ Chat!GivenNamesStay /\ chatRow' = chatRow
<1>1. StoreTyped
  BY ChatParts
<1>2. UNCHANGED Chat!graphVars /\ teamCall[c].pc # "done" /\ chatRow' = chatRow
  BY DEF Chat!SaveName, Chat!SaveNames
<1>3. /\ koreanName' \in [Chats -> {"none", "synced", "given"}]
      /\ \A ch \in Chats : koreanName[ch] = "given" => koreanName'[ch] = "given"
      /\ \E a \in Chat!Answers : Chat!Answer(c, a)
  <2>1. CASE Chat!SaveName(c)
    <3>1. PICK ch \in Chats :
            IF chatRow[ch] = "none" THEN Chat!Answer(c, "not_synced") /\ UNCHANGED koreanName
            ELSE koreanName' = [koreanName EXCEPT ![ch] = "given"] /\ Chat!Answer(c, "ok")
      BY <2>1 DEF Chat!SaveName
    <3> QED BY <1>1, <3>1 DEF StoreTyped, Chat!Answers
  <2>2. CASE Chat!SaveNames(c)
    <3>1. PICK matched \in SUBSET {ch \in Chats : chatRow[ch] = "active"} :
            /\ koreanName' = [ch \in Chats |-> IF ch \in matched THEN "given" ELSE koreanName[ch]]
            /\ Chat!Answer(c, IF matched = {} THEN "not_found" ELSE "ok")
      BY <2>2 DEF Chat!SaveNames
    <3>2. (IF matched = {} THEN "not_found" ELSE "ok") \in Chat!Answers
      BY DEF Chat!Answers
    <3>3. \E a \in Chat!Answers : Chat!Answer(c, a)
      BY <3>1, <3>2
    <3> QED BY <1>1, <3>1, <3>3 DEF StoreTyped
  <2> QED BY <2>1, <2>2
<1>4. StoreTyped'
  BY <1>1, <1>2, <1>3 DEF StoreTyped
<1>5. ChatInv'
  BY <1>2, <1>3, <1>4, GraphCallEnds
<1> QED BY <1>2, <1>3, <1>5 DEF Chat!GivenNamesStay

-----------------------------------------------------------------------------
(* Messages and files.                                                               *)

LEMMA PostIs ==
  ASSUME NEW c, NEW chat, NEW file, Chat!Post(c, chat, file)
  PROVE  \E a \in {"ok", "maybe_sent"} :
           /\ Chat!Answer(c, a)
           /\ messages' \in {messages, messages \cup {[call |-> c, chat |-> chat, file |-> file]}}
BY DEF Chat!Post

\* A message that is posted is kept.
LEMMA Posts ==
  ASSUME Chat!TeamAssumption, ChatInv, NEW c \in TeamCalls, NEW chat \in Chats \cup {Chat!Notes},
         NEW file \in TeamCalls \cup {Chat!NoFile}, Chat!Post(c, chat, file), teamCall[c].pc # "done",
         UNCHANGED <<joined, left, members, files, shared>>, UNCHANGED Chat!storeVars,
         file # Chat!NoFile =>
           /\ file = c /\ files[c] = c
           /\ chat # Chat!Notes => teamCall[c].before \ NoEmail \subseteq shared[c]
  PROVE  ChatInv'
<1>1. PICK a \in {"ok", "maybe_sent"} :
        /\ Chat!Answer(c, a)
        /\ messages' \in {messages, messages \cup {[call |-> c, chat |-> chat, file |-> file]}}
  BY PostIs
<1> DEFINE call == [teamCall[c] EXCEPT !.pc = "done", !.answer = a, !.seen = {}]
<1>2. teamCall[c] \in Chat!CallStates /\ teamCall \in [TeamCalls -> Chat!CallStates] /\ GraphTyped /\ StoreTyped
  BY ChatParts
<1>3. call \in Chat!CallStates
  <2>1. a \in Chat!Answers
    BY DEF Chat!Answers
  <2> QED BY <1>2, <2>1, ChatCalls
<1>4. call.pc = "done" /\ call.answer = a /\ call.before = teamCall[c].before
  BY <1>2 DEF Chat!CallStates
<1>5. Chat!Set(c, call)
  BY <1>1 DEF Chat!Answer
<1> HIDE DEF call
<1>6. teamCall'[c] = call
  BY <1>2, <1>5 DEF Chat!Set
<1> DEFINE msg == [call |-> c, chat |-> chat, file |-> file]
<1>7. msg \in Chat!Messages
  BY DEF Chat!Messages
<1>8. MessageKept(msg)'
  BY <1>4, <1>6 DEF MessageKept
<1>9. \A m \in messages' \ messages : m = msg
  BY <1>1
<1>10. FileFollowed(c)' /\ SyncFollowed(c)'
  BY <1>4, <1>6 DEF FileFollowed, SyncFollowed, Chat!At
<1>11. messages' \subseteq Chat!Messages
  BY <1>1, <1>2, <1>7 DEF GraphTyped
<1> HIDE DEF msg
<1>12. ChatGrows(c) /\ StoreTyped'
  BY StoreKept DEF ChatGrows
<1>13. \A m \in messages' \ messages : MessageKept(m)'
  BY <1>8, <1>9
<1> QED BY <1>2, <1>3, <1>4, <1>5, <1>10, <1>11, <1>12, <1>13, OneCallMoves DEF GraphTyped, StoreTyped

LEMMA MessageSent == ASSUME Chat!TeamAssumption, ChatInv, NEW c \in TeamCalls, Chat!SendMessage(c) PROVE ChatInv'
<1>1. PICK chat \in joined \cup {Chat!Notes} : Chat!Post(c, chat, Chat!NoFile)
  BY DEF Chat!SendMessage
<1>2. chat \in Chats \cup {Chat!Notes}
  BY ChatParts DEF GraphTyped
<1>3. /\ UNCHANGED <<joined, left, members, files, shared>> /\ UNCHANGED Chat!storeVars
      /\ teamCall[c].pc # "done"
  BY DEF Chat!SendMessage
<1> QED BY <1>1, <1>2, <1>3, Posts

LEMMA FilePosted == ASSUME Chat!TeamAssumption, ChatInv, NEW c \in TeamCalls, Chat!PostFile(c) PROVE ChatInv'
<1>1. /\ teamCall[c].chat \in Chats \cup {Chat!Notes} /\ teamCall[c].file \in TeamCalls \cup {Chat!NoFile}
      /\ FileFollowed(c)
  BY ChatParts DEF Chat!CallStates, ChatInv, CallFollowed
<1>2. Chat!At(c, "file", "post") /\ teamCall[c].pc # "done"
  BY DEF Chat!PostFile, Chat!At
<1>3. /\ teamCall[c].file = c /\ files[c] = c
      /\ teamCall[c].chat # Chat!Notes => teamCall[c].before \ NoEmail \subseteq shared[c]
  BY <1>1, <1>2 DEF FileFollowed
<1>4. /\ UNCHANGED <<joined, left, members, files, shared>> /\ UNCHANGED Chat!storeVars
      /\ Chat!Post(c, teamCall[c].chat, teamCall[c].file)
  BY DEF Chat!PostFile
<1> QED BY <1>1, <1>2, <1>3, <1>4, Posts

LEMMA FileBegins == ASSUME Chat!TeamAssumption, ChatInv, NEW c \in TeamCalls, Chat!BeginSendFile(c) PROVE ChatInv'
<1>1. /\ teamCall[c] \in Chat!CallStates /\ teamCall \in [TeamCalls -> Chat!CallStates] /\ GraphTyped
      /\ teamCall[c] = Chat!IdleCall
  BY ChatParts DEF ChatInv, CallFollowed, IdleIsBlank, Chat!BeginSendFile
<1>2. UNCHANGED Chat!graphVars /\ UNCHANGED Chat!storeVars /\ teamCall[c].pc = "idle"
  BY DEF Chat!BeginSendFile
<1>a. members' = members
  BY <1>2 DEF Chat!graphVars
<1>3. ASSUME NEW ch \in joined,
             Chat!Set(c, [teamCall[c] EXCEPT !.op = "file", !.pc = "members", !.chat = ch,
                                             !.before = members[ch]])
      PROVE  ChatInv'
  <2> DEFINE call == [teamCall[c] EXCEPT !.op = "file", !.pc = "members", !.chat = ch,
                                         !.before = members[ch]]
  <2>1. ch \in Chats /\ members[ch] \in SUBSET People
    BY <1>1 DEF GraphTyped
  <2>2. call \in Chat!CallStates
    BY <1>1, <2>1, ChatCalls
  <2>3. call.op = "file" /\ call.pc = "members" /\ call.chat = ch /\ call.before = members[ch]
    BY <1>1 DEF Chat!CallStates
  <2>4. Chat!Set(c, call)
    BY <1>3
  <2> HIDE DEF call
  <2>5. teamCall'[c] = call
    BY <1>1, <2>4 DEF Chat!Set
  <2>6. FileFollowed(c)' /\ SyncFollowed(c)'
    BY <1>a, <2>1, <2>3, <2>5 DEF FileFollowed, SyncFollowed, Chat!At
  <2> QED BY <1>2, <2>2, <2>3, <2>4, <2>6, GraphCallMoves
<1>4. ASSUME NEW ch \in Chats, NEW p \in People \ NoEmail,
             Chat!Set(c, [teamCall[c] EXCEPT !.op = "file", !.pc = "one_on_one", !.chat = ch,
                                             !.readers = {p}, !.before = {p}])
      PROVE  ChatInv'
  <2> DEFINE call == [teamCall[c] EXCEPT !.op = "file", !.pc = "one_on_one", !.chat = ch,
                                         !.readers = {p}, !.before = {p}]
  <2>1. {p} \in SUBSET People
    OBVIOUS
  <2>2. call \in Chat!CallStates
    BY <1>1, <2>1, ChatCalls
  <2>3. call.op = "file" /\ call.pc = "one_on_one" /\ call.chat = ch /\ call.before = call.readers
    BY <1>1 DEF Chat!CallStates
  <2>4. Chat!Set(c, call)
    BY <1>4
  <2> HIDE DEF call
  <2>5. teamCall'[c] = call
    BY <1>1, <2>4 DEF Chat!Set
  <2>6. FileFollowed(c)' /\ SyncFollowed(c)'
    BY <2>3, <2>5 DEF FileFollowed, SyncFollowed, Chat!At
  <2> QED BY <1>2, <2>2, <2>3, <2>4, <2>6, GraphCallMoves
<1>5. ASSUME Chat!Set(c, [teamCall[c] EXCEPT !.op = "file", !.pc = "upload"]) PROVE ChatInv'
  <2> DEFINE call == [teamCall[c] EXCEPT !.op = "file", !.pc = "upload"]
  <2>2. call \in Chat!CallStates
    BY <1>1, ChatCalls
  <2>3. call.op = "file" /\ call.pc = "upload" /\ call.chat = Chat!Notes
    BY <1>1 DEF Chat!IdleCall
  <2>4. Chat!Set(c, call)
    BY <1>5
  <2> HIDE DEF call
  <2>5. teamCall'[c] = call
    BY <1>1, <2>4 DEF Chat!Set
  <2>6. FileFollowed(c)' /\ SyncFollowed(c)'
    BY <2>3, <2>5 DEF FileFollowed, SyncFollowed, Chat!At
  <2> QED BY <1>2, <2>2, <2>3, <2>4, <2>6, GraphCallMoves
<1>6. ASSUME Chat!Answer(c, "not_sent") PROVE ChatInv'
  <2>1. "not_sent" \in Chat!Answers /\ StoreTyped' /\ teamCall[c].pc # "done"
    BY <1>2, StoreKept DEF Chat!Answers
  <2> QED BY <1>2, <1>6, <2>1, GraphCallEnds
<1> QED BY <1>3, <1>4, <1>5, <1>6 DEF Chat!BeginSendFile

LEMMA MembersRead == ASSUME Chat!TeamAssumption, ChatInv, NEW c \in TeamCalls, Chat!ReadMembers(c) PROVE ChatInv'
<1>1. /\ teamCall[c] \in Chat!CallStates /\ teamCall \in [TeamCalls -> Chat!CallStates] /\ GraphTyped /\ FileFollowed(c)
  BY ChatParts DEF ChatInv, CallFollowed
<1>2. /\ UNCHANGED Chat!graphVars /\ UNCHANGED Chat!storeVars /\ Chat!At(c, "file", "members")
      /\ teamCall[c].op = "file" /\ teamCall[c].pc = "members"
  BY DEF Chat!ReadMembers, Chat!At
<1> DEFINE readers == members[teamCall[c].chat] \ NoEmail
<1>3. teamCall[c].chat \in Chats /\ teamCall[c].before \subseteq members[teamCall[c].chat]
  BY <1>1, <1>2 DEF FileFollowed
<1>4. ASSUME Chat!Set(c, [teamCall[c] EXCEPT !.pc = "upload", !.readers = readers]) PROVE ChatInv'
  <2> DEFINE call == [teamCall[c] EXCEPT !.pc = "upload", !.readers = readers]
  <2>1. readers \in SUBSET People
    BY <1>1, <1>3 DEF GraphTyped
  <2>2. call \in Chat!CallStates
    <3> HIDE DEF readers
    <3> QED BY <1>1, <2>1, ChatCalls
  <2>3. /\ call.op = "file" /\ call.pc = "upload" /\ call.readers = readers
        /\ call.before = teamCall[c].before
    BY <1>1, <1>2 DEF Chat!CallStates
  <2>4. Chat!Set(c, call)
    BY <1>4
  <2>a. call.before \ NoEmail \subseteq call.readers
    BY <1>3, <2>3
  <2> HIDE DEF call, readers
  <2>5. teamCall'[c] = call
    BY <1>1, <2>4 DEF Chat!Set
  <2>6. FileFollowed(c)' /\ SyncFollowed(c)'
    BY <2>3, <2>a, <2>5 DEF FileFollowed, SyncFollowed, Chat!At
  <2> QED BY <1>2, <2>2, <2>3, <2>4, <2>6, GraphCallMoves
<1>5. ASSUME Chat!Answer(c, "not_sent") PROVE ChatInv'
  <2>1. "not_sent" \in Chat!Answers /\ StoreTyped' /\ teamCall[c].pc # "done"
    BY <1>2, StoreKept DEF Chat!Answers
  <2> QED BY <1>2, <1>5, <2>1, GraphCallEnds
<1> QED BY <1>4, <1>5 DEF Chat!ReadMembers

LEMMA ChatOpened == ASSUME Chat!TeamAssumption, ChatInv, NEW c \in TeamCalls, Chat!OpenOneOnOne(c) PROVE ChatInv'
<1>1. /\ teamCall[c] \in Chat!CallStates /\ teamCall \in [TeamCalls -> Chat!CallStates] /\ GraphTyped /\ FileFollowed(c)
      /\ StoreTyped
  BY ChatParts DEF ChatInv, CallFollowed
<1>2. /\ Chat!At(c, "file", "one_on_one") /\ teamCall[c].op = "file" /\ teamCall[c].pc = "one_on_one"
      /\ left' = left /\ members' = members /\ files' = files /\ shared' = shared /\ messages' = messages
      /\ StoreTyped'
  BY StoreKept DEF Chat!OpenOneOnOne, Chat!At
<1>3. /\ teamCall[c].chat \in Chats
      /\ teamCall[c].chat # Chat!Notes => teamCall[c].before \ NoEmail \subseteq teamCall[c].readers
  BY <1>1, <1>2 DEF FileFollowed
<1>4. ASSUME teamCall[c].chat \notin left, joined' = joined \cup {teamCall[c].chat},
             Chat!Set(c, [teamCall[c] EXCEPT !.pc = "upload"])
      PROVE  ChatInv'
  <2> DEFINE call == [teamCall[c] EXCEPT !.pc = "upload"]
  <2>1. ChatGrows(c) /\ GraphTyped'
    BY <1>1, <1>2, <1>3, <1>4 DEF ChatGrows, GraphTyped
  <2>2. call \in Chat!CallStates
    BY <1>1, ChatCalls
  <2>3. /\ call.op = "file" /\ call.pc = "upload" /\ call.readers = teamCall[c].readers
        /\ call.before = teamCall[c].before /\ call.chat = teamCall[c].chat
    BY <1>1, <1>2 DEF Chat!CallStates
  <2>4. Chat!Set(c, call)
    BY <1>4
  <2> HIDE DEF call
  <2>5. teamCall'[c] = call
    BY <1>1, <2>4 DEF Chat!Set
  <2>6. FileFollowed(c)' /\ SyncFollowed(c)'
    BY <1>3, <2>3, <2>5 DEF FileFollowed, SyncFollowed, Chat!At
  <2> QED BY <1>2, <2>1, <2>2, <2>3, <2>4, <2>6, OneCallMoves DEF GraphTyped, StoreTyped
<1>5. ASSUME Chat!Answer(c, "not_sent"), joined' = joined PROVE ChatInv'
  <2>1. /\ "not_sent" \in Chat!Answers /\ teamCall[c].pc # "done" /\ UNCHANGED Chat!graphVars
    BY <1>2, <1>5 DEF Chat!Answers, Chat!graphVars
  <2> QED BY <1>2, <1>5, <2>1, GraphCallEnds
<1> QED BY <1>4, <1>5 DEF Chat!OpenOneOnOne

LEMMA FileUploaded == ASSUME Chat!TeamAssumption, ChatInv, NEW c \in TeamCalls, Chat!Upload(c) PROVE ChatInv'
<1>1. /\ teamCall[c] \in Chat!CallStates /\ teamCall \in [TeamCalls -> Chat!CallStates] /\ GraphTyped /\ FileFollowed(c)
  BY ChatParts DEF ChatInv, CallFollowed
<1>2. /\ Chat!At(c, "file", "upload") /\ teamCall[c].op = "file" /\ teamCall[c].pc = "upload"
      /\ joined' = joined /\ left' = left /\ members' = members /\ shared' = shared /\ messages' = messages
      /\ StoreTyped' /\ "not_sent" \in Chat!Answers
  BY StoreKept DEF Chat!Upload, Chat!At, Chat!Answers
<1>3. teamCall[c].chat # Chat!Notes => teamCall[c].before \ NoEmail \subseteq teamCall[c].readers
  BY <1>1, <1>2 DEF FileFollowed
<1>4. CASE files' = [files EXCEPT ![c] = c]
  <2>1. ChatGrows(c) /\ GraphTyped' /\ files'[c] = c
    BY <1>1, <1>2, <1>4 DEF ChatGrows, GraphTyped
  <2>2. ASSUME NEW step \in {"post", "invite"}, step = "post" => teamCall[c].readers = {},
               Chat!Set(c, [teamCall[c] EXCEPT !.file = c, !.pc = step])
        PROVE  ChatInv'
    <3> DEFINE call == [teamCall[c] EXCEPT !.file = c, !.pc = step]
    <3>1. call \in Chat!CallStates
      BY <1>1, ChatCalls
    <3>2. /\ call.op = "file" /\ call.pc = step /\ call.file = c /\ call.readers = teamCall[c].readers
          /\ call.before = teamCall[c].before /\ call.chat = teamCall[c].chat
      BY <1>1, <1>2 DEF Chat!CallStates
    <3>3. Chat!Set(c, call)
      BY <2>2
    <3> HIDE DEF call
    <3>4. teamCall'[c] = call
      BY <1>1, <3>3 DEF Chat!Set
    <3>5. /\ call.chat # Chat!Notes => call.before \ NoEmail \subseteq call.readers
          /\ step = "post" /\ call.chat # Chat!Notes => call.before \ NoEmail \subseteq shared'[c]
      BY <1>3, <2>2, <3>2
    <3>6. FileFollowed(c)' /\ SyncFollowed(c)'
      BY <2>1, <3>2, <3>4, <3>5 DEF FileFollowed, SyncFollowed, Chat!At
    <3>7. call.pc # "idle" /\ teamCall[c].pc # "done"
      BY <1>2, <3>2
    <3> QED BY <1>2, <2>1, <3>1, <3>3, <3>6, <3>7, OneCallMoves DEF GraphTyped, StoreTyped
  <2>3. ASSUME Chat!Answer(c, "not_sent") PROVE ChatInv'
    <3>1. teamCall[c].pc # "done"
      BY <1>2
    <3> QED BY <1>2, <2>1, <2>3, <3>1, CallEnds DEF GraphTyped, StoreTyped
  <2>4. \/ Chat!Answer(c, "not_sent")
        \/ Chat!Set(c, [teamCall[c] EXCEPT !.file = c,
                          !.pc = IF teamCall[c].readers = {} THEN "post" ELSE "invite"])
    BY DEF Chat!Upload, Chat!Uploaded
  <2> QED BY <2>2, <2>3, <2>4
<1>5. CASE files' = files /\ Chat!Answer(c, "not_sent")
  <2>1. teamCall[c].pc # "done" /\ UNCHANGED Chat!graphVars
    BY <1>2, <1>5 DEF Chat!graphVars
  <2> QED BY <1>2, <1>5, <2>1, GraphCallEnds
<1> QED BY <1>4, <1>5 DEF Chat!Upload, Chat!Uploaded

LEMMA ReadersInvited == ASSUME Chat!TeamAssumption, ChatInv, NEW c \in TeamCalls, Chat!Invite(c) PROVE ChatInv'
<1>1. /\ teamCall[c] \in Chat!CallStates /\ teamCall \in [TeamCalls -> Chat!CallStates] /\ GraphTyped /\ FileFollowed(c)
  BY ChatParts DEF ChatInv, CallFollowed
<1>2. /\ Chat!At(c, "file", "invite") /\ teamCall[c].op = "file" /\ teamCall[c].pc = "invite"
      /\ joined' = joined /\ left' = left /\ members' = members /\ files' = files /\ messages' = messages
      /\ StoreTyped' /\ "not_sent" \in Chat!Answers
  BY StoreKept DEF Chat!Invite, Chat!At, Chat!Answers
<1>3. /\ teamCall[c].chat # Chat!Notes => teamCall[c].before \ NoEmail \subseteq teamCall[c].readers
      /\ teamCall[c].file = c /\ files[c] = c /\ teamCall[c].readers \subseteq People
  BY <1>1, <1>2 DEF FileFollowed, Chat!CallStates
<1>4. ASSUME shared' = [shared EXCEPT ![teamCall[c].file] = @ \cup teamCall[c].readers],
             Chat!Set(c, [teamCall[c] EXCEPT !.pc = "post"])
      PROVE  ChatInv'
  <2> DEFINE call == [teamCall[c] EXCEPT !.pc = "post"]
  <2>1. ChatGrows(c) /\ GraphTyped' /\ teamCall[c].readers \subseteq shared'[c]
    BY <1>1, <1>2, <1>3, <1>4 DEF ChatGrows, GraphTyped
  <2>2. call \in Chat!CallStates
    BY <1>1, ChatCalls
  <2>3. /\ call.op = "file" /\ call.pc = "post" /\ call.file = c /\ call.readers = teamCall[c].readers
        /\ call.before = teamCall[c].before /\ call.chat = teamCall[c].chat
    BY <1>1, <1>2, <1>3 DEF Chat!CallStates
  <2>4. Chat!Set(c, call)
    BY <1>4
  <2> HIDE DEF call
  <2>5. teamCall'[c] = call
    BY <1>1, <2>4 DEF Chat!Set
  <2>6. call.chat # Chat!Notes => /\ call.before \ NoEmail \subseteq call.readers
                                  /\ call.before \ NoEmail \subseteq shared'[c]
    BY <1>3, <2>1, <2>3
  <2>7. FileFollowed(c)' /\ SyncFollowed(c)'
    BY <1>2, <1>3, <2>3, <2>5, <2>6 DEF FileFollowed, SyncFollowed, Chat!At
  <2>8. call.pc # "idle" /\ teamCall[c].pc # "done"
    BY <1>2, <2>3
  <2> QED BY <1>2, <2>1, <2>2, <2>4, <2>7, <2>8, OneCallMoves DEF GraphTyped, StoreTyped
<1>5. ASSUME shared' = shared, Chat!Set(c, [teamCall[c] EXCEPT !.pc = "done", !.answer = "not_sent"])
      PROVE  ChatInv'
  <2>1. teamCall[c].pc # "done" /\ UNCHANGED Chat!graphVars
    BY <1>2, <1>5 DEF Chat!graphVars
  <2>2. ChatGrows(c) /\ GraphTyped'
    BY <2>1, GraphKept
  <2> QED BY <1>2, <1>5, <2>1, <2>2, CallEnds DEF GraphTyped, StoreTyped
<1>6. \/ /\ shared' = [shared EXCEPT ![teamCall[c].file] = @ \cup teamCall[c].readers]
         /\ Chat!Set(c, [teamCall[c] EXCEPT !.pc = "post"])
      \/ shared' = shared /\ Chat!Set(c, [teamCall[c] EXCEPT !.pc = "done", !.answer = "not_sent"])
  BY DEF Chat!Invite, Chat!InviteFailed
<1> QED BY <1>4, <1>5, <1>6

LEMMA ChatHolds ==
  ASSUME Chat!TeamAssumption, ChatInv, [Chat!TeamNext]_teamVars
  PROVE  ChatInv' /\ [Chat!SparesTheJoined]_vars /\ [Chat!GivenNamesStay]_vars
<1>a. ASSUME ChatInv', UNCHANGED chatRow, UNCHANGED koreanName
      PROVE  ChatInv' /\ Chat!SparesTheJoined /\ Chat!GivenNamesStay
  BY <1>a DEF Chat!SparesTheJoined, Chat!GivenNamesStay
<1>1. CASE Chat!OthersAct
  <2>1. UNCHANGED chatRow /\ UNCHANGED koreanName
    BY <1>1 DEF Chat!OthersAct, Chat!storeVars
  <2> QED BY <1>1, <1>a, <2>1, OthersActStep
<1>2. ASSUME NEW c \in TeamCalls, Chat!StoreChats(c) PROVE ChatInv' /\ Chat!SparesTheJoined /\ Chat!GivenNamesStay
  BY <1>2, ChatsStored
<1>3. ASSUME NEW c \in TeamCalls, Chat!SaveName(c) \/ Chat!SaveNames(c)
      PROVE  ChatInv' /\ Chat!SparesTheJoined /\ Chat!GivenNamesStay
  BY <1>3, NamesGiven DEF Chat!SparesTheJoined
<1>4. ASSUME NEW c \in TeamCalls,
             \/ Chat!BeginSync(c) \/ Chat!ListChats(c) \/ Chat!SendMessage(c) \/ Chat!BeginSendFile(c)
             \/ Chat!ReadMembers(c) \/ Chat!OpenOneOnOne(c) \/ Chat!Upload(c) \/ Chat!Invite(c)
             \/ Chat!PostFile(c)
      PROVE  ChatInv' /\ Chat!SparesTheJoined /\ Chat!GivenNamesStay
  <2>1. ChatInv'
    BY <1>4, SyncBegins, ChatsListed, MessageSent, FileBegins, MembersRead, ChatOpened, FileUploaded,
       ReadersInvited, FilePosted
  <2>2. UNCHANGED chatRow /\ UNCHANGED koreanName
    BY <1>4 DEF Chat!BeginSync, Chat!ListChats, Chat!SendMessage, Chat!BeginSendFile, Chat!ReadMembers,
       Chat!OpenOneOnOne, Chat!Upload, Chat!Invite, Chat!PostFile, Chat!storeVars
  <2> QED BY <1>a, <2>1, <2>2
<1>5. CASE UNCHANGED teamVars
  <2>1. /\ joined' = joined /\ left' = left /\ members' = members /\ files' = files /\ shared' = shared
        /\ messages' = messages /\ chatRow' = chatRow /\ koreanName' = koreanName /\ teamCall' = teamCall
    BY <1>5 DEF teamVars
  <2>2. ChatInv'
    BY <2>1 DEF ChatInv, Chat!TeamTypeOK, MessageKept, CallFollowed, FileFollowed, SyncFollowed,
       IdleIsBlank, Chat!At
  <2> QED BY <1>a, <2>1, <2>2
<1> QED BY <1>1, <1>2, <1>3, <1>4, <1>5 DEF Chat!TeamNext, Chat!TeamStep

LEMMA ChatHeld ==
  ASSUME ChatInv
  PROVE  Chat!TeamTypeOK /\ Chat!NotSentMeansNotSent /\ Chat!FilesStay /\ Chat!FilesReadable
<1>1. \A msg \in messages : MessageKept(msg) /\ msg.chat \in Chats \cup {Chat!Notes}
  BY DEF ChatInv, Chat!TeamTypeOK, Chat!Messages
<1>2. Chat!NotSentMeansNotSent /\ Chat!FilesStay /\ Chat!FilesReadable
  BY <1>1 DEF MessageKept, Chat!NotSentMeansNotSent, Chat!FilesStay, Chat!FilesReadable
<1> QED BY <1>2 DEF ChatInv

-----------------------------------------------------------------------------
\* The operators of the modules of sequences and sets, as this module has them.
LEMMA MailCounts ==
  /\ \A S : Mail!Cardinality(S) = Cardinality(S)
  /\ \A f : Mail!IsInjective(f) <=> \A i, j \in DOMAIN f : f[i] = f[j] => i = j
  /\ \A s : Mail!ToSet(s) = {s[i] : i \in DOMAIN s}
BY DEF Mail!Cardinality, Cardinality, Mail!IsInjective, Mail!ToSet

LEMMA LesserOfTwo ==
  ASSUME NEW a \in Int, NEW b \in Int
  PROVE  Mail!Min({a, b}) = IF a <= b THEN a ELSE b
BY DEF Mail!Min

LEMMA Quotients ==
  ASSUME NEW a \in Nat, NEW b \in Nat \ {0}
  PROVE  /\ a \div b \in Nat
         /\ (a \div b) * b \in Nat
         /\ (a \div b) * b <= a /\ a < (a \div b) * b + b
OBVIOUS

\* Multiples grow.
LEMMA Multiples ==
  ASSUME NEW a \in Nat, NEW c \in Nat, NEW b \in Nat
  PROVE  /\ a * b \in Nat
         /\ a <= c => a * b <= c * b
         /\ (a + 1) * b = a * b + b
<1>1. a * b \in Nat /\ (a + 1) * b = a * b + b
  OBVIOUS
<1>2. ASSUME a <= c PROVE a * b <= c * b
  <2>1. PICK d \in Nat : c = a + d
    BY <1>2
  <2>2. c * b = a * b + d * b /\ d * b \in Nat
    BY <2>1
  <2> QED BY <1>1, <2>2
<1> QED BY <1>1, <1>2

-----------------------------------------------------------------------------
(* The mailbox: what is known of a call.                                             *)

\* The inbox b can come after the inbox a.
Later(a, b) ==
  \A m \in Mail!Mails : /\ a[m] = "inbox" => b[m] \in {"inbox", "away"}
                        /\ a[m] = "away" => b[m] = "away"

\* The first n of the ids.
FirstIds(ids, n) == {ids[i] : i \in {j \in DOMAIN ids : j <= n}}

\* Nothing was done for a call.
Untouched(c) == \A m : <<c, m>> \notin applied

\* The steps of a call belong to its tool.
StepsTold(c) ==
  LET call == mailCall[c] IN
  /\ call.pc = "idle" => call = Mail!IdleMail /\ Untouched(c)
  /\ call.asked # {} => call.pc = "paging"
  /\ call.pc \in {"paging", "attachments"} => call.op = "query"
  /\ call.pc = "posting" => call.op \in Mail!Writing
  /\ call.pc = "batch" => call.op \in Mail!Reading \cup Mail!Changing
  /\ call.op \in Mail!Writing => call.pc \in {"posting", "replied", "done"}
  /\ call.pc \in {"posting", "batch", "replied"} => call.status = "none"

\* A mail that was sent is one of a call that writes and does not say it refused.
WriteTold(c) ==
  LET call == mailCall[c] IN
  /\ c \in sent => /\ call.op \in Mail!Writing /\ call.pc \in {"replied", "done"}
                   /\ call.status # "refused"
  /\ call.op \in Mail!Writing /\ (call.reply = "answered" \/ call.status = "success") => c \in sent

\* The answer to a batch names each of its mails once, and as done only what was done.
ResponsesTold(c) ==
  \E works : /\ mailCall[c].responses = {[id |-> i, ok |-> i \in works] : i \in DOMAIN Mail!BatchIds(c)}
             /\ \A i \in DOMAIN Mail!BatchIds(c) : i \in works => <<c, Mail!BatchIds(c)[i]>> \in applied

\* A call of a batch tool that had no token.
Tokenless(c) ==
  LET call == mailCall[c] IN
  /\ call.pc = "done" /\ call.done = {} /\ call.failed = {} /\ call.status # "success"
  /\ Untouched(c)

\* The two lists of a batch tool are the mails of the batches that are over.
BatchTold(c) ==
  LET call == mailCall[c] IN
  call.op \in Mail!Reading \cup Mail!Changing =>
    /\ call.ids \in IdLists
    /\ \/ Tokenless(c)
       \/ /\ call.pc \in {"batch", "replied", "done"}
          /\ call.done \cup call.failed = FirstIds(call.ids, (call.next - 1) * BatchSize)
          /\ \A m \in call.done \cap call.failed : Mail!Repeated(call.ids, m)
          /\ call.op \in Mail!Changing => \A m \in call.done : <<c, m>> \in applied
          /\ call.pc = "replied" => /\ call.next <= Mail!Batches(c) /\ call.reply \in {"answered", "lost"}
                                    /\ call.reply = "answered" => ResponsesTold(c)
          /\ call.pc = "done" => /\ call.next > Mail!Batches(c)
                                 /\ call.op = "fetch" /\ call.status = "success" => call.failed = {}

\* A page of a query is no longer than it may be, and shows the inbox as long as the inbox
\* stays as it was.
PageTold(call, where, p) ==
  /\ Cardinality(call.pages[p].mails) <= PageSize
  /\ Cardinality(call.pages[p].mails) <= MailTop - (p - 1) * PageSize
  /\ p < call.next /\ p \notin call.asked /\ ~call.pages[p].failed /\ where = call.before =>
       call.pages[p].mails = Mail!Filtered(Mail!PageOf(where, p))

QueryTold(c) ==
  LET call == mailCall[c] IN
  call.op = "query" =>
    /\ call.pc \in {"paging", "attachments", "done"}
    /\ call.pc = "paging" =>
         /\ call.before \in Mail!Inboxes /\ Later(call.before, place)
         /\ \A p \in 1 .. Mail!NumPages : PageTold(call, place, p)
    /\ call.pc \in {"attachments", "done"} =>
         /\ Mail!IsInjective(call.shown) /\ Len(call.shown) <= MailTop
         /\ call.status = "success" =>
              /\ call.failed = {}
              /\ call.before # Mail!NoInbox =>
                   /\ Mail!ToSet(call.shown) = Mail!Filtered(Mail!Newest(call.before, MailTop))
                   /\ \A i, j \in DOMAIN call.shown : i < j => call.shown[i] > call.shown[j]

MailTold(c) == StepsTold(c) /\ WriteTold(c) /\ BatchTold(c) /\ QueryTold(c)
MailInv == Mail!MailTypeOK /\ \A c \in MailCalls : MailTold(c)

LEMMA MailConstants ==
  ASSUME Mail!MailboxAssumption
  PROVE  /\ MaxMail \in Nat /\ MailTop \in Nat \ {0} /\ PageSize \in Nat \ {0}
         /\ MaxConcurrent \in Nat \ {0} /\ BatchSize \in Nat \ {0}
         /\ \A ids \in IdLists : ids \in Seq(Mail!Mails) /\ ids # <<>>
         /\ Mail!NumPages \in Nat /\ IsFiniteSet(Mail!Mails)
<1>1. /\ MaxMail \in Nat /\ MailTop \in Nat \ {0} /\ PageSize \in Nat \ {0}
      /\ MaxConcurrent \in Nat \ {0} /\ BatchSize \in Nat \ {0}
      /\ \A ids \in IdLists : ids \in Seq(Mail!Mails) /\ ids # <<>>
  BY MailCounts DEF Mail!MailboxAssumption
<1>2. MailTop + PageSize - 1 \in Nat
  BY <1>1
<1>3. Mail!NumPages \in Nat
  BY <1>1, <1>2, Quotients DEF Mail!NumPages
<1>4. IsFiniteSet(Mail!Mails)
  BY <1>1, FS_Interval DEF Mail!Mails
<1> QED BY <1>1, <1>3, <1>4

LEMMA MailParts ==
  ASSUME MailInv
  PROVE  /\ place \in Mail!Inboxes /\ applied \subseteq MailCalls \X Mail!Mails /\ sent \subseteq MailCalls
         /\ mailCall \in [MailCalls -> Mail!CallStates]
         /\ \A c \in MailCalls : mailCall[c] \in Mail!CallStates /\ MailTold(c)
BY DEF MailInv, Mail!MailTypeOK

\* A call of its own is not touched by what others do.
LEMMA OtherMailTold ==
  ASSUME Mail!MailboxAssumption, MailInv, NEW x \in MailCalls, mailCall'[x] = mailCall[x],
         Later(place, place'), place' \in Mail!Inboxes, \A m : <<x, m>> \in applied' <=> <<x, m>> \in applied,
         x \in sent' <=> x \in sent
  PROVE  MailTold(x)'
<1>1. MailTold(x) /\ place \in Mail!Inboxes /\ mailCall[x] \in Mail!CallStates
  BY MailParts
<1>2. StepsTold(x)'
  BY <1>1 DEF MailTold, StepsTold, Untouched
<1>3. WriteTold(x)'
  BY <1>1 DEF MailTold, WriteTold
<1>4. BatchTold(x)'
  <2>1. Mail!BatchIds(x)' = Mail!BatchIds(x) /\ Mail!Batches(x)' = Mail!Batches(x)
    BY DEF Mail!BatchIds, Mail!Batches
  <2>2. ResponsesTold(x) => ResponsesTold(x)'
    BY <2>1 DEF ResponsesTold
  <2>3. Tokenless(x) => Tokenless(x)'
    BY DEF Tokenless, Untouched
  <2> QED BY <1>1, <2>1, <2>2, <2>3 DEF MailTold, BatchTold
<1>5. QueryTold(x)'
  <2> DEFINE call == mailCall[x]
  <2>1. QueryTold(x)
    BY <1>1 DEF MailTold
  <2>2. ASSUME call.op = "query", call.pc = "paging"
        PROVE  /\ Later(call.before, place')
               /\ \A p \in 1 .. Mail!NumPages : PageTold(call, place', p)
    <3>1. /\ call.before \in Mail!Inboxes /\ Later(call.before, place)
          /\ \A p \in 1 .. Mail!NumPages : PageTold(call, place, p)
      BY <2>1, <2>2 DEF QueryTold
    <3>2. Later(call.before, place')
      BY <3>1 DEF Later
    <3>3. place' = call.before => place = call.before
      <4>1. SUFFICES ASSUME place' = call.before PROVE place = call.before
        OBVIOUS
      <4>2. \A m \in Mail!Mails : place[m] = place'[m]
        BY <1>1, <3>1, <4>1 DEF Later, Mail!Inboxes
      <4> QED BY <1>1, <4>1, <4>2 DEF Mail!Inboxes
    <3>4. ASSUME NEW p \in 1 .. Mail!NumPages PROVE PageTold(call, place', p)
      BY <3>1, <3>3 DEF PageTold
    <3> QED BY <3>2, <3>4
  <2> QED BY <2>1, <2>2 DEF QueryTold
<1> QED BY <1>2, <1>3, <1>4, <1>5 DEF MailTold

\* One call moves on.
LEMMA MailMoves ==
  ASSUME Mail!MailboxAssumption, MailInv, NEW c \in MailCalls, NEW call \in Mail!CallStates, Mail!Put(c, call),
         Cardinality(call.asked) <= MaxConcurrent,
         place' \in Mail!Inboxes, Later(place, place'),
         applied' \subseteq MailCalls \X Mail!Mails,
         \A x \in MailCalls \ {c} : x \in sent' <=> x \in sent,
         \A x \in MailCalls \ {c} : \A m : <<x, m>> \in applied' <=> <<x, m>> \in applied,
         sent' \subseteq MailCalls,
         mailCall'[c] = call => MailTold(c)'
  PROVE  MailInv'
<1>1. /\ mailCall' \in [MailCalls -> Mail!CallStates] /\ mailCall'[c] = call
      /\ \A x \in MailCalls \ {c} : mailCall'[x] = mailCall[x]
  BY MailParts DEF Mail!Put
<1>2. \A x \in MailCalls : Mail!Cardinality(mailCall'[x].asked) <= MaxConcurrent
  BY <1>1, MailCounts DEF MailInv, Mail!MailTypeOK
<1>3. Mail!MailTypeOK'
  BY <1>1, <1>2 DEF Mail!MailTypeOK
<1>4. ASSUME NEW x \in MailCalls \ {c} PROVE MailTold(x)'
  <2>1. x \in MailCalls /\ mailCall'[x] = mailCall[x]
    BY <1>1
  <2>2. x \in sent' <=> x \in sent
    OBVIOUS
  <2>3. \A m : <<x, m>> \in applied' <=> <<x, m>> \in applied
    OBVIOUS
  <2> QED BY <2>1, <2>2, <2>3, OtherMailTold
<1>5. MailTold(c)'
  BY <1>1
<1> QED BY <1>3, <1>4, <1>5 DEF MailInv

LEMMA InboxStays == ASSUME NEW inbox PROVE Later(inbox, inbox)
BY DEF Later

\* ... while Graph stays as it is.
LEMMA MailMovesAlone ==
  ASSUME Mail!MailboxAssumption, MailInv, NEW c \in MailCalls, NEW call \in Mail!CallStates, Mail!Put(c, call),
         Cardinality(call.asked) <= MaxConcurrent,
         UNCHANGED <<place, applied, sent>>,
         mailCall'[c] = call => MailTold(c)'
  PROVE  MailInv'
BY MailParts, InboxStays, MailMoves

LEMMA OwnersMail == ASSUME Mail!MailboxAssumption, MailInv, Mail!OwnerActs PROVE MailInv'
<1>1. place \in Mail!Inboxes /\ applied' = applied /\ sent' = sent /\ mailCall' = mailCall
  BY MailParts DEF Mail!OwnerActs
<1>2. Later(place, place') /\ place' \in Mail!Inboxes
  <2>1. CASE \E m \in Mail!Mails : place[m] = "coming" /\ place' = [place EXCEPT ![m] = "inbox"]
    BY <1>1, <2>1 DEF Later, Mail!Inboxes
  <2>2. CASE \E m \in Mail!Present : place' = [place EXCEPT ![m] = "away"]
    BY <1>1, <2>2 DEF Later, Mail!Inboxes, Mail!Present, Mail!InboxOf
  <2> QED BY <2>1, <2>2 DEF Mail!OwnerActs
<1>3. \A x \in MailCalls : MailTold(x)'
  BY <1>1, <1>2, OtherMailTold
<1> QED BY <1>1, <1>2, <1>3 DEF MailInv, Mail!MailTypeOK

-----------------------------------------------------------------------------
(* Writing.                                                                          *)

LEMMA BlankMail ==
  ASSUME Mail!MailboxAssumption
  PROVE  /\ Mail!IdleMail \in Mail!CallStates /\ Cardinality(Mail!IdleMail.asked) <= MaxConcurrent
         /\ Mail!IdleMail.pc = "idle"
<1>1. Mail!NoPages \in [1 .. Mail!NumPages -> [mails : SUBSET Mail!Mails, failed : BOOLEAN]]
  BY DEF Mail!NoPages
<1>2. Mail!IdleMail.asked = {} /\ Mail!IdleMail.pc = "idle"
  BY DEF Mail!IdleMail
<1>3. Cardinality({}) = 0
  BY FS_EmptySet
<1>4. Mail!IdleMail \in Mail!CallStates
  BY <1>1 DEF Mail!IdleMail, Mail!CallStates
<1> QED BY <1>2, <1>3, <1>4, MailConstants

LEMMA MailStart == ASSUME Mail!MailboxAssumption, Mail!MailInit PROVE MailInv
<1>1. /\ applied = {} /\ sent = {} /\ \A c \in MailCalls : mailCall[c] = Mail!IdleMail
      /\ mailCall \in [MailCalls -> Mail!CallStates]
  BY BlankMail DEF Mail!MailInit
<1>2. place \in Mail!Inboxes
  BY DEF Mail!MailInit, Mail!Inboxes
<1>3. Mail!MailTypeOK
  BY <1>1, <1>2, BlankMail, MailCounts DEF Mail!MailTypeOK
<1>4. ASSUME NEW c \in MailCalls PROVE MailTold(c)
  BY <1>1 DEF MailTold, StepsTold, Untouched, WriteTold, BatchTold, QueryTold, Mail!IdleMail, Mail!Writing,
     Mail!Reading, Mail!Changing
<1> QED BY <1>3, <1>4 DEF MailInv

\* What is known of a call that is not at a query or a batch.
LEMMA WriterTold ==
  ASSUME NEW c, NEW call, mailCall'[c] = call, call.op \in Mail!Writing, call.asked = {},
         call.pc \in {"posting", "replied", "done"}, call.pc # "done" => call.status = "none", WriteTold(c)'
  PROVE  MailTold(c)'
BY DEF MailTold, StepsTold, BatchTold, QueryTold, Mail!Writing, Mail!Reading, Mail!Changing

LEMMA MailWrites ==
  ASSUME Mail!MailboxAssumption, MailInv, NEW c \in MailCalls, Mail!BeginWrite(c)
  PROVE  MailInv'
<1>1. /\ mailCall[c] = Mail!IdleMail /\ mailCall[c] \in Mail!CallStates /\ UNCHANGED <<place, applied, sent>>
      /\ WriteTold(c)
  BY MailParts DEF Mail!BeginWrite, Mail!At, MailTold, StepsTold
<1>2. PICK op \in Mail!Writing, ending \in BOOLEAN :
        Mail!Put(c, IF ending THEN [mailCall[c] EXCEPT !.op = op, !.pc = "done", !.status = "refused"]
                    ELSE [mailCall[c] EXCEPT !.op = op, !.pc = "posting"])
  BY DEF Mail!BeginWrite
<1> DEFINE call == IF ending THEN [mailCall[c] EXCEPT !.op = op, !.pc = "done", !.status = "refused"]
                   ELSE [mailCall[c] EXCEPT !.op = op, !.pc = "posting"]
<1>3. call \in Mail!CallStates
  BY <1>1 DEF Mail!CallStates
<1>4. /\ call.op = op /\ call.asked = {} /\ call.reply = "none"
      /\ \/ call.pc = "done" /\ call.status = "refused"
         \/ call.pc = "posting" /\ call.status = "none"
  BY <1>1 DEF Mail!IdleMail
<1>5. c \notin sent
  BY <1>1 DEF WriteTold, Mail!IdleMail
<1>6. Mail!Put(c, call)
  BY <1>2
<1> HIDE DEF call
<1>7. ASSUME mailCall'[c] = call PROVE MailTold(c)'
  <2>1. WriteTold(c)'
    BY <1>1, <1>4, <1>5, <1>7 DEF WriteTold
  <2> QED BY <1>4, <1>7, <2>1, WriterTold
<1>8. Cardinality(call.asked) <= MaxConcurrent
  BY <1>4, FS_EmptySet, MailConstants
<1> QED BY <1>1, <1>3, <1>6, <1>7, <1>8, MailMovesAlone

LEMMA MailPosted ==
  ASSUME Mail!MailboxAssumption, MailInv, NEW c \in MailCalls, Mail!PostMail(c)
  PROVE  MailInv'
<1>1. /\ mailCall[c] \in Mail!CallStates /\ UNCHANGED <<place, applied>> /\ mailCall[c].op \in Mail!Writing
      /\ mailCall[c].pc = "posting" /\ mailCall[c].status = "none" /\ mailCall[c].asked = {} /\ WriteTold(c)
  BY MailParts DEF Mail!PostMail, Mail!At, MailTold, StepsTold
<1>2. PICK r \in {"answered", "lost"} :
        /\ Mail!Put(c, [mailCall[c] EXCEPT !.pc = "replied", !.reply = r])
        /\ sent' \in {sent, sent \cup {c}}
        /\ r = "answered" => c \in sent'
  BY DEF Mail!PostMail
<1> DEFINE call == [mailCall[c] EXCEPT !.pc = "replied", !.reply = r]
<1>3. call \in Mail!CallStates
  BY <1>1 DEF Mail!CallStates
<1>4. /\ call.op \in Mail!Writing /\ call.asked = {} /\ call.reply = r /\ call.pc = "replied"
      /\ call.status = "none"
  BY <1>1 DEF Mail!CallStates
<1>5. Mail!Put(c, call)
  BY <1>2
<1> HIDE DEF call
<1>6. ASSUME mailCall'[c] = call PROVE MailTold(c)'
  <2>1. WriteTold(c)'
    BY <1>1, <1>2, <1>4, <1>6 DEF WriteTold
  <2> QED BY <1>4, <1>6, <2>1, WriterTold
<1>7. Cardinality(call.asked) <= MaxConcurrent
  BY <1>4, FS_EmptySet, MailConstants
<1>8. sent' \subseteq MailCalls /\ \A x \in MailCalls \ {c} : x \in sent' <=> x \in sent
  BY <1>2, MailParts
<1>9. /\ place' \in Mail!Inboxes /\ Later(place, place')
      /\ \A x \in MailCalls \ {c} : \A m : <<x, m>> \in applied' <=> <<x, m>> \in applied
      /\ applied' \subseteq MailCalls \X Mail!Mails
  BY <1>1, MailParts, InboxStays
<1> QED BY <1>3, <1>5, <1>6, <1>7, <1>8, <1>9, MailMoves

LEMMA MailAnswers ==
  ASSUME Mail!MailboxAssumption, MailInv, NEW c \in MailCalls, Mail!MailAnswered(c)
  PROVE  MailInv'
<1>1. /\ mailCall[c] \in Mail!CallStates /\ UNCHANGED <<place, applied, sent>> /\ mailCall[c].op \in Mail!Writing
      /\ mailCall[c].pc = "replied" /\ mailCall[c].status = "none" /\ mailCall[c].asked = {} /\ WriteTold(c)
  BY MailParts DEF Mail!MailAnswered, Mail!At, MailTold, StepsTold
<1> DEFINE status == Mail!WriteStatus(mailCall[c].reply)
           call == [mailCall[c] EXCEPT !.pc = "done", !.status = status]
<1>2. Mail!Put(c, call)
  BY DEF Mail!MailAnswered
<1>3. status \in {"success", "error"} /\ (status = "success" => mailCall[c].reply = "answered")
  BY DEF Mail!WriteStatus
<1> HIDE DEF status
<1>4. call \in Mail!CallStates
  BY <1>1, <1>3 DEF Mail!CallStates
<1>5. /\ call.op = mailCall[c].op /\ call.asked = {} /\ call.reply = mailCall[c].reply /\ call.pc = "done"
      /\ call.status = status
  BY <1>1 DEF Mail!CallStates
<1> HIDE DEF call
<1>6. ASSUME mailCall'[c] = call PROVE MailTold(c)'
  <2>1. WriteTold(c)'
    BY <1>1, <1>3, <1>5, <1>6 DEF WriteTold
  <2> QED BY <1>1, <1>5, <1>6, <2>1, WriterTold
<1>7. Cardinality(call.asked) <= MaxConcurrent
  BY <1>5, FS_EmptySet, MailConstants
<1> QED BY <1>1, <1>2, <1>4, <1>6, <1>7, MailMovesAlone

-----------------------------------------------------------------------------
(* Batches.                                                                          *)

LEMMA Slices ==
  ASSUME NEW S, NEW s \in Seq(S), NEW from \in Nat, NEW to \in Nat, from < to, to <= Len(s)
  PROVE  /\ SubSeq(s, from + 1, to) \in Seq(S)
         /\ Len(SubSeq(s, from + 1, to)) = to - from
         /\ DOMAIN SubSeq(s, from + 1, to) = 1 .. (to - from)
         /\ \A i \in 1 .. (to - from) : /\ SubSeq(s, from + 1, to)[i] = s[from + i]
                                        /\ from + i \in DOMAIN s
<1>1. SubSeq(s, from + 1, to) \in Seq(S)
  OBVIOUS
<1>2. Len(SubSeq(s, from + 1, to)) = to - from
  OBVIOUS
<1>3. ASSUME NEW i \in 1 .. (to - from) PROVE SubSeq(s, from + 1, to)[i] = s[from + i]
  <2>1. i \in 1 .. Len(SubSeq(s, from + 1, to))
    BY <1>2
  <2> QED BY <2>1
<1> QED BY <1>1, <1>2, <1>3

LEMMA BatchBounds ==
  ASSUME NEW n \in Nat \ {0}, NEW len \in Nat \ {0}, NEW b \in Nat \ {0}
  PROVE  /\ (n - 1) * b \in Nat /\ (n - 1) * b + b = n * b
         /\ n <= (len + b - 1) \div b => (n - 1) * b < len
         /\ n > (len + b - 1) \div b => (n - 1) * b >= len
<1> DEFINE q == (len + b - 1) \div b
           m == n - 1
<1>1. m \in Nat /\ m + 1 = n /\ len + b - 1 \in Nat
  OBVIOUS
<1>2. q \in Nat /\ q * b \in Nat /\ q * b <= len + b - 1 /\ len + b - 1 < q * b + b
  BY <1>1, Quotients
<1> HIDE DEF q, m
<1>3. m * b \in Nat /\ n * b = m * b + b
  BY <1>1, Multiples
<1>4. n <= q => n * b <= q * b
  BY <1>1, <1>2, Multiples
<1>5. q <= m => q * b <= m * b
  BY <1>1, <1>2, Multiples
<1>6. /\ n <= q => m * b < len
      /\ n > q => m * b >= len
  BY <1>1, <1>2, <1>3, <1>4, <1>5
<1> QED BY <1>3, <1>6 DEF q, m

\* The mails of a call's next batch follow those of the batches before it.
LEMMA BatchSlice ==
  ASSUME Mail!MailboxAssumption, MailInv, NEW c \in MailCalls, mailCall[c].ids \in IdLists,
         mailCall[c].next <= Mail!Batches(c)
  PROVE  LET ids == mailCall[c].ids
             slice == Mail!BatchIds(c)
             from == (mailCall[c].next - 1) * BatchSize
         IN  /\ from \in Nat /\ slice \in Seq(Mail!Mails) /\ DOMAIN slice \subseteq Nat
             /\ \A i \in DOMAIN slice : slice[i] \in Mail!Mails
             /\ \A i, j \in DOMAIN slice : i # j /\ slice[i] = slice[j] => Mail!Repeated(ids, slice[i])
             /\ FirstIds(ids, mailCall[c].next * BatchSize) = FirstIds(ids, from) \cup {slice[i] : i \in DOMAIN slice}
             /\ \A i \in DOMAIN slice : slice[i] \in FirstIds(ids, from) => Mail!Repeated(ids, slice[i])
<1> DEFINE ids == mailCall[c].ids
           slice == Mail!BatchIds(c)
           n == mailCall[c].next
           from == (n - 1) * BatchSize
           to == IF from + BatchSize <= Len(ids) THEN from + BatchSize ELSE Len(ids)
<1>1. ids \in Seq(Mail!Mails) /\ ids # <<>> /\ BatchSize \in Nat \ {0}
  BY MailConstants
<1>2. n \in Nat \ {0}
  BY MailParts DEF Mail!CallStates
<1>3. Len(ids) \in Nat \ {0} /\ DOMAIN ids = 1 .. Len(ids)
  BY <1>1
<1>4. from \in Nat /\ from + BatchSize = n * BatchSize /\ from < Len(ids)
  BY <1>1, <1>2, <1>3, BatchBounds DEF Mail!Batches
<1>5. slice = SubSeq(ids, from + 1, Mail!Min({from + BatchSize, Len(ids)}))
  BY DEF Mail!BatchIds
<1> HIDE DEF ids, slice, n, from
<1>14. Mail!Min({from + BatchSize, Len(ids)}) = to
  BY <1>1, <1>3, <1>4, LesserOfTwo
<1>6. to \in Nat /\ from < to /\ to <= Len(ids) /\ to <= from + BatchSize
  BY <1>1, <1>3, <1>4
<1>7. \A i \in DOMAIN ids : i <= from + BatchSize <=> i <= to
  BY <1>1, <1>3, <1>4
<1> HIDE DEF to
<1>8. /\ Len(slice) = to - from /\ DOMAIN slice = 1 .. (to - from)
      /\ \A i \in 1 .. (to - from) : slice[i] = ids[from + i] /\ from + i \in DOMAIN ids
  <2> DEFINE cut == SubSeq(ids, from + 1, to)
  <2>1. /\ Len(cut) = to - from /\ DOMAIN cut = 1 .. (to - from)
        /\ \A i \in 1 .. (to - from) : cut[i] = ids[from + i] /\ from + i \in DOMAIN ids
    BY <1>1, <1>4, <1>6, Slices
  <2>2. slice = cut
    BY <1>5, <1>14
  <2> HIDE DEF cut
  <2> QED BY <2>1, <2>2
<1>9. \A i \in DOMAIN slice : slice[i] \in Mail!Mails
  BY <1>1, <1>8
<1>10. slice \in Seq(Mail!Mails)
  BY <1>1, <1>4, <1>5, <1>14, <1>6, Slices
<1>11. ASSUME NEW i \in DOMAIN slice, NEW j \in DOMAIN slice, i # j, slice[i] = slice[j]
       PROVE  Mail!Repeated(ids, slice[i])
  <2>1. /\ ids[from + i] = slice[i] /\ ids[from + j] = slice[i] /\ from + i # from + j
        /\ from + i \in DOMAIN ids /\ from + j \in DOMAIN ids
    BY <1>4, <1>6, <1>8, <1>11
  <2> QED BY <2>1 DEF Mail!Repeated
<1>12. FirstIds(ids, n * BatchSize) = FirstIds(ids, from) \cup {slice[i] : i \in DOMAIN slice}
  <2>1. ASSUME NEW i \in DOMAIN ids, i <= n * BatchSize, ~(i <= from)
        PROVE  \E j \in DOMAIN slice : slice[j] = ids[i]
    <3>1. i - from \in 1 .. (to - from)
      BY <1>3, <1>4, <1>6, <1>7, <2>1
    <3>2. from + (i - from) = i
      BY <1>3, <1>4
    <3> QED BY <1>8, <3>1, <3>2
  <2>2. ASSUME NEW j \in DOMAIN slice
        PROVE  \E i \in DOMAIN ids : i <= n * BatchSize /\ slice[j] = ids[i]
    BY <1>4, <1>6, <1>8, <1>7
  <2>3. \A i \in DOMAIN ids : i <= from => i <= n * BatchSize
    BY <1>1, <1>3, <1>4
  <2> QED BY <2>1, <2>2, <2>3 DEF FirstIds
<1>13. ASSUME NEW i \in DOMAIN slice, slice[i] \in FirstIds(ids, from)
       PROVE  Mail!Repeated(ids, slice[i])
  <2>1. slice[i] = ids[from + i] /\ from + i \in DOMAIN ids /\ ~(from + i <= from)
    BY <1>4, <1>6, <1>8
  <2>2. PICK j \in DOMAIN ids : j <= from /\ ids[j] = slice[i]
    BY <1>13 DEF FirstIds
  <2> QED BY <2>1, <2>2 DEF Mail!Repeated
<1> QED BY <1>4, <1>8, <1>9, <1>10, <1>11, <1>12, <1>13 DEF ids, slice, n, from

\* The batches of a call that has none left were all its ids.
LEMMA BatchesOver ==
  ASSUME Mail!MailboxAssumption, MailInv, NEW c \in MailCalls, mailCall[c].ids \in IdLists,
         mailCall[c].next > Mail!Batches(c)
  PROVE  FirstIds(mailCall[c].ids, (mailCall[c].next - 1) * BatchSize) = Mail!ToSet(mailCall[c].ids)
<1> DEFINE ids == mailCall[c].ids
           from == (mailCall[c].next - 1) * BatchSize
<1>1. ids \in Seq(Mail!Mails) /\ ids # <<>> /\ BatchSize \in Nat \ {0}
  BY MailConstants
<1>2. mailCall[c].next \in Nat \ {0}
  BY MailParts DEF Mail!CallStates
<1>3. Len(ids) \in Nat \ {0} /\ DOMAIN ids = 1 .. Len(ids)
  BY <1>1
<1>4. from \in Nat /\ from >= Len(ids)
  BY <1>1, <1>2, <1>3, BatchBounds DEF Mail!Batches
<1> HIDE DEF ids, from
<1>5. FirstIds(ids, from) = {ids[i] : i \in DOMAIN ids}
  BY <1>3, <1>4 DEF FirstIds
<1> QED BY <1>5, MailCounts DEF ids, from

\* What is known of a call that is at a batch.
LEMMA BatcherTold ==
  ASSUME NEW c, NEW call, mailCall'[c] = call, call.op \in Mail!Reading \cup Mail!Changing, call.asked = {},
         call.pc \in {"batch", "replied", "done"}, call.pc # "done" => call.status = "none",
         c \notin sent', BatchTold(c)'
  PROVE  MailTold(c)'
BY DEF MailTold, StepsTold, WriteTold, QueryTold, Mail!Writing, Mail!Reading, Mail!Changing

LEMMA FirstBatch ==
  ASSUME Mail!MailboxAssumption, MailInv, NEW c \in MailCalls, Mail!BeginBatch(c)
  PROVE  MailInv'
<1>1. /\ mailCall[c] = Mail!IdleMail /\ mailCall[c] \in Mail!CallStates /\ UNCHANGED <<place, applied, sent>>
      /\ WriteTold(c) /\ Untouched(c)
  BY MailParts DEF Mail!BeginBatch, Mail!At, MailTold, StepsTold
<1>2. PICK op \in Mail!Reading \cup Mail!Changing, ids \in IdLists,
           step \in {<<"batch", "none">>, <<"done", "error">>, <<"done", "refused">>} :
        Mail!Put(c, [mailCall[c] EXCEPT !.op = op, !.ids = ids, !.pc = step[1], !.status = step[2]])
  <2>1. PICK op \in Mail!Reading \cup Mail!Changing, ids \in IdLists :
          \/ Mail!Put(c, [mailCall[c] EXCEPT !.op = op, !.ids = ids, !.pc = "batch"])
          \/ \E status \in {"error", "refused"} :
               Mail!Put(c, [mailCall[c] EXCEPT !.op = op, !.ids = ids, !.pc = "done", !.status = status])
    BY DEF Mail!BeginBatch
  <2>2. CASE Mail!Put(c, [mailCall[c] EXCEPT !.op = op, !.ids = ids, !.pc = "batch"])
    <3>1. [mailCall[c] EXCEPT !.op = op, !.ids = ids, !.pc = "batch"] =
            [mailCall[c] EXCEPT !.op = op, !.ids = ids, !.pc = "batch", !.status = "none"]
      <4>1. mailCall[c].status = "none"
        BY <1>1 DEF Mail!IdleMail
      <4> QED BY <1>1, <4>1 DEF Mail!CallStates
    <3>2. Mail!Put(c, [mailCall[c] EXCEPT !.op = op, !.ids = ids, !.pc = "batch", !.status = "none"])
      BY <2>2, <3>1
    <3> DEFINE step == <<"batch", "none">>
    <3>3. step \in {<<"batch", "none">>, <<"done", "error">>, <<"done", "refused">>}
      OBVIOUS
    <3>4. Mail!Put(c, [mailCall[c] EXCEPT !.op = op, !.ids = ids, !.pc = step[1], !.status = step[2]])
      BY <3>2
    <3> HIDE DEF step
    <3> QED BY <3>3, <3>4
  <2>3. CASE \E status \in {"error", "refused"} :
               Mail!Put(c, [mailCall[c] EXCEPT !.op = op, !.ids = ids, !.pc = "done", !.status = status])
    <3>1. PICK status \in {"error", "refused"} :
               Mail!Put(c, [mailCall[c] EXCEPT !.op = op, !.ids = ids, !.pc = "done", !.status = status])
      BY <2>3
    <3> DEFINE step == <<"done", status>>
    <3>2. step \in {<<"batch", "none">>, <<"done", "error">>, <<"done", "refused">>}
      OBVIOUS
    <3>3. Mail!Put(c, [mailCall[c] EXCEPT !.op = op, !.ids = ids, !.pc = step[1], !.status = step[2]])
      BY <3>1
    <3> HIDE DEF step
    <3> QED BY <3>2, <3>3
  <2> QED BY <2>1, <2>2, <2>3
<1> DEFINE call == [mailCall[c] EXCEPT !.op = op, !.ids = ids, !.pc = step[1], !.status = step[2]]
<1>3. ids \in Seq(Mail!Mails)
  BY MailConstants
<1>4. call \in Mail!CallStates
  <2> DEFINE at == step[1]
             told == step[2]
  <2>1. at \in {"batch", "done"} /\ told \in {"none", "error", "refused"}
    BY <1>2
  <2> HIDE DEF at, told
  <2> DEFINE begun == [mailCall[c] EXCEPT !.op = op, !.ids = ids]
  <2>2. begun \in Mail!CallStates
    BY <1>1, <1>3 DEF Mail!CallStates
  <2>3. [begun EXCEPT !.pc = at, !.status = told] = call
    BY <1>1 DEF Mail!CallStates, at, told
  <2> HIDE DEF begun, call
  <2>4. [begun EXCEPT !.pc = at, !.status = told] \in Mail!CallStates
    BY <2>1, <2>2 DEF Mail!CallStates
  <2> QED BY <2>3, <2>4
<1>5. /\ call.op = op /\ call.asked = {} /\ call.ids = ids
      /\ call.done = {} /\ call.failed = {} /\ call.next = 1
      /\ \/ call.pc = "batch" /\ call.status = "none"
         \/ call.pc = "done" /\ call.status # "success"
  BY <1>1, <1>2 DEF Mail!IdleMail
<1>6. c \notin sent
  BY <1>1 DEF WriteTold, Mail!IdleMail, Mail!Writing
<1>7. FirstIds(ids, (1 - 1) * BatchSize) = {}
  <2>1. (1 - 1) * BatchSize = 0
    BY MailConstants
  <2>2. \A i \in DOMAIN ids : ~(i <= 0)
    BY <1>3
  <2> QED BY <2>1, <2>2 DEF FirstIds
<1>8. Mail!Put(c, call)
  BY <1>2
<1> HIDE DEF call
<1>9. ASSUME mailCall'[c] = call PROVE MailTold(c)'
  <2>1. call.pc = "done" => Tokenless(c)'
    BY <1>1, <1>5, <1>9 DEF Tokenless, Untouched
  <2>2. BatchTold(c)'
    BY <1>5, <1>7, <1>9, <2>1 DEF BatchTold
  <2> QED BY <1>1, <1>5, <1>6, <1>9, <2>2, BatcherTold
<1>10. Cardinality(call.asked) <= MaxConcurrent
  BY <1>5, FS_EmptySet, MailConstants
<1> QED BY <1>1, <1>4, <1>8, <1>9, <1>10, MailMovesAlone

\* Where a call is that is at a batch.
LEMMA AtBatch ==
  ASSUME Mail!MailboxAssumption, MailInv, NEW c \in MailCalls,
         mailCall[c].op \in Mail!Reading \cup Mail!Changing, mailCall[c].pc \in {"batch", "replied"}
  PROVE  /\ mailCall[c] \in Mail!CallStates /\ mailCall[c].asked = {} /\ mailCall[c].status = "none"
         /\ c \notin sent /\ BatchTold(c) /\ ~Tokenless(c) /\ mailCall[c].ids \in IdLists
         /\ mailCall[c].next \in Nat \ {0} /\ Cardinality(mailCall[c].asked) <= MaxConcurrent
<1>1. mailCall[c] \in Mail!CallStates /\ StepsTold(c) /\ WriteTold(c) /\ BatchTold(c)
  BY MailParts DEF MailTold
<1>2. mailCall[c].asked = {} /\ mailCall[c].status = "none"
  BY <1>1 DEF StepsTold
<1>3. c \notin sent
  BY <1>1 DEF WriteTold, Mail!Writing, Mail!Reading, Mail!Changing
<1>4. mailCall[c].ids \in IdLists
  BY <1>1 DEF BatchTold
<1>5. mailCall[c].next \in Nat \ {0}
  BY <1>1 DEF Mail!CallStates
<1>6. ~Tokenless(c)
  BY DEF Tokenless
<1> QED BY <1>1, <1>2, <1>3, <1>4, <1>5, <1>6, FS_EmptySet, MailConstants

LEMMA BatchSent ==
  ASSUME Mail!MailboxAssumption, MailInv, NEW c \in MailCalls, Mail!PostBatch(c)
  PROVE  MailInv'
<1> DEFINE slice == Mail!BatchIds(c)
<1>1. /\ mailCall[c].pc = "batch" /\ mailCall[c].next <= Mail!Batches(c) /\ sent' = sent
      /\ mailCall[c].op \in Mail!Reading \cup Mail!Changing
  BY MailParts DEF Mail!PostBatch, Mail!At, MailTold, StepsTold
<1>2. /\ mailCall[c] \in Mail!CallStates /\ mailCall[c].asked = {} /\ mailCall[c].status = "none"
      /\ c \notin sent /\ BatchTold(c) /\ ~Tokenless(c) /\ mailCall[c].ids \in IdLists
  BY <1>1, AtBatch
<1>3. DOMAIN slice \subseteq Nat /\ \A i \in DOMAIN slice : slice[i] \in Mail!Mails
  BY <1>1, <1>2, BatchSlice
<1>4. PICK works \in SUBSET DOMAIN slice, reply \in {"answered", "lost"},
           responses \in SUBSET [id : Nat, ok : BOOLEAN] :
        /\ Mail!Put(c, [mailCall[c] EXCEPT !.pc = "replied", !.reply = reply, !.responses = responses])
        /\ reply = "answered" => responses = {[id |-> i, ok |-> i \in works] : i \in DOMAIN slice}
        /\ applied' = applied \cup {<<c, slice[i]>> : i \in works}
        /\ place' \in Mail!Inboxes /\ Later(place, place')
  <2>1. CASE /\ Mail!Put(c, [mailCall[c] EXCEPT !.pc = "replied", !.reply = "lost", !.responses = {}])
             /\ UNCHANGED <<place, applied>>
    <3>1. applied' = applied \cup {<<c, slice[i]>> : i \in {}}
      BY <2>1
    <3>2. place' \in Mail!Inboxes /\ Later(place, place')
      BY <2>1, MailParts, InboxStays
    <3> WITNESS {} \in SUBSET DOMAIN slice, "lost" \in {"answered", "lost"},
                {} \in SUBSET [id : Nat, ok : BOOLEAN]
    <3> QED BY <2>1, <3>1, <3>2
  <2>2. CASE \E works \in SUBSET {i \in DOMAIN slice : slice[i] \in Mail!Present} :
               /\ mailCall[c].op \in {"delete", "move"} =>
                    \A i, j \in works : slice[i] = slice[j] => i = j
               /\ place' = IF mailCall[c].op \in {"delete", "move"}
                           THEN [m \in Mail!Mails |-> IF m \in {slice[i] : i \in works} THEN "away" ELSE place[m]]
                           ELSE place
               /\ applied' = applied \cup {<<c, slice[i]>> : i \in works}
               /\ \E reply \in {"answered", "lost"} :
                    Mail!Put(c, [mailCall[c] EXCEPT !.pc = "replied", !.reply = reply,
                              !.responses = {[id |-> i, ok |-> i \in works] : i \in DOMAIN slice}])
    <3>1. PICK works \in SUBSET {i \in DOMAIN slice : slice[i] \in Mail!Present} :
               /\ place' = IF mailCall[c].op \in {"delete", "move"}
                           THEN [m \in Mail!Mails |-> IF m \in {slice[i] : i \in works} THEN "away" ELSE place[m]]
                           ELSE place
               /\ applied' = applied \cup {<<c, slice[i]>> : i \in works}
               /\ \E reply \in {"answered", "lost"} :
                    Mail!Put(c, [mailCall[c] EXCEPT !.pc = "replied", !.reply = reply,
                              !.responses = {[id |-> i, ok |-> i \in works] : i \in DOMAIN slice}])
      BY <2>2
    <3>2. {[id |-> i, ok |-> i \in works] : i \in DOMAIN slice} \in SUBSET [id : Nat, ok : BOOLEAN]
      <4> DEFINE answer(i) == [id |-> i, ok |-> i \in works]
      <4>1. \A i \in DOMAIN slice : answer(i) \in [id : Nat, ok : BOOLEAN]
        <5>1. \A i : (i \in works) \in BOOLEAN
          OBVIOUS
        <5> QED BY <1>3, <5>1
      <4> HIDE DEF answer
      <4>2. {answer(i) : i \in DOMAIN slice} \in SUBSET [id : Nat, ok : BOOLEAN]
        BY <4>1
      <4> QED BY <4>2 DEF answer
    <3>3. place \in Mail!Inboxes
      BY MailParts
    <3>4. \A i \in works : place[slice[i]] = "inbox"
      BY <3>1 DEF Mail!Present, Mail!InboxOf
    <3>5. place' \in Mail!Inboxes
      BY <3>1, <3>3 DEF Mail!Inboxes
    <3>6. \A m \in Mail!Mails : place'[m] = place[m] \/ (place[m] = "inbox" /\ place'[m] = "away")
      BY <3>1, <3>3, <3>4 DEF Mail!Inboxes
    <3>7. Later(place, place')
      BY <3>3, <3>6 DEF Later, Mail!Inboxes
    <3>8. PICK reply \in {"answered", "lost"} :
            Mail!Put(c, [mailCall[c] EXCEPT !.pc = "replied", !.reply = reply,
                              !.responses = {[id |-> i, ok |-> i \in works] : i \in DOMAIN slice}])
      BY <3>1
    <3> USE <3>2
    <3> WITNESS works \in SUBSET DOMAIN slice, reply \in {"answered", "lost"},
                {[id |-> i, ok |-> i \in works] : i \in DOMAIN slice} \in SUBSET [id : Nat, ok : BOOLEAN]
    <3> QED BY <3>1, <3>2, <3>5, <3>7, <3>8
  <2> QED BY <2>1, <2>2 DEF Mail!PostBatch
<1> DEFINE call == [mailCall[c] EXCEPT !.pc = "replied", !.reply = reply, !.responses = responses]
<1>5. call \in Mail!CallStates
  BY <1>2, <1>4 DEF Mail!CallStates
<1>6. /\ call.op = mailCall[c].op /\ call.asked = {} /\ call.pc = "replied" /\ call.status = "none"
      /\ call.ids = mailCall[c].ids /\ call.next = mailCall[c].next /\ call.reply = reply
      /\ call.responses = responses /\ call.done = mailCall[c].done /\ call.failed = mailCall[c].failed
  BY <1>2 DEF Mail!CallStates
<1>7. Mail!Put(c, call)
  BY <1>4
<1> HIDE DEF call
<1>8. /\ applied \subseteq applied' /\ applied' \subseteq MailCalls \X Mail!Mails
      /\ \A x \in MailCalls \ {c} : \A m : <<x, m>> \in applied' <=> <<x, m>> \in applied
  BY <1>3, <1>4, MailParts
<1>9. ASSUME mailCall'[c] = call PROVE MailTold(c)'
  <2>1. Mail!BatchIds(c)' = slice /\ Mail!Batches(c)' = Mail!Batches(c)
    BY <1>6, <1>9 DEF Mail!BatchIds, Mail!Batches
  <2>2. reply = "answered" => ResponsesTold(c)'
    <3>1. \A i \in DOMAIN slice : i \in works => <<c, slice[i]>> \in applied'
      BY <1>4
    <3> QED BY <1>4, <1>6, <1>9, <2>1, <3>1 DEF ResponsesTold
  <2>3. call.op \in Mail!Changing => \A m \in call.done : <<c, m>> \in applied'
    BY <1>1, <1>2, <1>6, <1>8 DEF BatchTold
  <2>4. BatchTold(c)'
    BY <1>1, <1>2, <1>4, <1>6, <1>9, <2>1, <2>2, <2>3 DEF BatchTold
  <2> QED BY <1>1, <1>2, <1>6, <1>9, <2>4, BatcherTold
<1>10. Cardinality(call.asked) <= MaxConcurrent
  BY <1>6, FS_EmptySet, MailConstants
<1>11. sent' \subseteq MailCalls
  BY <1>1, MailParts
<1> QED BY <1>1, <1>4, <1>5, <1>7, <1>8, <1>9, <1>10, <1>11, MailMoves

LEMMA BatchAnswers ==
  ASSUME Mail!MailboxAssumption, MailInv, NEW c \in MailCalls, Mail!BatchAnswered(c)
  PROVE  MailInv'
<1> DEFINE slice == Mail!BatchIds(c)
           all == {slice[i] : i \in DOMAIN slice}
           good == IF mailCall[c].reply = "lost" THEN {}
                   ELSE {Mail!MailOf(c, r) : r \in {s \in mailCall[c].responses : s.ok}}
           bad == IF mailCall[c].reply = "lost" THEN Mail!ToSet(slice)
                  ELSE {Mail!MailOf(c, r) : r \in {s \in mailCall[c].responses : ~s.ok}}
           n == mailCall[c].next
           call == [mailCall[c] EXCEPT !.pc = "batch", !.next = @ + 1, !.responses = {}, !.reply = "none",
                                       !.done = @ \cup good, !.failed = @ \cup bad]
<1>1. /\ mailCall[c].pc = "replied" /\ UNCHANGED <<place, applied, sent>>
      /\ mailCall[c].op \in Mail!Reading \cup Mail!Changing /\ Mail!Put(c, call)
  BY DEF Mail!BatchAnswered, Mail!At
<1>2. /\ mailCall[c] \in Mail!CallStates /\ mailCall[c].asked = {} /\ mailCall[c].status = "none"
      /\ c \notin sent /\ BatchTold(c) /\ mailCall[c].ids \in IdLists
      /\ n \in Nat \ {0} /\ Cardinality(mailCall[c].asked) <= MaxConcurrent /\ ~Tokenless(c)
  BY <1>1, AtBatch
<1>3. /\ n <= Mail!Batches(c) /\ mailCall[c].reply \in {"answered", "lost"}
      /\ mailCall[c].reply = "answered" => ResponsesTold(c)
      /\ mailCall[c].done \cup mailCall[c].failed = FirstIds(mailCall[c].ids, (n - 1) * BatchSize)
      /\ \A m \in mailCall[c].done \cap mailCall[c].failed : Mail!Repeated(mailCall[c].ids, m)
      /\ mailCall[c].op \in Mail!Changing => \A m \in mailCall[c].done : <<c, m>> \in applied
  BY <1>1, <1>2 DEF BatchTold
<1>4. /\ \A i \in DOMAIN slice : slice[i] \in Mail!Mails
      /\ \A i, j \in DOMAIN slice : i # j /\ slice[i] = slice[j] => Mail!Repeated(mailCall[c].ids, slice[i])
      /\ FirstIds(mailCall[c].ids, n * BatchSize) = FirstIds(mailCall[c].ids, (n - 1) * BatchSize) \cup all
      /\ \A i \in DOMAIN slice : slice[i] \in FirstIds(mailCall[c].ids, (n - 1) * BatchSize) =>
                                 Mail!Repeated(mailCall[c].ids, slice[i])
  BY <1>2, <1>3, BatchSlice
<1>5. /\ good \cup bad = all /\ \A m \in good \cap bad : Mail!Repeated(mailCall[c].ids, m)
      /\ \A m \in good : <<c, m>> \in applied
  <2>1. CASE mailCall[c].reply = "lost"
    BY <2>1, MailCounts
  <2>2. CASE mailCall[c].reply # "lost"
    <3>1. ResponsesTold(c)
      BY <1>3, <2>2
    <3>2. PICK works : /\ mailCall[c].responses = {[id |-> i, ok |-> i \in works] : i \in DOMAIN slice}
                       /\ \A i \in DOMAIN slice : i \in works => <<c, slice[i]>> \in applied
      BY <3>1 DEF ResponsesTold
    <3> DEFINE answer(i) == [id |-> i, ok |-> i \in works]
    <3>9. \A i : answer(i).id = i /\ (answer(i).ok <=> i \in works)
      OBVIOUS
    <3>10. mailCall[c].responses = {answer(i) : i \in DOMAIN slice}
      BY <3>2
    <3>3. \A i \in DOMAIN slice : Mail!MailOf(c, answer(i)) = slice[i]
      BY <3>9 DEF Mail!MailOf
    <3> HIDE DEF answer
    <3>4. good = {slice[i] : i \in {j \in DOMAIN slice : j \in works}}
      <4>1. {s \in mailCall[c].responses : s.ok} = {answer(i) : i \in {j \in DOMAIN slice : j \in works}}
        BY <3>9, <3>10
      <4>2. good = {Mail!MailOf(c, answer(i)) : i \in {j \in DOMAIN slice : j \in works}}
        BY <2>2, <4>1
      <4> QED BY <4>2, <3>3
    <3>5. bad = {slice[i] : i \in {j \in DOMAIN slice : j \notin works}}
      <4>1. {s \in mailCall[c].responses : ~s.ok} = {answer(i) : i \in {j \in DOMAIN slice : j \notin works}}
        BY <3>9, <3>10
      <4>2. bad = {Mail!MailOf(c, answer(i)) : i \in {j \in DOMAIN slice : j \notin works}}
        BY <2>2, <4>1
      <4> QED BY <4>2, <3>3
    <3> HIDE DEF good, bad, slice
    <3>6. good \cup bad = {slice[i] : i \in DOMAIN slice}
      BY <3>4, <3>5
    <3>7. ASSUME NEW m \in good \cap bad PROVE Mail!Repeated(mailCall[c].ids, m)
      <4>1. PICK i \in DOMAIN slice : i \in works /\ slice[i] = m
        BY <3>4
      <4>2. PICK j \in DOMAIN slice : j \notin works /\ slice[j] = m
        BY <3>5
      <4> QED BY <1>4, <4>1, <4>2
    <3>8. \A m \in good : <<c, m>> \in applied
      BY <3>2, <3>4
    <3> QED BY <3>6, <3>7, <3>8
  <2> QED BY <2>1, <2>2
<1>6. all \subseteq Mail!Mails
  BY <1>4
<1> HIDE DEF good, bad, all, slice
<1>7. good \subseteq Mail!Mails /\ bad \subseteq Mail!Mails
  BY <1>5, <1>6
<1>8. call \in Mail!CallStates
  <2>1. /\ n + 1 \in Nat \ {0} /\ mailCall[c].done \cup good \in SUBSET Mail!Mails
        /\ mailCall[c].failed \cup bad \in SUBSET (Mail!Mails \cup 1 .. Mail!NumPages)
    BY <1>2, <1>7 DEF Mail!CallStates
  <2> QED BY <1>2, <2>1 DEF Mail!CallStates
<1>9. /\ call.op = mailCall[c].op /\ call.asked = {} /\ call.pc = "batch" /\ call.status = "none"
      /\ call.ids = mailCall[c].ids /\ call.next = n + 1
      /\ call.done = mailCall[c].done \cup good /\ call.failed = mailCall[c].failed \cup bad
  BY <1>2 DEF Mail!CallStates
<1>10. (n + 1) - 1 = n
  BY <1>2
<1>11. /\ call.done \cup call.failed = FirstIds(call.ids, n * BatchSize)
       /\ \A m \in call.done \cap call.failed : Mail!Repeated(call.ids, m)
       /\ call.op \in Mail!Changing => \A m \in call.done : <<c, m>> \in applied
  <2>1. \A m \in all : m \in FirstIds(mailCall[c].ids, (n - 1) * BatchSize) => Mail!Repeated(mailCall[c].ids, m)
    BY <1>4 DEF all
  <2>2. call.done \cup call.failed = FirstIds(call.ids, n * BatchSize)
    BY <1>3, <1>4, <1>5, <1>9
  <2>3. \A m \in call.done \cap call.failed : Mail!Repeated(call.ids, m)
    BY <1>3, <1>5, <1>9, <2>1
  <2>4. call.op \in Mail!Changing => \A m \in call.done : <<c, m>> \in applied
    BY <1>3, <1>5, <1>9
  <2> QED BY <2>2, <2>3, <2>4
<1> HIDE DEF call, n
<1>12. ASSUME mailCall'[c] = call PROVE MailTold(c)'
  <2>1. BatchTold(c)'
    BY <1>1, <1>2, <1>9, <1>10, <1>11, <1>12 DEF BatchTold
  <2> QED BY <1>1, <1>2, <1>9, <1>12, <2>1, BatcherTold
<1>13. Cardinality(call.asked) <= MaxConcurrent
  BY <1>9, FS_EmptySet, MailConstants
<1> QED BY <1>1, <1>8, <1>12, <1>13, MailMovesAlone

LEMMA LastBatch ==
  ASSUME Mail!MailboxAssumption, MailInv, NEW c \in MailCalls, Mail!BatchesDone(c)
  PROVE  MailInv'
<1>1. /\ mailCall[c].pc = "batch" /\ UNCHANGED <<place, applied, sent>>
      /\ mailCall[c].op \in Mail!Reading \cup Mail!Changing /\ mailCall[c].next > Mail!Batches(c)
  BY MailParts DEF Mail!BatchesDone, Mail!At, MailTold, StepsTold
<1>2. /\ mailCall[c] \in Mail!CallStates /\ mailCall[c].asked = {} /\ mailCall[c].status = "none"
      /\ c \notin sent /\ BatchTold(c) /\ ~Tokenless(c)
  BY <1>1, AtBatch
<1> DEFINE status == CASE mailCall[c].op = "fetch" -> Mail!FetchStatus(mailCall[c].done, mailCall[c].failed)
                       [] mailCall[c].op = "process" -> Mail!ProcessStatus(mailCall[c].done, mailCall[c].failed)
                       [] OTHER -> Mail!ChangeStatus(mailCall[c].done, mailCall[c].failed)
           call == [mailCall[c] EXCEPT !.pc = "done", !.status = status]
<1>3. Mail!Put(c, call)
  BY DEF Mail!BatchesDone
<1>4. /\ status \in {"success", "partial", "error"}
      /\ mailCall[c].op = "fetch" /\ status = "success" => mailCall[c].failed = {}
  <2>1. /\ Mail!FetchStatus(mailCall[c].done, mailCall[c].failed) \in {"success", "partial", "error"}
        /\ Mail!FetchStatus(mailCall[c].done, mailCall[c].failed) = "success" => mailCall[c].failed = {}
        /\ Mail!ProcessStatus(mailCall[c].done, mailCall[c].failed) \in {"success", "partial", "error"}
        /\ Mail!ChangeStatus(mailCall[c].done, mailCall[c].failed) \in {"success", "partial", "error"}
    BY DEF Mail!FetchStatus, Mail!ProcessStatus, Mail!ChangeStatus
  <2> QED BY <2>1
<1> HIDE DEF status
<1>5. call \in Mail!CallStates
  BY <1>2, <1>4 DEF Mail!CallStates
<1>6. /\ call.op = mailCall[c].op /\ call.asked = {} /\ call.pc = "done" /\ call.status = status
      /\ call.ids = mailCall[c].ids /\ call.next = mailCall[c].next
      /\ call.done = mailCall[c].done /\ call.failed = mailCall[c].failed
  BY <1>2 DEF Mail!CallStates
<1> HIDE DEF call
<1>7. ASSUME mailCall'[c] = call PROVE MailTold(c)'
  <2>1. Mail!Batches(c)' = Mail!Batches(c)
    BY <1>6, <1>7 DEF Mail!Batches
  <2>2. BatchTold(c)'
    BY <1>1, <1>2, <1>4, <1>6, <1>7, <2>1 DEF BatchTold
  <2> QED BY <1>1, <1>2, <1>6, <1>7, <2>2, BatcherTold
<1>8. Cardinality(call.asked) <= MaxConcurrent
  BY <1>6, FS_EmptySet, MailConstants
<1> QED BY <1>1, <1>3, <1>5, <1>7, <1>8, MailMovesAlone

-----------------------------------------------------------------------------
(* The pages of a query.                                                             *)

\* The rank of a mail in an inbox tells it from the others, and the newer has the lower.
LEMMA MailRanks ==
  ASSUME Mail!MailboxAssumption, NEW where \in Mail!Inboxes
  PROVE  /\ IsFiniteSet(Mail!InboxOf(where))
         /\ \A m \in Mail!InboxOf(where) : Mail!Rank(where, m) \in Nat \ {0}
         /\ \A m, n \in Mail!InboxOf(where) : /\ Mail!Rank(where, m) = Mail!Rank(where, n) => m = n
                                              /\ Mail!Rank(where, m) < Mail!Rank(where, n) => m > n
<1> DEFINE S == Mail!InboxOf(where)
           U == [m \in S |-> {n \in S : n >= m}]
<1>1. S \subseteq Mail!Mails /\ IsFiniteSet(S) /\ Mail!Mails \subseteq Nat
  <2>1. S \subseteq Mail!Mails
    BY DEF Mail!InboxOf
  <2>2. Mail!Mails \subseteq Nat
    BY MailConstants DEF Mail!Mails
  <2> QED BY <2>1, <2>2, MailConstants, FS_Subset
<1>2. \A m \in S : Mail!Rank(where, m) = Cardinality(U[m])
  BY MailCounts DEF Mail!Rank
<1> HIDE DEF S
<1>3. InOrder(S, U)
  <2>1. \A x, y \in S : x \in Nat /\ y \in Nat
    BY <1>1
  <2>2. \A x \in S : x \in U[x]
    BY <2>1
  <2>3. ASSUME NEW x \in S, NEW y \in S, x # y
        PROVE  \/ x \in U[y] /\ y \notin U[x] /\ U[x] \subseteq U[y]
               \/ y \in U[x] /\ x \notin U[y] /\ U[y] \subseteq U[x]
    BY <2>1, <2>3
  <2> QED BY <1>1, <2>2, <2>3 DEF InOrder
<1> HIDE DEF U
<1>4. /\ Cardinality(S) \in Nat
      /\ \A m \in S : Cardinality(U[m]) \in 1 .. Cardinality(S)
      /\ \A m, n \in S : Cardinality(U[m]) = Cardinality(U[n]) => m = n
  BY <1>3, Ranks
<1>5. ASSUME NEW m \in S, NEW n \in S, Cardinality(U[m]) < Cardinality(U[n]) PROVE m > n
  <2>1. SUFFICES ASSUME ~(m > n) PROVE FALSE
    OBVIOUS
  <2>2. m # n /\ n \in U[m]
    BY <1>1, <1>5, <1>4, <2>1 DEF U
  <2>3. Cardinality(U[n]) < Cardinality(U[m])
    BY <1>3, <2>2, RanksRise
  <2> QED BY <1>4, <1>5, <2>3
<1>6. \A m \in S : Mail!Rank(where, m) \in Nat \ {0}
  BY <1>2, <1>4
<1>7. \A m, n \in S : /\ Mail!Rank(where, m) = Mail!Rank(where, n) => m = n
                      /\ Mail!Rank(where, m) < Mail!Rank(where, n) => m > n
  BY <1>2, <1>4, <1>5
<1> QED BY <1>1, <1>6, <1>7 DEF S

\* Where a page begins.
LEMMA PageStarts ==
  ASSUME Mail!MailboxAssumption, NEW p \in 1 .. Mail!NumPages
  PROVE  /\ (p - 1) * PageSize \in Nat /\ p * PageSize = (p - 1) * PageSize + PageSize
         /\ (p - 1) * PageSize < MailTop
<1>1. Mail!NumPages \in Nat /\ MailTop \in Nat \ {0} /\ PageSize \in Nat \ {0}
  BY MailConstants
<1>2. p \in Nat \ {0} /\ p <= (MailTop + PageSize - 1) \div PageSize
  BY <1>1 DEF Mail!NumPages
<1> QED BY <1>1, <1>2, BatchBounds

\* Every rank up to Top is on a page.
LEMMA RankHasPage ==
  ASSUME Mail!MailboxAssumption, NEW r \in Nat \ {0}, r <= MailTop
  PROVE  \E p \in 1 .. Mail!NumPages : (p - 1) * PageSize < r /\ r <= p * PageSize
<1>1. Mail!NumPages \in Nat /\ MailTop \in Nat \ {0} /\ PageSize \in Nat \ {0}
  BY MailConstants
<1> DEFINE q == (r + PageSize - 1) \div PageSize
<1>2. q \in Nat /\ q * PageSize \in Nat /\ q * PageSize <= r + PageSize - 1
      /\ r + PageSize - 1 < q * PageSize + PageSize
  <2>1. r + PageSize - 1 \in Nat
    BY <1>1
  <2> QED BY <1>1, <2>1, Quotients
<1> HIDE DEF q
<1>3. q # 0
  <2>1. SUFFICES ASSUME q = 0 PROVE FALSE
    OBVIOUS
  <2>2. q * PageSize = 0
    BY <1>1, <2>1
  <2> QED BY <1>1, <1>2, <2>2
<1>4. /\ (q - 1) * PageSize \in Nat /\ (q - 1) * PageSize + PageSize = q * PageSize
      /\ q > Mail!NumPages => (q - 1) * PageSize >= MailTop
  BY <1>1, <1>2, <1>3, BatchBounds DEF Mail!NumPages
<1>5. (q - 1) * PageSize < r /\ r <= q * PageSize
  BY <1>1, <1>2, <1>4
<1>6. q <= Mail!NumPages
  BY <1>1, <1>2, <1>4, <1>5
<1> QED BY <1>1, <1>2, <1>3, <1>5, <1>6

\* A page has no more mails than it may.
LEMMA PageCounts ==
  ASSUME Mail!MailboxAssumption, NEW where \in Mail!Inboxes, NEW p \in 1 .. Mail!NumPages
  PROVE  /\ Mail!Filtered(Mail!PageOf(where, p)) \in SUBSET Mail!Mails
         /\ Cardinality(Mail!Filtered(Mail!PageOf(where, p))) <= PageSize
         /\ Cardinality(Mail!Filtered(Mail!PageOf(where, p))) <= MailTop - (p - 1) * PageSize
<1> DEFINE S == Mail!PageOf(where, p)
           from == (p - 1) * PageSize
           to == IF from + PageSize <= MailTop THEN from + PageSize ELSE MailTop
           T == (from + 1) .. to
           rank == [m \in S |-> Mail!Rank(where, m)]
<1>1. MailTop \in Nat \ {0} /\ PageSize \in Nat \ {0}
  BY MailConstants
<1>2. from \in Nat /\ p * PageSize = from + PageSize /\ from < MailTop
  BY PageStarts
<1>3. S \subseteq Mail!InboxOf(where) /\ Mail!InboxOf(where) \subseteq Mail!Mails
  BY DEF Mail!PageOf, Mail!Newest, Mail!InboxOf
<1>4. \A m \in S : /\ Mail!Rank(where, m) > from /\ Mail!Rank(where, m) <= p * PageSize
                   /\ Mail!Rank(where, m) <= MailTop
  BY DEF Mail!PageOf, Mail!Newest
<1> HIDE DEF S, from
<1>5. IsFiniteSet(S) /\ IsFiniteSet(Mail!InboxOf(where))
  BY <1>3, MailRanks, FS_Subset
<1>6. rank \in Injection(S, T)
  <2>1. \A m \in S : Mail!Rank(where, m) \in Nat \ {0}
    BY <1>3, MailRanks
  <2>2. \A m \in S : Mail!Rank(where, m) \in T
    BY <1>1, <1>2, <1>4, <2>1
  <2>3. \A m, n \in S : rank[m] = rank[n] => m = n
    BY <1>3, MailRanks
  <2> QED BY <2>2, <2>3 DEF Injection, IsInjective
<1>7. to \in Nat /\ from < to /\ to - from <= PageSize /\ to - from <= MailTop - from
  BY <1>1, <1>2
<1>8. IsFiniteSet(T) /\ Cardinality(T) = to - from
  <2> HIDE DEF to
  <2>1. from + 1 \in Int /\ to \in Int /\ from + 1 <= to
    BY <1>2, <1>7
  <2>2. IsFiniteSet(T) /\ Cardinality(T) = to - (from + 1) + 1
    BY <2>1, FS_Interval
  <2> QED BY <1>2, <1>7, <2>2
<1>9. Cardinality(S) <= to - from
  <2> HIDE DEF rank, T
  <2> QED BY <1>6, <1>8, FS_Injection
<1>10. Mail!Filtered(S) \subseteq S
  BY DEF Mail!Filtered
<1>11. Cardinality(Mail!Filtered(S)) <= Cardinality(S) /\ Cardinality(Mail!Filtered(S)) \in Nat
       /\ Cardinality(S) \in Nat
  BY <1>5, <1>10, FS_Subset, FS_CardinalityType
<1>12. Cardinality(Mail!Filtered(S)) <= PageSize /\ Cardinality(Mail!Filtered(S)) <= MailTop - from
  BY <1>1, <1>2, <1>7, <1>9, <1>11
<1> QED BY <1>3, <1>10, <1>12 DEF S, from

\* All pages of a query together have no more mails than were asked for.
LEMMA PagesCount ==
  ASSUME Mail!MailboxAssumption, NEW pages \in [1 .. Mail!NumPages -> [mails : SUBSET Mail!Mails, failed : BOOLEAN]],
         \A p \in 1 .. Mail!NumPages : /\ Cardinality(pages[p].mails) <= PageSize
                                       /\ Cardinality(pages[p].mails) <= MailTop - (p - 1) * PageSize
  PROVE  Cardinality(Mail!Shown(pages)) <= MailTop
<1> DEFINE First(k) == UNION {pages[p].mails : p \in 1 .. k}
           T == {k \in Nat : k <= Mail!NumPages =>
                   /\ Cardinality(First(k)) <= k * PageSize /\ Cardinality(First(k)) <= MailTop}
<1>1. Mail!NumPages \in Nat /\ MailTop \in Nat \ {0} /\ PageSize \in Nat \ {0}
  BY MailConstants
<1>2. \A p \in 1 .. Mail!NumPages : pages[p].mails \subseteq Mail!Mails
  OBVIOUS
<1>3. 0 \in T
  <2>1. First(0) = {} /\ 0 * PageSize = 0
    BY <1>1
  <2>2. Cardinality(First(0)) = 0
    BY <2>1, FS_EmptySet
  <2> HIDE DEF First
  <2> QED BY <1>1, <2>1, <2>2
<1>4. ASSUME NEW k \in T PROVE k + 1 \in T
  <2>1. SUFFICES ASSUME k + 1 <= Mail!NumPages
                 PROVE  /\ Cardinality(First(k + 1)) <= (k + 1) * PageSize
                        /\ Cardinality(First(k + 1)) <= MailTop
    OBVIOUS
  <2>2. Cardinality(First(k)) <= k * PageSize /\ k \in Nat /\ k + 1 \in 1 .. Mail!NumPages
    BY <1>1, <2>1
  <2> DEFINE M == pages[k + 1].mails
  <2>3. First(k + 1) = First(k) \cup M
    <3>1. \A p \in 1 .. (k + 1) : p \in 1 .. k \/ p = k + 1
      BY <2>2
    <3>2. 1 .. k \subseteq 1 .. (k + 1) /\ k + 1 \in 1 .. (k + 1)
      BY <2>2
    <3> QED BY <3>1, <3>2
  <2>4. First(k) \subseteq Mail!Mails /\ M \subseteq Mail!Mails
    <3>1. \A p \in 1 .. k : p \in 1 .. Mail!NumPages
      BY <1>1, <2>2
    <3> QED BY <1>2, <2>2, <3>1
  <2>5. Cardinality(M) <= PageSize /\ Cardinality(M) <= MailTop - k * PageSize
    <3>1. (k + 1) - 1 = k
      BY <2>2
    <3> QED BY <2>2, <3>1
  <2>6. k * PageSize \in Nat /\ (k + 1) * PageSize = k * PageSize + PageSize
    BY <1>1, <2>2, Multiples
  <2> HIDE DEF First, M
  <2>7. IsFiniteSet(First(k)) /\ IsFiniteSet(M) /\ IsFiniteSet(First(k) \cap M)
    BY <2>4, MailConstants, FS_Subset
  <2>8. Cardinality(First(k + 1)) = Cardinality(First(k)) + Cardinality(M) - Cardinality(First(k) \cap M)
    BY <2>3, <2>7, FS_Union
  <2>9. Cardinality(First(k)) \in Nat /\ Cardinality(M) \in Nat /\ Cardinality(First(k) \cap M) \in Nat
    BY <2>7, FS_CardinalityType
  <2> QED BY <1>1, <2>2, <2>5, <2>6, <2>8, <2>9
<1> HIDE DEF T
<1>5. T = Nat
  <2>1. T \subseteq Nat
    BY DEF T
  <2> QED BY <1>3, <1>4, <2>1, Numbers
<1>6. Cardinality(First(Mail!NumPages)) <= MailTop
  <2>1. Mail!NumPages \in T
    BY <1>1, <1>5
  <2> HIDE DEF First
  <2> QED BY <1>1, <2>1 DEF T
<1>7. Mail!Shown(pages) = First(Mail!NumPages)
  BY DEF Mail!Shown
<1> QED BY <1>6, <1>7

\* The mails of the pages, joined: each once, in the order of the pages.
LEMMA JoinedOnce ==
  ASSUME Mail!MailboxAssumption, NEW N \in Nat, NEW pages, DOMAIN pages = 1 .. N,
         \A p \in 1 .. N : pages[p].mails \subseteq Mail!Mails
  PROVE  LET joint == Mail!Joined(pages) IN
         /\ joint \in Seq(Mail!Mails) /\ Len(joint) = Cardinality(Mail!Shown(pages))
         /\ Mail!IsInjective(joint) /\ Mail!ToSet(joint) = Mail!Shown(pages)
         /\ \A i, j \in DOMAIN joint : i < j => /\ Mail!Earlier(pages, joint[i], joint[j])
                                                /\ joint[i] # joint[j]
<1> DEFINE S == Mail!Shown(pages)
           U == [m \in S |-> {n \in S : Mail!Earlier(pages, n, m)}]
           f == Mail!Joined(pages)
           F == [m \in S |-> CHOOSE p \in 1 .. N : /\ m \in pages[p].mails
                                                   /\ \A q \in 1 .. N : m \in pages[q].mails => p <= q]
<1>1. S \subseteq Mail!Mails /\ IsFiniteSet(S) /\ Mail!Mails \subseteq Nat
  <2>1. S \subseteq Mail!Mails
    BY DEF Mail!Shown
  <2>2. Mail!Mails \subseteq Nat
    BY MailConstants DEF Mail!Mails
  <2> QED BY <2>1, <2>2, MailConstants, FS_Subset
<1>2. ASSUME NEW m \in S
      PROVE  /\ F[m] \in 1 .. N /\ m \in pages[F[m]].mails
             /\ \A q \in 1 .. N : m \in pages[q].mails => F[m] <= q
  <2> DEFINE P == {p \in 1 .. N : m \in pages[p].mails}
  <2>1. P \in SUBSET Nat /\ P # {}
    BY DEF Mail!Shown
  <2>2. \E p \in P : \A q \in P : p <= q
    <3> HIDE DEF P
    <3> QED BY <2>1, LeastExists
  <2>3. \E p \in 1 .. N : m \in pages[p].mails /\ \A q \in 1 .. N : m \in pages[q].mails => p <= q
    BY <2>2
  <2> QED BY <2>3
<1> HIDE DEF S, F
<1>3. ASSUME NEW m \in S, NEW n \in S
      PROVE  Mail!Earlier(pages, m, n) <=> F[m] < F[n] \/ (F[m] = F[n] /\ m >= n)
  <2> DEFINE a == F[m]
             b == F[n]
  <2>1. /\ a \in 1 .. N /\ m \in pages[a].mails /\ \A q \in 1 .. N : m \in pages[q].mails => a <= q
        /\ b \in 1 .. N /\ n \in pages[b].mails /\ \A q \in 1 .. N : n \in pages[q].mails => b <= q
    BY <1>2
  <2> HIDE DEF a, b
  <2>2. ASSUME Mail!Earlier(pages, m, n) PROVE a < b \/ (a = b /\ m >= n)
    <3>1. PICK p \in 1 .. N : /\ m \in pages[p].mails /\ n \notin UNION {pages[q].mails : q \in 1 .. (p - 1)}
                              /\ n \in pages[p].mails => m >= n
      BY <2>2 DEF Mail!Earlier
    <3>2. \A q \in 1 .. (p - 1) : n \notin pages[q].mails
      BY <3>1
    <3>3. b \notin 1 .. (p - 1)
      BY <2>1, <3>2
    <3>4. a <= p /\ p <= b
      BY <2>1, <3>1, <3>3
    <3> QED BY <2>1, <3>1, <3>4
  <2>3. ASSUME a < b \/ (a = b /\ m >= n) PROVE Mail!Earlier(pages, m, n)
    <3>1. \A q \in 1 .. (a - 1) : n \notin pages[q].mails
      BY <2>1, <2>3
    <3>2. n \in pages[a].mails => m >= n
      BY <2>1, <2>3
    <3> QED BY <2>1, <3>1, <3>2 DEF Mail!Earlier
  <2> QED BY <2>2, <2>3 DEF a, b
<1>4. InOrder(S, U)
  <2>1. \A x \in S : x \in Nat /\ F[x] \in Nat
    <3>1. ASSUME NEW x \in S PROVE x \in Nat /\ F[x] \in Nat
      <4>1. F[x] \in 1 .. N
        BY <1>2
      <4> QED BY <1>1, <4>1
    <3> QED BY <3>1
  <2>2. \A x, y \in S : x \in U[y] <=> F[x] < F[y] \/ (F[x] = F[y] /\ x >= y)
    BY <1>3
  <2>3. U \in [S -> SUBSET S]
    OBVIOUS
  <2> HIDE DEF U
  <2>4. \A x \in S : x \in U[x]
    BY <2>1, <2>2
  <2>5. ASSUME NEW x \in S, NEW y \in S, x # y
        PROVE  \/ x \in U[y] /\ y \notin U[x] /\ U[x] \subseteq U[y]
               \/ y \in U[x] /\ x \notin U[y] /\ U[y] \subseteq U[x]
    <3>1. CASE F[x] < F[y] \/ (F[x] = F[y] /\ x >= y)
      <4>1. x \in U[y] /\ y \notin U[x]
        BY <2>1, <2>2, <2>5, <3>1
      <4>2. ASSUME NEW z \in U[x] PROVE z \in U[y]
        <5>1. z \in S
          BY <2>3
        <5> QED BY <2>1, <2>2, <3>1, <5>1
      <4> QED BY <4>1, <4>2
    <3>2. CASE ~(F[x] < F[y] \/ (F[x] = F[y] /\ x >= y))
      <4>1. F[y] < F[x] \/ (F[y] = F[x] /\ y >= x)
        BY <2>1, <3>2
      <4>2. y \in U[x] /\ x \notin U[y]
        BY <2>2, <3>2, <4>1
      <4>3. ASSUME NEW z \in U[y] PROVE z \in U[x]
        <5>1. z \in S
          BY <2>3
        <5> QED BY <2>1, <2>2, <4>1, <5>1
      <4> QED BY <4>2, <4>3
    <3> QED BY <3>1, <3>2
  <2> QED BY <1>1, <2>3, <2>4, <2>5 DEF InOrder
<1>5. /\ Cardinality(S) \in Nat
      /\ \A k \in 1 .. Cardinality(S) : \E m \in S : Cardinality(U[m]) = k
  <2> HIDE DEF U
  <2> QED BY <1>4, Ranks
<1>13. f = [j \in 1 .. Cardinality(S) |->
              CHOOSE m \in S : Mail!Cardinality({n \in S : Mail!Earlier(pages, n, m)}) = j]
  <2>1. f = [j \in 1 .. Mail!Cardinality(S) |->
               CHOOSE m \in S : Mail!Cardinality({n \in S : Mail!Earlier(pages, n, m)}) = j]
    BY DEF Mail!Joined, S
  <2>2. Mail!Cardinality(S) = Cardinality(S)
    BY MailCounts
  <2> HIDE DEF f
  <2> QED BY <2>1, <2>2
<1>6. ASSUME NEW k \in 1 .. Cardinality(S) PROVE f[k] \in S /\ Cardinality(U[f[k]]) = k
  <2>1. PICK x \in S : Cardinality(U[x]) = k
    BY <1>5
  <2>2. \A m \in S : Mail!Cardinality({n \in S : Mail!Earlier(pages, n, m)}) = Cardinality(U[m])
    BY MailCounts
  <2>3. f[k] = CHOOSE m \in S : Mail!Cardinality({n \in S : Mail!Earlier(pages, n, m)}) = k
    <3> HIDE DEF f
    <3> QED BY <1>13
  <2> HIDE DEF U, f
  <2> QED BY <2>1, <2>2, <2>3
<1>7. f \in [1 .. Cardinality(S) -> S]
  <2> HIDE DEF f
  <2> QED BY <1>6, <1>13
<1> HIDE DEF f
<1>8. /\ Cardinality(S) \in Nat /\ f \in Seq(S)
      /\ Len(f) = Cardinality(S) /\ DOMAIN f = 1 .. Cardinality(S)
      /\ \A i, j \in 1 .. Cardinality(S) : f[i] = f[j] => i = j
      /\ \A x \in S : \E k \in 1 .. Cardinality(S) : f[k] = x
      /\ \A i, j \in 1 .. Cardinality(S) : i < j => f[i] \in U[f[j]] /\ f[i] # f[j]
  <2> HIDE DEF U
  <2>1. Ranked(S, U, f)
    BY <1>6, <1>7 DEF Ranked
  <2>2. Listed(S, U, f)
    BY <1>4, <2>1, RankedSequence
  <2> QED BY <2>2 DEF Listed
<1>9. \A i, j \in DOMAIN f : i < j => Mail!Earlier(pages, f[i], f[j]) /\ f[i] # f[j]
  <2>1. \A i, j \in 1 .. Cardinality(S) : i < j => f[i] \in U[f[j]] /\ f[j] \in S /\ f[i] # f[j]
    BY <1>6, <1>8
  <2> QED BY <1>8, <2>1
<1>10. f \in Seq(Mail!Mails)
  <2>1. f \in [1 .. Cardinality(S) -> Mail!Mails]
    BY <1>1, <1>7
  <2> QED BY <1>5, <2>1
<1>11. Mail!IsInjective(f)
  BY <1>8, MailCounts
<1>12. Mail!ToSet(f) = S
  <2>1. {f[i] : i \in DOMAIN f} = S
    BY <1>6, <1>8
  <2> QED BY <2>1, MailCounts
<1> QED BY <1>8, <1>9, <1>10, <1>11, <1>12 DEF S, f

\* The pages of an inbox that stays as it is: together its newest mails, in their order.
LEMMA PagesShowInbox ==
  ASSUME Mail!MailboxAssumption, NEW where \in Mail!Inboxes, NEW pages, DOMAIN pages = 1 .. Mail!NumPages,
         \A p \in 1 .. Mail!NumPages : pages[p].mails = Mail!Filtered(Mail!PageOf(where, p))
  PROVE  /\ Mail!Shown(pages) = Mail!Filtered(Mail!Newest(where, MailTop))
         /\ \A m, n \in Mail!Shown(pages) : Mail!Earlier(pages, m, n) /\ m # n => m > n
<1>1. Mail!NumPages \in Nat /\ MailTop \in Nat \ {0} /\ PageSize \in Nat \ {0}
  BY MailConstants
<1>2. ASSUME NEW m \in Mail!Newest(where, MailTop)
      PROVE  \E p \in 1 .. Mail!NumPages : m \in Mail!PageOf(where, p)
  <2>1. m \in Mail!InboxOf(where) /\ Mail!Rank(where, m) <= MailTop
    BY DEF Mail!Newest
  <2>2. Mail!Rank(where, m) \in Nat \ {0}
    BY <2>1, MailRanks
  <2>3. PICK p \in 1 .. Mail!NumPages :
          (p - 1) * PageSize < Mail!Rank(where, m) /\ Mail!Rank(where, m) <= p * PageSize
    BY <2>1, <2>2, RankHasPage
  <2>4. (p - 1) * PageSize \in Nat /\ p * PageSize \in Nat
    BY <1>1, PageStarts
  <2>5. Mail!Rank(where, m) > (p - 1) * PageSize
    BY <2>2, <2>3, <2>4
  <2> QED BY <2>3, <2>5 DEF Mail!PageOf
<1>3. \A p \in 1 .. Mail!NumPages : Mail!PageOf(where, p) \subseteq Mail!Newest(where, MailTop)
  BY DEF Mail!PageOf
<1>4. Mail!Shown(pages) = Mail!Filtered(Mail!Newest(where, MailTop))
  BY <1>2, <1>3 DEF Mail!Shown, Mail!Filtered
<1>5. ASSUME NEW m \in Mail!Shown(pages), NEW n \in Mail!Shown(pages), Mail!Earlier(pages, m, n), m # n
      PROVE  m > n
  <2>1. PICK p \in 1 .. Mail!NumPages :
          /\ m \in pages[p].mails /\ n \notin UNION {pages[q].mails : q \in 1 .. (p - 1)}
          /\ n \in pages[p].mails => m >= n
    BY <1>5 DEF Mail!Earlier
  <2>2. /\ m \in Mail!Newest(where, MailTop) /\ n \in Mail!Newest(where, MailTop)
        /\ m \in Mail!PageOf(where, p)
    BY <1>4, <2>1 DEF Mail!Filtered
  <2>3. /\ m \in Mail!InboxOf(where) /\ n \in Mail!InboxOf(where) /\ m \in Mail!Mails /\ n \in Mail!Mails
        /\ Mail!Rank(where, m) <= p * PageSize
    BY <2>2 DEF Mail!Newest, Mail!PageOf, Mail!InboxOf
  <2>4. m \in Nat /\ n \in Nat
    BY <2>3, MailConstants DEF Mail!Mails
  <2>5. CASE n \in pages[p].mails
    BY <1>5, <2>1, <2>4, <2>5
  <2>6. CASE n \notin pages[p].mails
    <3>1. PICK q \in 1 .. Mail!NumPages : n \in pages[q].mails
      BY DEF Mail!Shown
    <3>2. q \notin 1 .. (p - 1) /\ q # p
      BY <2>1, <2>6, <3>1
    <3>3. p <= q - 1 /\ p \in Nat /\ q - 1 \in Nat
      BY <1>1, <3>2
    <3>4. p * PageSize <= (q - 1) * PageSize /\ p * PageSize \in Nat /\ (q - 1) * PageSize \in Nat
      BY <1>1, <3>3, Multiples
    <3>5. Mail!Rank(where, n) > (q - 1) * PageSize
      BY <3>1 DEF Mail!PageOf, Mail!Filtered
    <3>6. Mail!Rank(where, m) \in Nat /\ Mail!Rank(where, n) \in Nat
      BY <2>3, MailRanks
    <3>7. Mail!Rank(where, m) < Mail!Rank(where, n)
      BY <2>3, <3>4, <3>5, <3>6
    <3> QED BY <2>3, <3>7, MailRanks
  <2> QED BY <2>5, <2>6
<1> QED BY <1>4, <1>5

-----------------------------------------------------------------------------
(* Queries.                                                                          *)

\* What is known of a call that is at a query or a search.
LEMMA QuerierTold ==
  ASSUME NEW c, NEW call, mailCall'[c] = call, call.op \in {"query", "search"},
         call.pc \in {"paging", "attachments", "done"}, call.asked # {} => call.pc = "paging",
         call.pc # "done" => call.op = "query", c \notin sent', QueryTold(c)'
  PROVE  MailTold(c)'
BY DEF MailTold, StepsTold, WriteTold, BatchTold, Mail!Writing, Mail!Reading, Mail!Changing

\* Where a call is that begins, ...
LEMMA AtStart ==
  ASSUME Mail!MailboxAssumption, MailInv, NEW c \in MailCalls, mailCall[c].pc = "idle"
  PROVE  mailCall[c] = Mail!IdleMail /\ mailCall[c] \in Mail!CallStates /\ c \notin sent
<1>1. mailCall[c] \in Mail!CallStates /\ StepsTold(c) /\ WriteTold(c)
  BY MailParts DEF MailTold
<1>2. mailCall[c] = Mail!IdleMail
  BY <1>1 DEF StepsTold
<1> QED BY <1>1, <1>2 DEF WriteTold, Mail!IdleMail, Mail!Writing

\* ... and of one that is at the pages of a query.
LEMMA AtPages ==
  ASSUME Mail!MailboxAssumption, MailInv, NEW c \in MailCalls, mailCall[c].pc = "paging"
  PROVE  /\ mailCall[c] \in Mail!CallStates /\ mailCall[c].op = "query" /\ c \notin sent
         /\ mailCall[c].before \in Mail!Inboxes /\ Later(mailCall[c].before, place)
         /\ \A p \in 1 .. Mail!NumPages : PageTold(mailCall[c], place, p)
         /\ IsFiniteSet(mailCall[c].asked) /\ Cardinality(mailCall[c].asked) <= MaxConcurrent
         /\ Cardinality(mailCall[c].asked) \in Nat
<1>1. mailCall[c] \in Mail!CallStates /\ StepsTold(c) /\ WriteTold(c) /\ QueryTold(c)
  BY MailParts DEF MailTold
<1>2. mailCall[c].op = "query"
  BY <1>1 DEF StepsTold
<1>3. c \notin sent
  BY <1>1, <1>2 DEF WriteTold, Mail!Writing
<1>4. /\ mailCall[c].before \in Mail!Inboxes /\ Later(mailCall[c].before, place)
      /\ \A p \in 1 .. Mail!NumPages : PageTold(mailCall[c], place, p)
  BY <1>1, <1>2 DEF QueryTold
<1>5. IsFiniteSet(mailCall[c].asked) /\ Cardinality(mailCall[c].asked) \in Nat
  <2>1. mailCall[c].asked \in SUBSET (1 .. Mail!NumPages)
    BY <1>1 DEF Mail!CallStates
  <2>2. IsFiniteSet(1 .. Mail!NumPages)
    <3>1. 1 \in Int /\ Mail!NumPages \in Int
      BY MailConstants
    <3> QED BY <3>1, FS_Interval
  <2> QED BY <2>1, <2>2, FS_Subset, FS_CardinalityType
<1>6. Cardinality(mailCall[c].asked) <= MaxConcurrent
  BY MailCounts DEF MailInv, Mail!MailTypeOK
<1> QED BY <1>1, <1>2, <1>3, <1>4, <1>5, <1>6

LEMMA QueryBegun ==
  ASSUME Mail!MailboxAssumption, MailInv, NEW c \in MailCalls, Mail!BeginQuery(c)
  PROVE  MailInv'
<1>1. mailCall[c].pc = "idle" /\ UNCHANGED <<place, applied, sent>>
  BY DEF Mail!BeginQuery, Mail!At
<1>2. mailCall[c] = Mail!IdleMail /\ mailCall[c] \in Mail!CallStates /\ c \notin sent
  BY <1>1, AtStart
<1>3. PICK attach \in BOOLEAN :
        Mail!Put(c, [mailCall[c] EXCEPT !.op = "query", !.pc = "paging", !.attach = attach, !.before = place])
  BY DEF Mail!BeginQuery
<1> DEFINE call == [mailCall[c] EXCEPT !.op = "query", !.pc = "paging", !.attach = attach, !.before = place]
<1>4. place \in Mail!Inboxes
  BY MailParts
<1>5. call \in Mail!CallStates
  BY <1>2, <1>4 DEF Mail!CallStates
<1>6. /\ call.op = "query" /\ call.asked = {} /\ call.pc = "paging" /\ call.next = 1
      /\ call.pages = Mail!NoPages /\ call.before = place
  BY <1>2 DEF Mail!IdleMail
<1>7. Mail!Put(c, call)
  BY <1>3
<1> HIDE DEF call
<1>8. ASSUME NEW p \in 1 .. Mail!NumPages PROVE PageTold(call, place, p)
  <2>1. (p - 1) * PageSize \in Nat /\ (p - 1) * PageSize < MailTop /\ PageSize \in Nat /\ MailTop \in Nat
    BY PageStarts, MailConstants
  <2>2. call.pages[p].mails = {} /\ Cardinality({}) = 0
    BY <1>6, FS_EmptySet DEF Mail!NoPages
  <2>3. ~(p < call.next)
    BY <1>6, MailConstants
  <2> QED BY <2>1, <2>2, <2>3 DEF PageTold
<1>9. ASSUME mailCall'[c] = call PROVE MailTold(c)'
  <2>1. QueryTold(c)'
    BY <1>1, <1>4, <1>6, <1>8, <1>9, InboxStays DEF QueryTold
  <2> QED BY <1>1, <1>2, <1>6, <1>9, <2>1, QuerierTold
<1>10. Cardinality(call.asked) <= MaxConcurrent
  BY <1>6, FS_EmptySet, MailConstants
<1> QED BY <1>1, <1>5, <1>7, <1>9, <1>10, MailMovesAlone

LEMMA PageAsked ==
  ASSUME Mail!MailboxAssumption, MailInv, NEW c \in MailCalls, Mail!AskPage(c)
  PROVE  MailInv'
<1> DEFINE n == mailCall[c].next
           call == [mailCall[c] EXCEPT !.asked = @ \cup {mailCall[c].next}, !.next = @ + 1]
<1>1. /\ mailCall[c].pc = "paging" /\ UNCHANGED <<place, applied, sent>> /\ n <= Mail!NumPages
      /\ Cardinality(mailCall[c].asked) < MaxConcurrent /\ Mail!Put(c, call)
  BY MailCounts DEF Mail!AskPage, Mail!At
<1>2. /\ mailCall[c] \in Mail!CallStates /\ mailCall[c].op = "query" /\ c \notin sent
      /\ mailCall[c].before \in Mail!Inboxes /\ Later(mailCall[c].before, place)
      /\ \A p \in 1 .. Mail!NumPages : PageTold(mailCall[c], place, p)
      /\ IsFiniteSet(mailCall[c].asked) /\ Cardinality(mailCall[c].asked) \in Nat
  BY <1>1, AtPages
<1>3. n \in Nat \ {0} /\ n \in 1 .. Mail!NumPages
  BY <1>1, <1>2, MailConstants DEF Mail!CallStates
<1>4. call \in Mail!CallStates
  <2>1. mailCall[c].asked \cup {n} \in SUBSET (1 .. Mail!NumPages) /\ n + 1 \in Nat \ {0}
    BY <1>2, <1>3 DEF Mail!CallStates
  <2> QED BY <1>2, <2>1 DEF Mail!CallStates
<1>5. /\ call.op = "query" /\ call.asked = mailCall[c].asked \cup {n} /\ call.pc = "paging"
      /\ call.next = n + 1 /\ call.pages = mailCall[c].pages /\ call.before = mailCall[c].before
  BY <1>1, <1>2 DEF Mail!CallStates
<1> HIDE DEF call, n
<1>6. ASSUME NEW p \in 1 .. Mail!NumPages PROVE PageTold(call, place, p)
  <2>1. p < call.next /\ p \notin call.asked => p < mailCall[c].next /\ p \notin mailCall[c].asked
    BY <1>3, <1>5, MailConstants DEF n
  <2> QED BY <1>2, <1>5, <2>1 DEF PageTold
<1>7. ASSUME mailCall'[c] = call PROVE MailTold(c)'
  <2>1. QueryTold(c)'
    BY <1>1, <1>2, <1>5, <1>6, <1>7 DEF QueryTold
  <2> QED BY <1>1, <1>2, <1>5, <1>7, <2>1, QuerierTold
<1>8. Cardinality(call.asked) <= MaxConcurrent
  <2>1. Cardinality(call.asked) \in {Cardinality(mailCall[c].asked), Cardinality(mailCall[c].asked) + 1}
    BY <1>2, <1>5, FS_AddElement
  <2>2. MaxConcurrent \in Nat
    BY MailConstants
  <2> QED BY <1>1, <1>2, <2>1, <2>2
<1> QED BY <1>1, <1>4, <1>7, <1>8, MailMovesAlone

LEMMA PageFetched ==
  ASSUME Mail!MailboxAssumption, MailInv, NEW c \in MailCalls, Mail!FetchPage(c)
  PROVE  MailInv'
<1> DEFINE page(p, works) == [mails |-> IF works THEN Mail!Filtered(Mail!PageOf(place, p)) ELSE {},
                              failed |-> ~works]
<1>1. PICK p \in mailCall[c].asked, works \in BOOLEAN :
        Mail!Put(c, [mailCall[c] EXCEPT !.asked = @ \ {p}, !.pages[p] = page(p, works)])
  BY DEF Mail!FetchPage
<1> DEFINE call == [mailCall[c] EXCEPT !.asked = @ \ {p}, !.pages[p] = page(p, works)]
<1>2. UNCHANGED <<place, applied, sent>> /\ Mail!Put(c, call)
  BY <1>1 DEF Mail!FetchPage
<1>3. mailCall[c].pc = "paging"
  BY <1>1, MailParts DEF MailTold, StepsTold
<1>4. /\ mailCall[c] \in Mail!CallStates /\ mailCall[c].op = "query" /\ c \notin sent
      /\ mailCall[c].before \in Mail!Inboxes /\ Later(mailCall[c].before, place)
      /\ \A q \in 1 .. Mail!NumPages : PageTold(mailCall[c], place, q)
      /\ IsFiniteSet(mailCall[c].asked) /\ Cardinality(mailCall[c].asked) \in Nat
      /\ Cardinality(mailCall[c].asked) <= MaxConcurrent
  BY <1>3, AtPages
<1>5. place \in Mail!Inboxes
  BY MailParts
<1>6. /\ mailCall[c].asked \in SUBSET (1 .. Mail!NumPages) /\ p \in 1 .. Mail!NumPages
      /\ mailCall[c].pages \in [1 .. Mail!NumPages -> [mails : SUBSET Mail!Mails, failed : BOOLEAN]]
  BY <1>1, <1>4 DEF Mail!CallStates
<1>7. /\ Mail!Filtered(Mail!PageOf(place, p)) \in SUBSET Mail!Mails
      /\ Cardinality(Mail!Filtered(Mail!PageOf(place, p))) <= PageSize
      /\ Cardinality(Mail!Filtered(Mail!PageOf(place, p))) <= MailTop - (p - 1) * PageSize
  BY <1>5, <1>6, PageCounts
<1>8. /\ page(p, works) \in [mails : SUBSET Mail!Mails, failed : BOOLEAN]
      /\ page(p, works).mails = (IF works THEN Mail!Filtered(Mail!PageOf(place, p)) ELSE {})
      /\ ~page(p, works).failed => page(p, works).mails = Mail!Filtered(Mail!PageOf(place, p))
  BY <1>1, <1>7
<1> HIDE DEF page
<1>9. call \in Mail!CallStates
  <2>1. [mailCall[c].pages EXCEPT ![p] = page(p, works)]
          \in [1 .. Mail!NumPages -> [mails : SUBSET Mail!Mails, failed : BOOLEAN]]
    BY <1>6, <1>8
  <2> QED BY <1>4, <2>1 DEF Mail!CallStates
<1>10. /\ call.op = "query" /\ call.asked = mailCall[c].asked \ {p} /\ call.pc = "paging"
       /\ call.next = mailCall[c].next /\ call.before = mailCall[c].before
       /\ call.pages = [mailCall[c].pages EXCEPT ![p] = page(p, works)]
  BY <1>3, <1>4 DEF Mail!CallStates
<1> HIDE DEF call
<1>11. call.pages[p] = page(p, works) /\ \A q \in 1 .. Mail!NumPages : q # p => call.pages[q] = mailCall[c].pages[q]
  BY <1>6, <1>10
<1>12. ASSUME NEW q \in 1 .. Mail!NumPages PROVE PageTold(call, place, q)
  <2>1. CASE q # p
    BY <1>4, <1>10, <1>11, <2>1 DEF PageTold
  <2>2. CASE q = p
    <3>1. (p - 1) * PageSize \in Nat /\ (p - 1) * PageSize < MailTop /\ PageSize \in Nat /\ MailTop \in Nat
      BY <1>6, PageStarts, MailConstants
    <3>2. Cardinality({}) = 0
      BY FS_EmptySet
    <3>3. /\ Cardinality(page(p, works).mails) <= PageSize
          /\ Cardinality(page(p, works).mails) <= MailTop - (p - 1) * PageSize
      BY <1>1, <1>7, <1>8, <3>1, <3>2
    <3> QED BY <1>8, <1>11, <2>2, <3>3 DEF PageTold
  <2> QED BY <2>1, <2>2
<1>13. ASSUME mailCall'[c] = call PROVE MailTold(c)'
  <2>1. QueryTold(c)'
    BY <1>2, <1>4, <1>10, <1>12, <1>13 DEF QueryTold
  <2> QED BY <1>2, <1>4, <1>10, <1>13, <2>1, QuerierTold
<1>14. Cardinality(call.asked) <= MaxConcurrent
  <2>1. /\ Cardinality(call.asked) <= Cardinality(mailCall[c].asked)
        /\ Cardinality(call.asked) \in Nat
    BY <1>4, <1>10, FS_Subset, FS_CardinalityType
  <2> QED BY <1>4, <2>1, MailConstants
<1> QED BY <1>2, <1>9, <1>13, <1>14, MailMovesAlone

LEMMA QueryGivenUp ==
  ASSUME Mail!MailboxAssumption, MailInv, NEW c \in MailCalls, Mail!QueryRefused(c)
  PROVE  MailInv'
<1> DEFINE call == [Mail!IdleMail EXCEPT !.op = "query", !.pc = "done", !.status = "refused"]
<1>1. mailCall[c].asked # {} /\ UNCHANGED <<place, applied, sent>> /\ Mail!Put(c, call)
  BY DEF Mail!QueryRefused
<1>2. mailCall[c].pc = "paging"
  BY <1>1, MailParts DEF MailTold, StepsTold
<1>3. c \notin sent
  BY <1>2, AtPages
<1>4. call \in Mail!CallStates
  BY BlankMail DEF Mail!CallStates
<1>5. /\ call.op = "query" /\ call.asked = {} /\ call.pc = "done" /\ call.shown = <<>>
      /\ call.status = "refused"
  BY DEF Mail!IdleMail
<1> HIDE DEF call
<1>6. ASSUME mailCall'[c] = call PROVE MailTold(c)'
  <2>1. Mail!IsInjective(call.shown) /\ Len(call.shown) <= MailTop
    BY <1>5, MailCounts, MailConstants
  <2>2. QueryTold(c)'
    BY <1>5, <1>6, <2>1 DEF QueryTold
  <2> QED BY <1>1, <1>3, <1>5, <1>6, <2>2, QuerierTold
<1>7. Cardinality(call.asked) <= MaxConcurrent
  BY <1>5, FS_EmptySet, MailConstants
<1> QED BY <1>1, <1>4, <1>6, <1>7, MailMovesAlone

LEMMA QueryStatuses ==
  ASSUME NEW pages
  PROVE  /\ Mail!QueryStatus(pages) \in {"success", "partial", "error"}
         /\ Mail!QueryStatus(pages) = "success" => {p \in 1 .. Mail!NumPages : pages[p].failed} = {}
BY DEF Mail!QueryStatus

LEMMA QueryAssembled ==
  ASSUME Mail!MailboxAssumption, MailInv, NEW c \in MailCalls, Mail!Assemble(c)
  PROVE  MailInv'
<1> DEFINE pages == mailCall[c].pages
           mails == Mail!Joined(pages)
           status == Mail!QueryStatus(pages)
           failed == {p \in 1 .. Mail!NumPages : pages[p].failed}
           before == IF place = mailCall[c].before THEN mailCall[c].before ELSE Mail!NoInbox
           pc_ == IF mailCall[c].attach /\ status # "error" /\ mails # <<>> THEN "attachments" ELSE "done"
           call == [mailCall[c] EXCEPT !.shown = mails, !.status = status, !.pages = Mail!NoPages,
                      !.attach = FALSE, !.failed = failed, !.before = before, !.pc = pc_]
<1>1. /\ mailCall[c].pc = "paging" /\ UNCHANGED <<place, applied, sent>>
      /\ mailCall[c].next > Mail!NumPages /\ mailCall[c].asked = {} /\ Mail!Put(c, call)
  BY DEF Mail!Assemble, Mail!At
<1>2. /\ mailCall[c] \in Mail!CallStates /\ mailCall[c].op = "query" /\ c \notin sent
      /\ mailCall[c].before \in Mail!Inboxes
      /\ \A p \in 1 .. Mail!NumPages : PageTold(mailCall[c], place, p)
  BY <1>1, AtPages
<1>3. /\ pages \in [1 .. Mail!NumPages -> [mails : SUBSET Mail!Mails, failed : BOOLEAN]]
      /\ Mail!NumPages \in Nat /\ mailCall[c].next \in Nat
  BY <1>2, MailConstants DEF Mail!CallStates
<1>4. DOMAIN pages = 1 .. Mail!NumPages /\ \A p \in 1 .. Mail!NumPages : pages[p].mails \subseteq Mail!Mails
  BY <1>3
<1>5. /\ mails \in Seq(Mail!Mails) /\ Len(mails) = Cardinality(Mail!Shown(pages))
      /\ Mail!IsInjective(mails) /\ Mail!ToSet(mails) = Mail!Shown(pages)
      /\ \A i, j \in DOMAIN mails : i < j => Mail!Earlier(pages, mails[i], mails[j]) /\ mails[i] # mails[j]
  <2> HIDE DEF pages
  <2> QED BY <1>3, <1>4, JoinedOnce
<1>6. Len(mails) <= MailTop
  <2>1. \A p \in 1 .. Mail!NumPages : /\ Cardinality(pages[p].mails) <= PageSize
                                      /\ Cardinality(pages[p].mails) <= MailTop - (p - 1) * PageSize
    BY <1>2 DEF PageTold
  <2> HIDE DEF pages
  <2>2. Cardinality(Mail!Shown(pages)) <= MailTop
    BY <1>3, <2>1, PagesCount
  <2> QED BY <1>5, <2>2
<1>7. status \in {"success", "partial", "error"} /\ (status = "success" => failed = {})
  BY QueryStatuses
<1>8. ASSUME status = "success", before # Mail!NoInbox
      PROVE  /\ Mail!ToSet(mails) = Mail!Filtered(Mail!Newest(before, MailTop))
             /\ \A i, j \in DOMAIN mails : i < j => mails[i] > mails[j]
  <2>1. before = mailCall[c].before /\ place = mailCall[c].before
    BY <1>8
  <2>2. ASSUME NEW p \in 1 .. Mail!NumPages
        PROVE  pages[p].mails = Mail!Filtered(Mail!PageOf(before, p))
    <3>1. p < mailCall[c].next /\ p \notin mailCall[c].asked /\ ~pages[p].failed
      BY <1>1, <1>3, <1>7, <1>8
    <3>2. PageTold(mailCall[c], place, p)
      BY <1>2
    <3> QED BY <2>1, <3>1, <3>2 DEF PageTold
  <2>3. before \in Mail!Inboxes
    BY <1>2, <2>1
  <2> HIDE DEF pages, before, mails
  <2>4. /\ Mail!Shown(pages) = Mail!Filtered(Mail!Newest(before, MailTop))
        /\ \A m, n \in Mail!Shown(pages) : Mail!Earlier(pages, m, n) /\ m # n => m > n
    BY <1>4, <2>2, <2>3, PagesShowInbox
  <2>5. \A i \in DOMAIN mails : mails[i] \in Mail!Shown(pages)
    BY <1>5, MailCounts
  <2> QED BY <1>5, <2>4, <2>5
<1> HIDE DEF mails, status, before
<1>9. call \in Mail!CallStates
  <2>1. before \in Mail!Inboxes \cup {Mail!NoInbox}
    BY <1>2 DEF before
  <2>2. failed \in SUBSET (Mail!Mails \cup 1 .. Mail!NumPages) /\ pc_ \in {"attachments", "done"}
    OBVIOUS
  <2>3. Mail!NoPages \in [1 .. Mail!NumPages -> [mails : SUBSET Mail!Mails, failed : BOOLEAN]]
    BY DEF Mail!NoPages
  <2> HIDE DEF failed, pc_
  <2> QED BY <1>2, <1>5, <1>7, <2>1, <2>2, <2>3 DEF Mail!CallStates
<1>10. /\ call.op = "query" /\ call.asked = {} /\ call.pc \in {"attachments", "done"} /\ call.shown = mails
       /\ call.status = status /\ call.failed = failed /\ call.before = before
  BY <1>1, <1>2 DEF Mail!CallStates
<1> HIDE DEF call, failed
<1>11. ASSUME mailCall'[c] = call PROVE MailTold(c)'
  <2>1. QueryTold(c)'
    BY <1>5, <1>6, <1>7, <1>8, <1>10, <1>11 DEF QueryTold
  <2> QED BY <1>1, <1>2, <1>10, <1>11, <2>1, QuerierTold
<1>12. Cardinality(call.asked) <= MaxConcurrent
  BY <1>10, FS_EmptySet, MailConstants
<1> QED BY <1>1, <1>9, <1>11, <1>12, MailMovesAlone

LEMMA AttachmentsMade ==
  ASSUME Mail!MailboxAssumption, MailInv, NEW c \in MailCalls, Mail!Attachments(c)
  PROVE  MailInv'
<1>1. mailCall[c].pc = "attachments" /\ UNCHANGED <<place, applied, sent>>
  BY DEF Mail!Attachments, Mail!At
<1>2. /\ mailCall[c] \in Mail!CallStates /\ mailCall[c].op = "query" /\ mailCall[c].asked = {} /\ QueryTold(c)
      /\ WriteTold(c)
  BY <1>1, MailParts DEF MailTold, StepsTold
<1>3. PICK status \in {"partial", mailCall[c].status} :
        Mail!Put(c, [mailCall[c] EXCEPT !.pc = "done", !.status = status])
  BY DEF Mail!Attachments
<1> DEFINE call == [mailCall[c] EXCEPT !.pc = "done", !.status = status]
<1>4. call \in Mail!CallStates
  BY <1>2 DEF Mail!CallStates
<1>5. /\ call.op = "query" /\ call.asked = {} /\ call.pc = "done" /\ call.shown = mailCall[c].shown
      /\ call.status = status /\ call.failed = mailCall[c].failed /\ call.before = mailCall[c].before
  BY <1>2 DEF Mail!CallStates
<1>6. c \notin sent
  BY <1>2 DEF WriteTold, Mail!Writing
<1>7. Mail!Put(c, call)
  BY <1>3
<1> HIDE DEF call
<1>8. ASSUME mailCall'[c] = call PROVE MailTold(c)'
  <2>1. QueryTold(c)'
    BY <1>1, <1>2, <1>3, <1>5, <1>8 DEF QueryTold
  <2> QED BY <1>1, <1>5, <1>6, <1>8, <2>1, QuerierTold
<1>9. Cardinality(call.asked) <= MaxConcurrent
  BY <1>5, FS_EmptySet, MailConstants
<1> QED BY <1>1, <1>4, <1>7, <1>8, <1>9, MailMovesAlone

LEMMA Searched ==
  ASSUME Mail!MailboxAssumption, MailInv, NEW c \in MailCalls, Mail!Search(c)
  PROVE  MailInv'
<1> DEFINE pages == <<[mails |-> Mail!Filtered(Mail!Newest(place, MailTop))]>>
<1>1. mailCall[c].pc = "idle" /\ UNCHANGED <<place, applied, sent>>
  BY DEF Mail!Search, Mail!At
<1>2. mailCall[c] = Mail!IdleMail /\ mailCall[c] \in Mail!CallStates /\ c \notin sent
  BY <1>1, AtStart
<1>3. Mail!Joined(pages) \in Seq(Mail!Mails)
  <2>1. DOMAIN pages = 1 .. 1 /\ \A p \in 1 .. 1 : pages[p].mails = Mail!Filtered(Mail!Newest(place, MailTop))
    OBVIOUS
  <2>2. Mail!Filtered(Mail!Newest(place, MailTop)) \subseteq Mail!Mails
    BY DEF Mail!Filtered, Mail!Newest, Mail!InboxOf
  <2> HIDE DEF pages
  <2>3. \A p \in 1 .. 1 : pages[p].mails \subseteq Mail!Mails
    BY <2>1, <2>2
  <2> QED BY <2>1, <2>3, JoinedOnce
<1>4. PICK shown \in Seq(Mail!Mails), status \in {"success", "error"} :
        Mail!Put(c, [mailCall[c] EXCEPT !.op = "search", !.pc = "done", !.status = status, !.shown = shown])
  <2>1. CASE Mail!Put(c, [mailCall[c] EXCEPT !.op = "search", !.pc = "done", !.status = "success",
                             !.shown = Mail!Joined(pages)])
    BY <1>3, <2>1
  <2>2. CASE Mail!Put(c, [mailCall[c] EXCEPT !.op = "search", !.pc = "done", !.status = "error"])
    <3>1. mailCall[c].shown \in Seq(Mail!Mails)
      BY <1>2 DEF Mail!CallStates
    <3>2. [mailCall[c] EXCEPT !.op = "search", !.pc = "done", !.status = "error"] =
            [mailCall[c] EXCEPT !.op = "search", !.pc = "done", !.status = "error", !.shown = mailCall[c].shown]
      BY <1>2 DEF Mail!CallStates
    <3> QED BY <2>2, <3>1, <3>2
  <2> QED BY <2>1, <2>2 DEF Mail!Search
<1> DEFINE call == [mailCall[c] EXCEPT !.op = "search", !.pc = "done", !.status = status, !.shown = shown]
<1>5. call \in Mail!CallStates
  BY <1>2 DEF Mail!CallStates
<1>6. call.op = "search" /\ call.asked = {} /\ call.pc = "done"
  BY <1>2 DEF Mail!IdleMail
<1>7. Mail!Put(c, call)
  BY <1>4
<1> HIDE DEF call
<1>8. ASSUME mailCall'[c] = call PROVE MailTold(c)'
  <2>1. QueryTold(c)'
    BY <1>6, <1>8 DEF QueryTold
  <2> QED BY <1>1, <1>2, <1>6, <1>8, <2>1, QuerierTold
<1>9. Cardinality(call.asked) <= MaxConcurrent
  BY <1>6, FS_EmptySet, MailConstants
<1> QED BY <1>1, <1>5, <1>7, <1>8, <1>9, MailMovesAlone

-----------------------------------------------------------------------------
LEMMA MailHolds ==
  ASSUME Mail!MailboxAssumption, MailInv, [Mail!MailNext]_mailVars
  PROVE  MailInv'
<1>1. CASE UNCHANGED mailVars
  <2>1. UNCHANGED <<place, applied, sent, mailCall>>
    BY <1>1 DEF mailVars
  <2>2. \A x \in MailCalls : MailTold(x)'
    BY <2>1, MailParts, InboxStays, OtherMailTold
  <2> QED BY <2>1, <2>2 DEF MailInv, Mail!MailTypeOK
<1>2. CASE Mail!OwnerActs
  BY <1>2, OwnersMail
<1>3. ASSUME NEW c \in MailCalls,
             \/ Mail!BeginQuery(c) \/ Mail!AskPage(c) \/ Mail!FetchPage(c) \/ Mail!QueryRefused(c)
             \/ Mail!Assemble(c) \/ Mail!Attachments(c) \/ Mail!Search(c)
             \/ Mail!BeginBatch(c) \/ Mail!PostBatch(c) \/ Mail!BatchAnswered(c) \/ Mail!BatchesDone(c)
             \/ Mail!BeginWrite(c) \/ Mail!PostMail(c) \/ Mail!MailAnswered(c)
      PROVE  MailInv'
  BY <1>3, QueryBegun, PageAsked, PageFetched, QueryGivenUp, QueryAssembled, AttachmentsMade, Searched,
     FirstBatch, BatchSent, BatchAnswers, LastBatch, MailWrites, MailPosted, MailAnswers
<1> QED BY <1>1, <1>2, <1>3 DEF Mail!MailNext

LEMMA MailHeld ==
  ASSUME Mail!MailboxAssumption, MailInv
  PROVE  /\ Mail!MailTypeOK /\ Mail!BatchAnswersAreTrue /\ Mail!AnswersOwnUp
         /\ Mail!QueryShowsTheInbox
<1>1. ASSUME NEW c \in MailCalls, mailCall[c].pc = "done", mailCall[c].op \in Mail!Reading \cup Mail!Changing
      PROVE  \/ Tokenless(c)
             \/ /\ mailCall[c].done \cup mailCall[c].failed = Mail!ToSet(mailCall[c].ids)
                /\ \A m \in mailCall[c].done \cap mailCall[c].failed : Mail!Repeated(mailCall[c].ids, m)
                /\ mailCall[c].op \in Mail!Changing => \A m \in mailCall[c].done : <<c, m>> \in applied
                /\ mailCall[c].op = "fetch" /\ mailCall[c].status = "success" => mailCall[c].failed = {}
  <2>1. BatchTold(c)
    BY MailParts DEF MailTold
  <2>2. mailCall[c].ids \in IdLists /\ (Tokenless(c) \/ mailCall[c].next > Mail!Batches(c))
    BY <1>1, <2>1 DEF BatchTold
  <2> QED BY <1>1, <2>1, <2>2, BatchesOver DEF BatchTold
<1>2. Mail!BatchAnswersAreTrue
  <2>1. ASSUME NEW c \in MailCalls, NEW op \in Mail!Changing, Mail!Done(c, op)
        PROVE  /\ \A m \in mailCall[c].done : <<c, m>> \in applied
               /\ \/ mailCall[c].done \cup mailCall[c].failed = Mail!ToSet(mailCall[c].ids)
                  \/ /\ mailCall[c].done \cup mailCall[c].failed = {}
                     /\ \A m \in Mail!Mails : <<c, m>> \notin applied
               /\ \A m \in mailCall[c].done \cap mailCall[c].failed : Mail!Repeated(mailCall[c].ids, m)
    <3>1. CASE Tokenless(c)
      BY <3>1 DEF Tokenless, Untouched
    <3>2. CASE ~Tokenless(c)
      BY <1>1, <2>1, <3>2 DEF Mail!Done
    <3> QED BY <3>1, <3>2
  <2> QED BY <2>1 DEF Mail!BatchAnswersAreTrue
<1>3. Mail!AnswersOwnUp
  <2>1. ASSUME NEW c \in MailCalls, Mail!Done(c, "fetch"), mailCall[c].status = "success"
        PROVE  mailCall[c].done = Mail!ToSet(mailCall[c].ids)
    BY <1>1, <2>1 DEF Mail!Done, Mail!Reading, Tokenless
  <2>2. ASSUME NEW c \in MailCalls, NEW op \in Mail!Writing, Mail!Done(c, op)
        PROVE  /\ mailCall[c].status = "success" => c \in sent
               /\ mailCall[c].status = "refused" => c \notin sent
    BY <2>2, MailParts DEF Mail!Done, MailTold, WriteTold
  <2> QED BY <2>1, <2>2 DEF Mail!AnswersOwnUp
<1>4. Mail!QueryShowsTheInbox
  BY MailParts DEF Mail!QueryShowsTheInbox, Mail!Done, MailTold, QueryTold
<1> QED BY <1>2, <1>3, <1>4 DEF MailInv

-----------------------------------------------------------------------------
(* The calendar.                                                                     *)

\* An event whose bare times a tool gave has them, by the clock of Korea.
AskedIsKept ==
  \A e \in Events : asked[e] # Nothing =>
    /\ calendar[e] # Nothing
    /\ calendar[e].start = asked[e].start - Korea /\ calendar[e].end = asked[e].end - Korea

AgendaInv == Agenda!CalendarTypeOK /\ AskedIsKept

LEMMA AgendaCounts == \A S : Agenda!Cardinality(S) = Cardinality(S) /\ (Agenda!IsFiniteSet(S) <=> IsFiniteSet(S))
BY DEF Agenda!Cardinality, Cardinality, Agenda!IsFiniteSet, IsFiniteSet

LEMMA AgendaConstants ==
  ASSUME Agenda!CalendarAssumption
  PROVE  /\ MaxClock \in Nat /\ Korea \in Nat /\ EventTop \in Nat \ {0} /\ IsFiniteSet(Events)
         /\ Nothing \notin Events /\ Nothing \notin Subjects /\ Nothing \notin Agenda!Times
         /\ Nothing \notin Agenda!ClockTimes /\ Nothing \notin Agenda!EventFields
         /\ Nothing \notin 0 .. MaxClock
BY AgendaCounts DEF Agenda!CalendarAssumption

\* What an instant a time may be stored as is.
LEMMA InstantsOfTimes ==
  ASSUME Agenda!CalendarAssumption, NEW time \in Agenda!Times
  PROVE  /\ Agenda!InstantOf(time) \in Agenda!Instants
         /\ Agenda!StoredAs(time) \subseteq Agenda!Instants
         /\ time.zone = "bare" => /\ Agenda!InstantOf(time) = time.at - Korea
                                  /\ Agenda!StoredAs(time) = {time.at - Korea}
         /\ time.at \in 0 .. MaxClock /\ time # Nothing
<1>1. time.at \in 0 .. MaxClock /\ time # Nothing
  BY AgendaConstants DEF Agenda!Times
<1>2. time.at - Korea \in -Korea .. MaxClock /\ time.at \in -Korea .. MaxClock
  BY <1>1, AgendaConstants
<1>3. Agenda!InstantOf(time) \in Agenda!Instants
  BY <1>2 DEF Agenda!InstantOf, Agenda!Instants
<1> QED BY <1>1, <1>2, <1>3 DEF Agenda!InstantOf, Agenda!Instants, Agenda!StoredAs

\* What the bare times of an event are after a call.
LEMMA BareTimesAre ==
  ASSUME Agenda!CalendarAssumption, NEW start \in Agenda!Times \cup {Nothing},
         NEW end \in Agenda!Times \cup {Nothing}, NEW old \in Agenda!ClockTimes \cup {Nothing}
  PROVE  /\ Agenda!BareTimes(start, end, old) \in Agenda!ClockTimes \cup {Nothing}
         /\ Agenda!BareTimes(start, end, old) # Nothing =>
              /\ IF start = Nothing THEN old # Nothing /\ Agenda!BareTimes(start, end, old).start = old.start
                 ELSE start.zone = "bare" /\ Agenda!BareTimes(start, end, old).start = start.at
              /\ IF end = Nothing THEN old # Nothing /\ Agenda!BareTimes(start, end, old).end = old.end
                 ELSE end.zone = "bare" /\ Agenda!BareTimes(start, end, old).end = end.at
<1> DEFINE s == IF start = Nothing THEN IF old = Nothing THEN Nothing ELSE old.start
                ELSE IF start.zone = "bare" THEN start.at ELSE Nothing
           t == IF end = Nothing THEN IF old = Nothing THEN Nothing ELSE old.end
                ELSE IF end.zone = "bare" THEN end.at ELSE Nothing
<1>1. Agenda!BareTimes(start, end, old) = IF Nothing \in {s, t} THEN Nothing ELSE [start |-> s, end |-> t]
  BY DEF Agenda!BareTimes
<1>2. s \in (0 .. MaxClock) \cup {Nothing} /\ t \in (0 .. MaxClock) \cup {Nothing}
  BY AgendaConstants DEF Agenda!Times, Agenda!ClockTimes
<1>3. /\ s # Nothing => IF start = Nothing THEN old # Nothing /\ s = old.start
                        ELSE start.zone = "bare" /\ s = start.at
      /\ t # Nothing => IF end = Nothing THEN old # Nothing /\ t = old.end
                        ELSE end.zone = "bare" /\ t = end.at
  OBVIOUS
<1> HIDE DEF s, t
<1>4. CASE Nothing \in {s, t}
  BY <1>1, <1>4
<1>5. CASE Nothing \notin {s, t}
  <2>1. Agenda!BareTimes(start, end, old) = [start |-> s, end |-> t]
    BY <1>1, <1>5
  <2>2. [start |-> s, end |-> t] \in Agenda!ClockTimes
    BY <1>2, <1>5 DEF Agenda!ClockTimes
  <2>3. [start |-> s, end |-> t].start = s /\ [start |-> s, end |-> t].end = t /\ s # Nothing /\ t # Nothing
    BY <1>5
  <2> QED BY <2>1, <2>2, <2>3, <1>3
<1> QED BY <1>4, <1>5

LEMMA AgendaStart == ASSUME Agenda!CalendarInit PROVE AgendaInv
BY DEF Agenda!CalendarInit, AgendaInv, AskedIsKept, Agenda!CalendarTypeOK, Agenda!Booked,
       Agenda!CalendarIdle, Agenda!Answers

\* A call that begins is one of those that can be asked for.
LEMMA AgendaCallsBegin ==
  ASSUME Agenda!CalendarCalled
  PROVE  /\ calendarCall'.pc = "send" /\ calendarCall'.answer = "none" /\ calendarCall.pc = "idle"
         /\ calendarCall' \in Agenda!Views \cup Agenda!Creates \cup Agenda!Updates \cup Agenda!Others
         /\ calendar' = calendar /\ asked' = asked
<1> DEFINE Begun(op, event, subject, start, end) ==
             [pc |-> "send", answer |-> "none", op |-> op, event |-> event,
              subject |-> subject, start |-> start, end |-> end]
           All == Agenda!Views \cup Agenda!Creates \cup Agenda!Updates \cup Agenda!Others
<1> SUFFICES ASSUME NEW op, NEW event, NEW subject, NEW start, NEW end,
                    Agenda!BeginCalendar(op, event, subject, start, end),
                    Begun(op, event, subject, start, end) \in All
             PROVE  /\ calendarCall'.pc = "send" /\ calendarCall'.answer = "none" /\ calendarCall.pc = "idle"
                    /\ calendarCall' \in All /\ calendar' = calendar /\ asked' = asked
  <2>1. Begun("list_events", Nothing, Nothing, Nothing, Nothing) \in All
    BY DEF Agenda!Others
  <2>2. \A e \in Events : /\ Begun("get_event", e, Nothing, Nothing, Nothing) \in All
                          /\ Begun("delete_event", e, Nothing, Nothing, Nothing) \in All
    BY DEF Agenda!Others
  <2>3. \A start, end \in Agenda!Times :
          /\ Begun("calendar_view", Nothing, Nothing, start, end) \in All
          /\ Begun("get_schedule", Nothing, Nothing, start, end) \in All
    BY DEF Agenda!Views
  <2>4. \A start, end \in Agenda!Times, s \in Subjects :
          Begun("create_event", Nothing, s, start, end) \in All
    BY DEF Agenda!Creates
  <2>5. \A e \in Events, s \in Subjects \cup {Nothing}, start, end \in Agenda!Times \cup {Nothing} :
          Begun("update_event", e, s, start, end) \in All
    BY DEF Agenda!Updates
  <2> HIDE DEF Begun, All
  <2> QED BY <2>1, <2>2, <2>3, <2>4, <2>5 DEF Agenda!CalendarCalled, All
<1> QED BY DEF Agenda!BeginCalendar

\* What an answer is.
LEMMA AgendaIdles ==
  ASSUME NEW answer \in Agenda!Answers, NEW events \in SUBSET Events
  PROVE  /\ Agenda!CalendarIdle(answer) \in [pc : {"idle"}, answer : Agenda!Answers, shown : SUBSET Events]
         /\ [Agenda!CalendarIdle(answer) EXCEPT !.shown = events] \in
              [pc : {"idle"}, answer : Agenda!Answers, shown : SUBSET Events]
         /\ Agenda!CalendarIdle(answer).answer = answer
         /\ [Agenda!CalendarIdle(answer) EXCEPT !.shown = events].shown = events
         /\ [Agenda!CalendarIdle(answer) EXCEPT !.shown = events].pc = "idle"
BY DEF Agenda!CalendarIdle

\* What is being sent has what its tool takes.
LEMMA AgendaSends ==
  ASSUME Agenda!CalendarTypeOK, calendarCall.pc = "send"
  PROVE  /\ calendarCall.op \in {"calendar_view", "get_schedule"} =>
              calendarCall.start \in Agenda!Times /\ calendarCall.end \in Agenda!Times
         /\ calendarCall.op = "create_event" =>
              /\ calendarCall.subject \in Subjects
              /\ calendarCall.start \in Agenda!Times /\ calendarCall.end \in Agenda!Times
         /\ calendarCall.op = "update_event" =>
              /\ calendarCall.event \in Events /\ calendarCall.subject \in Subjects \cup {Nothing}
              /\ calendarCall.start \in Agenda!Times \cup {Nothing}
              /\ calendarCall.end \in Agenda!Times \cup {Nothing}
<1>1. calendarCall \in Agenda!Views \cup Agenda!Creates \cup Agenda!Updates \cup Agenda!Others
  BY DEF Agenda!CalendarTypeOK
<1> QED BY <1>1 DEF Agenda!Views, Agenda!Creates, Agenda!Updates, Agenda!Others

\* What Graph makes of the time given for one that was.
SentAs(time, was) == IF time = Nothing THEN {was} ELSE Agenda!StoredAs(time)

\* An update keeps what it was not given.
LEMMA UpdatedIs ==
  ASSUME Agenda!CalendarAssumption, NEW old \in Agenda!EventFields, NEW subject \in Subjects \cup {Nothing},
         NEW start \in Agenda!Times \cup {Nothing}, NEW end \in Agenda!Times \cup {Nothing},
         NEW new \in Agenda!Updated(old, subject, SentAs(start, old.start), SentAs(end, old.end))
  PROVE  /\ new \in Agenda!EventFields
         /\ new.start \in SentAs(start, old.start) /\ new.end \in SentAs(end, old.end)
         /\ new.guests = old.guests
         /\ subject = Nothing => new.subject = old.subject
<1> DEFINE starts == SentAs(start, old.start)
           ends == SentAs(end, old.end)
<1>1. PICK s \in starts, t \in ends : new = Agenda!BodyOf(old, subject, s, t)
  BY DEF Agenda!Updated
<1>2. s \in Agenda!Instants /\ t \in Agenda!Instants
  BY InstantsOfTimes DEF SentAs, Agenda!EventFields
<1>3. /\ new = [subject |-> IF subject = Nothing THEN old.subject ELSE subject,
                start |-> s, end |-> t, guests |-> old.guests]
      /\ old.subject \in Subjects /\ old.guests \in BOOLEAN
  BY <1>1 DEF Agenda!EventFields, Agenda!BodyOf
<1> QED BY <1>1, <1>2, <1>3 DEF Agenda!EventFields

LEMMA BookedAreEvents ==
  ASSUME Agenda!CalendarTypeOK
  PROVE  /\ \A e \in Events : e \in Agenda!Booked <=> calendar[e] # Nothing
         /\ Agenda!Booked \subseteq Events
         /\ \A e \in Agenda!Booked : /\ calendar[e] \in Agenda!EventFields
                                     /\ calendar[e].start \in Agenda!Instants
                                     /\ calendar[e].end \in Agenda!Instants
                                     /\ calendar[e].start < calendar[e].end
BY DEF Agenda!CalendarTypeOK, Agenda!Booked, Agenda!EventFields

\* A calendar in which one event changed.
LEMMA OneEventChanges ==
  ASSUME Agenda!CalendarAssumption, AgendaInv, NEW e \in Events,
         NEW event \in Agenda!EventFields \cup {Nothing},
         NEW times \in Agenda!ClockTimes \cup {Nothing},
         event # Nothing => event.start < event.end,
         times # Nothing => /\ event # Nothing
                            /\ event.start = times.start - Korea /\ event.end = times.end - Korea,
         calendar' = [calendar EXCEPT ![e] = event], asked' = [asked EXCEPT ![e] = times],
         calendarCall' \in [pc : {"idle"}, answer : Agenda!Answers, shown : SUBSET Events]
                            \cup Agenda!Views \cup Agenda!Creates \cup Agenda!Updates \cup Agenda!Others
  PROVE  AgendaInv'
<1>1. calendar \in [Events -> Agenda!EventFields \cup {Nothing}]
      /\ asked \in [Events -> Agenda!ClockTimes \cup {Nothing}]
  BY DEF AgendaInv, Agenda!CalendarTypeOK
<1>2. \A f \in Events : /\ calendar'[f] = IF f = e THEN event ELSE calendar[f]
                        /\ asked'[f] = IF f = e THEN times ELSE asked[f]
  BY <1>1
<1>3. \A f \in Events : calendar'[f] # Nothing => calendar'[f].start < calendar'[f].end
  BY <1>2, BookedAreEvents DEF AgendaInv
<1>4. calendar' \in [Events -> Agenda!EventFields \cup {Nothing}]
      /\ asked' \in [Events -> Agenda!ClockTimes \cup {Nothing}]
  BY <1>1
<1>5. Agenda!CalendarTypeOK'
  BY <1>3, <1>4 DEF Agenda!CalendarTypeOK, Agenda!Booked
<1>6. AskedIsKept'
  BY <1>2 DEF AskedIsKept, AgendaInv
<1> QED BY <1>5, <1>6 DEF AgendaInv

LEMMA AgendaCreates ==
  ASSUME Agenda!CalendarAssumption, AgendaInv, Agenda!CreateEvent
  PROVE  AgendaInv' /\ Agenda!KeepsTheRest /\ calendarCall'.answer \in {"success", "unsure"}
<1>1. PICK e \in Events \ Agenda!Booked, s \in Agenda!StoredAs(calendarCall.start),
           t \in Agenda!StoredAs(calendarCall.end) :
        /\ s < t
        /\ calendar' = [calendar EXCEPT ![e] = [subject |-> calendarCall.subject,
                                                start |-> s, end |-> t, guests |-> FALSE]]
        /\ asked' = [asked EXCEPT ![e] = Agenda!BareTimes(calendarCall.start, calendarCall.end, Nothing)]
  BY DEF Agenda!CreateEvent
<1>2. PICK answer \in {"success", "unsure"} : calendarCall' = Agenda!CalendarIdle(answer)
  BY DEF Agenda!CreateEvent, Agenda!Answered
<1> DEFINE event == [subject |-> calendarCall.subject, start |-> s, end |-> t, guests |-> FALSE]
           times == Agenda!BareTimes(calendarCall.start, calendarCall.end, Nothing)
<1>3. Agenda!CalendarTypeOK /\ calendarCall.pc = "send" /\ calendarCall.op = "create_event"
  BY DEF Agenda!CreateEvent, Agenda!Sending, AgendaInv
<1>4. /\ calendarCall.subject \in Subjects
      /\ calendarCall.start \in Agenda!Times /\ calendarCall.end \in Agenda!Times
  BY <1>3, AgendaSends
<1>5. s \in Agenda!Instants /\ t \in Agenda!Instants
  BY <1>4, InstantsOfTimes
<1>6. /\ event \in Agenda!EventFields /\ event # Nothing
      /\ event.start = s /\ event.end = t
  <2>1. event \in Agenda!EventFields
    BY <1>4, <1>5 DEF Agenda!EventFields
  <2>2. event.start = s /\ event.end = t
    OBVIOUS
  <2> HIDE DEF event
  <2> QED BY <2>1, <2>2, AgendaConstants
<1>7. /\ times \in Agenda!ClockTimes \cup {Nothing}
      /\ times # Nothing => s = times.start - Korea /\ t = times.end - Korea
  <2>1. calendarCall.start # Nothing /\ calendarCall.end # Nothing
    BY <1>4, AgendaConstants
  <2>2. /\ times \in Agenda!ClockTimes \cup {Nothing}
        /\ times # Nothing => /\ calendarCall.start.zone = "bare" /\ times.start = calendarCall.start.at
                              /\ calendarCall.end.zone = "bare" /\ times.end = calendarCall.end.at
    BY <1>4, <2>1, BareTimesAre
  <2> QED BY <1>4, <2>2, InstantsOfTimes
<1>8. calendarCall' \in [pc : {"idle"}, answer : Agenda!Answers, shown : SUBSET Events]
      /\ calendarCall'.answer \in {"success", "unsure"}
  <2>1. answer \in Agenda!Answers
    BY DEF Agenda!Answers
  <2> QED BY <1>2, <2>1, AgendaIdles
<1>9. calendar' = [calendar EXCEPT ![e] = event] /\ asked' = [asked EXCEPT ![e] = times]
  BY <1>1
<1> HIDE DEF event, times
<1>10. AgendaInv'
  <2>1. event \in Agenda!EventFields \cup {Nothing} /\ event.start < event.end
    BY <1>1, <1>6
  <2>2. /\ event # Nothing => event.start < event.end
        /\ times \in Agenda!ClockTimes \cup {Nothing}
        /\ times # Nothing => /\ event # Nothing
                              /\ event.start = times.start - Korea /\ event.end = times.end - Korea
    BY <1>6, <1>7, <2>1
  <2>3. e \in Events
    OBVIOUS
  <2> QED BY <1>8, <1>9, <2>1, <2>2, <2>3, OneEventChanges
<1>11. \A f \in Agenda!Booked : calendar'[f] = calendar[f]
  BY <1>1, <1>3, BookedAreEvents DEF Agenda!CalendarTypeOK
<1> QED BY <1>8, <1>10, <1>11 DEF Agenda!KeepsTheRest

LEMMA AgendaUpdates ==
  ASSUME Agenda!CalendarAssumption, AgendaInv, Agenda!UpdateEvent
  PROVE  AgendaInv' /\ Agenda!KeepsTheRest /\ calendarCall'.answer \in {"success", "unsure"}
<1> DEFINE e == calendarCall.event
           start == calendarCall.start
           end == calendarCall.end
           times == Agenda!BareTimes(start, end, asked[e])
<1>1. PICK answer \in {"success", "unsure"} : calendarCall' = Agenda!CalendarIdle(answer)
  BY DEF Agenda!UpdateEvent, Agenda!Answered
<1>2. Agenda!CalendarTypeOK /\ calendarCall.pc = "send" /\ calendarCall.op = "update_event"
  BY DEF Agenda!UpdateEvent, Agenda!Sending, AgendaInv
<1>3. /\ e \in Agenda!Booked
      /\ \E new \in Agenda!Updated(calendar[e], calendarCall.subject,
                                   SentAs(start, calendar[e].start), SentAs(end, calendar[e].end)) :
           new.start < new.end /\ calendar' = [calendar EXCEPT ![e] = new]
      /\ asked' = [asked EXCEPT ![e] = times]
  <2>1. asked \in [Events -> Agenda!ClockTimes \cup {Nothing}]
    BY <1>2 DEF Agenda!CalendarTypeOK
  <2> QED BY <2>1, Zenon DEF Agenda!UpdateEvent, SentAs
<1>4. /\ e \in Events /\ calendarCall.subject \in Subjects \cup {Nothing}
      /\ start \in Agenda!Times \cup {Nothing} /\ end \in Agenda!Times \cup {Nothing}
  BY <1>2, AgendaSends
<1>5. /\ calendar[e] \in Agenda!EventFields /\ calendar[e] # Nothing
      /\ asked[e] \in Agenda!ClockTimes \cup {Nothing}
      /\ asked[e] # Nothing => /\ calendar[e].start = asked[e].start - Korea
                               /\ calendar[e].end = asked[e].end - Korea
  BY <1>2, <1>3, <1>4, BookedAreEvents DEF AgendaInv, AskedIsKept, Agenda!CalendarTypeOK
<1>6. PICK new \in Agenda!Updated(calendar[e], calendarCall.subject,
                                  SentAs(start, calendar[e].start), SentAs(end, calendar[e].end)) :
        new.start < new.end /\ calendar' = [calendar EXCEPT ![e] = new]
  BY <1>3
<1>7. /\ new \in Agenda!EventFields /\ new # Nothing
      /\ new.start \in SentAs(start, calendar[e].start) /\ new.end \in SentAs(end, calendar[e].end)
      /\ new.guests = calendar[e].guests
      /\ calendarCall.subject = Nothing => new.subject = calendar[e].subject
  <2> DEFINE old == calendar[e]
             subject == calendarCall.subject
  <2>1. /\ old \in Agenda!EventFields /\ subject \in Subjects \cup {Nothing}
        /\ start \in Agenda!Times \cup {Nothing} /\ end \in Agenda!Times \cup {Nothing}
        /\ new \in Agenda!Updated(old, subject, SentAs(start, old.start), SentAs(end, old.end))
    BY <1>4, <1>5, <1>6
  <2> HIDE DEF e, start, end, old, subject
  <2>2. /\ new \in Agenda!EventFields
        /\ new.start \in SentAs(start, old.start) /\ new.end \in SentAs(end, old.end)
        /\ new.guests = old.guests
        /\ subject = Nothing => new.subject = old.subject
    BY <2>1, UpdatedIs
  <2>3. new # Nothing
    BY <2>2, AgendaConstants
  <2> QED BY <2>2, <2>3 DEF old, subject
<1>8. /\ times \in Agenda!ClockTimes \cup {Nothing}
      /\ times # Nothing => new.start = times.start - Korea /\ new.end = times.end - Korea
  <2> DEFINE old == asked[e]
  <2>a. old \in Agenda!ClockTimes \cup {Nothing}
    BY <1>5
  <2> HIDE DEF start, end, old
  <2>1. /\ times \in Agenda!ClockTimes \cup {Nothing}
        /\ times # Nothing =>
             /\ IF start = Nothing THEN old # Nothing /\ times.start = old.start
                ELSE start.zone = "bare" /\ times.start = start.at
             /\ IF end = Nothing THEN old # Nothing /\ times.end = old.end
                ELSE end.zone = "bare" /\ times.end = end.at
    BY <1>4, <2>a, BareTimesAre DEF old
  <2>2. ASSUME times # Nothing PROVE new.start = times.start - Korea
    BY <1>4, <1>5, <1>7, <2>1, <2>2, InstantsOfTimes DEF SentAs, old
  <2>3. ASSUME times # Nothing PROVE new.end = times.end - Korea
    BY <1>4, <1>5, <1>7, <2>1, <2>3, InstantsOfTimes DEF SentAs, old
  <2> QED BY <2>1, <2>2, <2>3
<1>9. calendarCall' \in [pc : {"idle"}, answer : Agenda!Answers, shown : SUBSET Events]
      /\ calendarCall'.answer \in {"success", "unsure"}
  <2>1. answer \in Agenda!Answers
    BY DEF Agenda!Answers
  <2> QED BY <1>1, <2>1, AgendaIdles
<1>10. AgendaInv'
  <2> HIDE DEF times, e
  <2> QED BY <1>3, <1>4, <1>6, <1>7, <1>8, <1>9, OneEventChanges
<1>11. /\ \A f \in Agenda!Booked \ {e} : calendar'[f] = calendar[f]
       /\ calendar'[e] = new
  BY <1>2, <1>4, <1>6, BookedAreEvents DEF Agenda!CalendarTypeOK
<1>12. /\ start = Nothing => new.start = calendar[e].start
       /\ end = Nothing => new.end = calendar[e].end
  BY <1>7 DEF SentAs
<1> QED BY <1>2, <1>7, <1>9, <1>10, <1>11, <1>12 DEF Agenda!KeepsTheRest

LEMMA AgendaDeletes ==
  ASSUME Agenda!CalendarAssumption, AgendaInv, Agenda!DeleteEvent
  PROVE  AgendaInv' /\ Agenda!KeepsTheRest /\ calendarCall.op = "delete_event"
<1> DEFINE e == calendarCall.event
<1>1. PICK answer \in {"success", "unsure"} : calendarCall' = Agenda!CalendarIdle(answer)
  BY DEF Agenda!DeleteEvent, Agenda!Answered
<1>2. /\ Agenda!CalendarTypeOK /\ calendarCall.op = "delete_event" /\ e \in Events
      /\ calendar' = [calendar EXCEPT ![e] = Nothing] /\ asked' = [asked EXCEPT ![e] = Nothing]
  BY BookedAreEvents DEF Agenda!DeleteEvent, Agenda!Sending, AgendaInv
<1>3. answer \in Agenda!Answers
  BY DEF Agenda!Answers
<1>4. calendarCall' \in [pc : {"idle"}, answer : Agenda!Answers, shown : SUBSET Events]
  BY <1>1, <1>3, AgendaIdles
<1>5. \A f \in Agenda!Booked \ {e} : calendar'[f] = calendar[f]
  BY <1>2, BookedAreEvents DEF Agenda!CalendarTypeOK
<1> HIDE DEF e
<1>6. AgendaInv'
  BY <1>2, <1>4, OneEventChanges
<1> QED BY <1>2, <1>5, <1>6 DEF Agenda!KeepsTheRest, e

LEMMA OwnersAct ==
  ASSUME Agenda!CalendarAssumption, AgendaInv,
         Agenda!OwnerBooks \/ Agenda!OwnerInvites \/ Agenda!OwnerCancels
  PROVE  AgendaInv' /\ calendarCall' = calendarCall
<1>1. /\ Agenda!CalendarTypeOK /\ calendarCall' = calendarCall
      /\ asked \in [Events -> Agenda!ClockTimes \cup {Nothing}]
      /\ calendarCall' \in [pc : {"idle"}, answer : Agenda!Answers, shown : SUBSET Events]
                            \cup Agenda!Views \cup Agenda!Creates \cup Agenda!Updates \cup Agenda!Others
  BY DEF AgendaInv, Agenda!CalendarTypeOK, Agenda!OwnerBooks, Agenda!OwnerInvites, Agenda!OwnerCancels
<1>2. CASE Agenda!OwnerBooks
  <2>1. PICK e \in Events, s \in Agenda!Instants, t \in Agenda!Instants, subject \in Subjects :
          /\ s < t /\ asked' = [asked EXCEPT ![e] = Nothing]
          /\ calendar' = [calendar EXCEPT ![e] = [subject |-> subject, start |-> s, end |-> t,
                                                  guests |-> FALSE]]
    BY <1>2 DEF Agenda!OwnerBooks
  <2> DEFINE event == [subject |-> subject, start |-> s, end |-> t, guests |-> FALSE]
  <2>2. event \in Agenda!EventFields /\ event.start = s /\ event.end = t
    BY DEF Agenda!EventFields
  <2>3. calendar' = [calendar EXCEPT ![e] = event]
    BY <2>1
  <2> HIDE DEF event
  <2> QED BY <1>1, <2>1, <2>2, <2>3, OneEventChanges
<1>3. CASE Agenda!OwnerInvites
  <2>1. PICK e \in Agenda!Booked : calendar' = [calendar EXCEPT ![e].guests = TRUE]
    BY <1>3 DEF Agenda!OwnerInvites
  <2> DEFINE event == [calendar[e] EXCEPT !.guests = TRUE]
  <2>2. /\ e \in Events /\ calendar[e] \in Agenda!EventFields /\ calendar[e] # Nothing
        /\ calendar[e].start < calendar[e].end
    BY <1>1, BookedAreEvents
  <2>3. /\ event \in Agenda!EventFields
        /\ event.start = calendar[e].start /\ event.end = calendar[e].end
    BY <2>2 DEF Agenda!EventFields
  <2>4. calendar' = [calendar EXCEPT ![e] = event]
    BY <2>1
  <2>5. /\ asked' = [asked EXCEPT ![e] = asked[e]]
        /\ asked[e] \in Agenda!ClockTimes \cup {Nothing}
        /\ asked[e] # Nothing => /\ calendar[e].start = asked[e].start - Korea
                                 /\ calendar[e].end = asked[e].end - Korea
    BY <1>1, <1>3, <2>2 DEF Agenda!OwnerInvites, AgendaInv, AskedIsKept
  <2>6. event # Nothing
    <3> HIDE DEF event
    <3> QED BY <2>3, AgendaConstants
  <2> HIDE DEF event
  <2>7. /\ event \in Agenda!EventFields \cup {Nothing}
        /\ event # Nothing => event.start < event.end
        /\ asked[e] # Nothing => /\ event # Nothing
                                 /\ event.start = asked[e].start - Korea
                                 /\ event.end = asked[e].end - Korea
    BY <2>2, <2>3, <2>5, <2>6
  <2> QED BY <1>1, <2>2, <2>4, <2>5, <2>7, OneEventChanges
<1>4. CASE Agenda!OwnerCancels
  <2>1. PICK e \in Agenda!Booked : /\ calendar' = [calendar EXCEPT ![e] = Nothing]
                                   /\ asked' = [asked EXCEPT ![e] = Nothing]
    BY <1>4 DEF Agenda!OwnerCancels
  <2>2. e \in Events
    BY <1>1, BookedAreEvents
  <2> QED BY <1>1, <2>1, <2>2, OneEventChanges
<1> QED BY <1>1, <1>2, <1>3, <1>4

\* An answer that shows some events leaves them as they are.
LEMMA ShowingKeeps ==
  ASSUME AgendaInv, NEW events \in SUBSET Events, Agenda!Shows(events)
  PROVE  /\ AgendaInv' /\ Agenda!KeepsTheRest
         /\ calendarCall'.shown = events /\ calendarCall'.pc = "idle"
<1>1. "success" \in Agenda!Answers
  BY DEF Agenda!Answers
<1>2. /\ calendarCall' = [Agenda!CalendarIdle("success") EXCEPT !.shown = events]
      /\ calendar' = calendar /\ asked' = asked
  BY DEF Agenda!Shows
<1>3. calendarCall' \in [pc : {"idle"}, answer : Agenda!Answers, shown : SUBSET Events]
      /\ calendarCall'.shown = events /\ calendarCall'.pc = "idle"
  BY <1>1, <1>2, AgendaIdles
<1>4. Agenda!CalendarTypeOK'
  BY <1>2, <1>3 DEF AgendaInv, Agenda!CalendarTypeOK, Agenda!Booked
<1>5. AskedIsKept'
  BY <1>2 DEF AgendaInv, AskedIsKept
<1>6. Agenda!KeepsTheRest
  BY <1>2 DEF Agenda!KeepsTheRest
<1> QED BY <1>3, <1>4, <1>5, <1>6 DEF AgendaInv

\* The events of a range given by bare times are those whose bare times meet it.
LEMMA RangesByTheClock ==
  ASSUME Agenda!CalendarAssumption, AgendaInv,
         NEW start \in Agenda!Times, NEW end \in Agenda!Times, start.zone = "bare", end.zone = "bare",
         NEW e \in Events, asked[e] # Nothing
  PROVE  e \in Agenda!During(start.at - Korea, end.at - Korea)
           <=> asked[e].start < end.at /\ asked[e].end > start.at
<1>1. /\ e \in Agenda!Booked /\ calendar[e].start = asked[e].start - Korea
      /\ calendar[e].end = asked[e].end - Korea
  BY BookedAreEvents DEF AgendaInv, AskedIsKept
<1>2. asked[e].start \in 0 .. MaxClock /\ asked[e].end \in 0 .. MaxClock
  BY DEF AgendaInv, Agenda!CalendarTypeOK, Agenda!ClockTimes
<1>3. start.at \in 0 .. MaxClock /\ end.at \in 0 .. MaxClock
  BY InstantsOfTimes
<1>4. /\ calendar[e].start < end.at - Korea <=> asked[e].start < end.at
      /\ calendar[e].end > start.at - Korea <=> asked[e].end > start.at
  BY <1>1, <1>2, <1>3, AgendaConstants
<1> QED BY <1>1, <1>4 DEF Agenda!During

LEMMA AgendaViews ==
  ASSUME Agenda!CalendarAssumption, AgendaInv, Agenda!CalendarView
  PROVE  AgendaInv' /\ Agenda!KeepsTheRest /\ Agenda!BareTimesAgree
<1> DEFINE start == calendarCall.start
           end == calendarCall.end
           events == Agenda!During(Agenda!InstantOf(start), Agenda!InstantOf(end))
<1>1. /\ Agenda!CalendarTypeOK /\ calendarCall.pc = "send" /\ calendarCall.op = "calendar_view"
      /\ start \in Agenda!Times /\ end \in Agenda!Times
  BY AgendaSends DEF AgendaInv, Agenda!CalendarView, Agenda!Sending
<1>2. PICK page \in SUBSET events :
        /\ Cardinality(page) = IF Cardinality(events) < EventTop THEN Cardinality(events) ELSE EventTop
        /\ Agenda!Shows(page)
  BY AgendaCounts DEF Agenda!CalendarView, Agenda!FirstOnes
<1>3. events \subseteq Events /\ IsFiniteSet(events)
  BY <1>1, BookedAreEvents, AgendaConstants, FS_Subset DEF Agenda!During
<1>4. /\ AgendaInv' /\ Agenda!KeepsTheRest
      /\ calendarCall'.shown = page
  <2> HIDE DEF events
  <2> QED BY <1>2, <1>3, ShowingKeeps
<1>5. ASSUME Cardinality(page) # EventTop PROVE page = events
  BY <1>2, <1>3, <1>5, FS_Subset, FS_CardinalityType
<1>6. ASSUME start.zone = "bare", end.zone = "bare", NEW e \in Events, asked[e] # Nothing
      PROVE  /\ e \in page => asked[e].start < end.at /\ asked[e].end > start.at
             /\ (asked[e].start < end.at /\ asked[e].end > start.at) =>
                  e \in page \/ Cardinality(page) = EventTop
  <2>1. events = Agenda!During(start.at - Korea, end.at - Korea)
    BY <1>1, <1>6, InstantsOfTimes
  <2> HIDE DEF start, end, events
  <2>2. e \in events <=> asked[e].start < end.at /\ asked[e].end > start.at
    BY <1>1, <1>6, <2>1, RangesByTheClock
  <2> QED BY <1>5, <2>2
<1>7. Agenda!BareTimesAgree
  <2>1. {start.zone, end.zone} = {"bare"} => start.zone = "bare" /\ end.zone = "bare"
    OBVIOUS
  <2> HIDE DEF start, end, events
  <2> QED BY <1>1, <1>4, <1>6, <2>1, AgendaCounts DEF Agenda!BareTimesAgree, start, end
<1> QED BY <1>4, <1>7

LEMMA AgendaSchedules ==
  ASSUME Agenda!CalendarAssumption, AgendaInv, Agenda!GetSchedule
  PROVE  AgendaInv' /\ Agenda!KeepsTheRest /\ Agenda!BareTimesAgree
<1> DEFINE start == calendarCall.start
           end == calendarCall.end
<1>1. /\ Agenda!CalendarTypeOK /\ calendarCall.pc = "send" /\ calendarCall.op = "get_schedule"
      /\ start \in Agenda!Times /\ end \in Agenda!Times
  BY AgendaSends DEF AgendaInv, Agenda!GetSchedule, Agenda!Sending
<1>2. PICK lo \in Agenda!StoredAs(start), hi \in Agenda!StoredAs(end) :
        Agenda!Shows(Agenda!During(lo, hi))
  BY DEF Agenda!GetSchedule
<1>3. Agenda!During(lo, hi) \subseteq Events
  BY <1>1, BookedAreEvents DEF Agenda!During
<1>4. /\ AgendaInv' /\ Agenda!KeepsTheRest
      /\ calendarCall'.shown = Agenda!During(lo, hi)
  BY <1>2, <1>3, ShowingKeeps
<1>5. ASSUME start.zone = "bare", end.zone = "bare", NEW e \in Events, asked[e] # Nothing
      PROVE  e \in Agenda!During(lo, hi) <=> asked[e].start < end.at /\ asked[e].end > start.at
  <2>1. lo = start.at - Korea /\ hi = end.at - Korea
    BY <1>1, <1>2, <1>5, InstantsOfTimes
  <2> HIDE DEF start, end
  <2> QED BY <1>1, <1>5, <2>1, RangesByTheClock
<1>6. Agenda!BareTimesAgree
  <2>1. {start.zone, end.zone} = {"bare"} => start.zone = "bare" /\ end.zone = "bare"
    OBVIOUS
  <2> HIDE DEF start, end
  <2> QED BY <1>1, <1>4, <1>5, <2>1 DEF Agenda!BareTimesAgree, start, end
<1> QED BY <1>4, <1>6

LEMMA AgendaHolds ==
  ASSUME Agenda!CalendarAssumption, AgendaInv, [Agenda!CalendarNext]_calendarVars
  PROVE  AgendaInv' /\ [Agenda!KeepsTheRest]_vars /\ [Agenda!BareTimesAgree]_vars
<1> DEFINE Goal == AgendaInv' /\ [Agenda!KeepsTheRest]_vars /\ [Agenda!BareTimesAgree]_vars
<1> SUFFICES Goal
  OBVIOUS
<1>0. /\ Agenda!CalendarTypeOK
      /\ Agenda!KeepsTheRest => [Agenda!KeepsTheRest]_vars
      /\ Agenda!BareTimesAgree => [Agenda!BareTimesAgree]_vars
  BY DEF AgendaInv
<1>a. ASSUME AgendaInv', calendarCall' = calendarCall PROVE Goal
  <2>1. Agenda!KeepsTheRest
    BY <1>a DEF Agenda!KeepsTheRest
  <2>2. calendarCall.pc = "send" => calendarCall.answer = "none"
    BY <1>0 DEF Agenda!CalendarTypeOK, Agenda!Views, Agenda!Creates, Agenda!Updates, Agenda!Others
  <2>3. Agenda!BareTimesAgree
    BY <1>a, <2>2 DEF Agenda!BareTimesAgree
  <2> QED BY <1>0, <1>a, <2>1, <2>3
<1>b. ASSUME AgendaInv', Agenda!KeepsTheRest, calendarCall.op \notin {"calendar_view", "get_schedule"}
      PROVE  Goal
  BY <1>0, <1>b DEF Agenda!BareTimesAgree
<1>1. CASE Agenda!CalendarCalled
  <2>1. AgendaInv'
    BY <1>1, AgendaCallsBegin DEF AgendaInv, Agenda!CalendarTypeOK, Agenda!Booked, AskedIsKept
  <2>2. Agenda!KeepsTheRest /\ Agenda!BareTimesAgree
    BY <1>1, AgendaCallsBegin DEF Agenda!KeepsTheRest, Agenda!BareTimesAgree
  <2> QED BY <1>0, <2>1, <2>2
<1>2. CASE Agenda!CalendarFails
  <2>1. PICK answer \in {"refused", "unsure", "no_token"} : calendarCall' = Agenda!CalendarIdle(answer)
    BY <1>2 DEF Agenda!CalendarFails
  <2>2. answer \in Agenda!Answers /\ answer # "success"
    BY DEF Agenda!Answers
  <2>3. calendarCall' \in [pc : {"idle"}, answer : Agenda!Answers, shown : SUBSET Events]
        /\ calendarCall'.answer = answer /\ calendar' = calendar /\ asked' = asked
    BY <1>2, <2>1, <2>2, AgendaIdles DEF Agenda!CalendarFails
  <2>4. AgendaInv'
    BY <2>3 DEF AgendaInv, Agenda!CalendarTypeOK, Agenda!Booked, AskedIsKept
  <2>5. Agenda!KeepsTheRest /\ Agenda!BareTimesAgree
    BY <2>2, <2>3 DEF Agenda!KeepsTheRest, Agenda!BareTimesAgree
  <2> QED BY <1>0, <2>4, <2>5
<1>3. CASE Agenda!CreateEvent
  <2>1. calendarCall.op = "create_event"
    BY <1>3 DEF Agenda!CreateEvent, Agenda!Sending
  <2> QED BY <1>3, <1>b, <2>1, AgendaCreates
<1>4. CASE Agenda!UpdateEvent
  <2>1. calendarCall.op = "update_event"
    BY <1>4 DEF Agenda!UpdateEvent, Agenda!Sending
  <2> QED BY <1>4, <1>b, <2>1, AgendaUpdates
<1>5. CASE Agenda!DeleteEvent
  BY <1>5, <1>b, AgendaDeletes
<1>6. CASE Agenda!CalendarView
  BY <1>6, <1>0, AgendaViews
<1>7. CASE Agenda!GetSchedule
  BY <1>7, <1>0, AgendaSchedules
<1>8. CASE Agenda!ListEvents
  <2>1. PICK page \in SUBSET Agenda!Booked : Agenda!Shows(page)
    BY <1>8 DEF Agenda!ListEvents, Agenda!FirstOnes
  <2>2. page \in SUBSET Events /\ calendarCall.op = "list_events"
    BY <1>0, <1>8, <2>1, BookedAreEvents DEF Agenda!ListEvents, Agenda!Sending
  <2> QED BY <1>b, <2>1, <2>2, ShowingKeeps
<1>9. CASE Agenda!GetEvent
  <2>1. Agenda!Shows({calendarCall.event}) /\ {calendarCall.event} \in SUBSET Events
    BY <1>0, <1>9, BookedAreEvents DEF Agenda!GetEvent
  <2>2. calendarCall.op = "get_event"
    BY <1>9 DEF Agenda!GetEvent, Agenda!Sending
  <2> QED BY <1>b, <2>1, <2>2, ShowingKeeps
<1>10. CASE Agenda!OwnerBooks \/ Agenda!OwnerInvites \/ Agenda!OwnerCancels
  BY <1>10, <1>a, OwnersAct
<1>11. CASE UNCHANGED calendarVars
  <2>1. calendar' = calendar /\ asked' = asked /\ calendarCall' = calendarCall
    BY <1>11 DEF calendarVars
  <2>2. AgendaInv'
    BY <2>1 DEF AgendaInv, Agenda!CalendarTypeOK, Agenda!Booked, AskedIsKept
  <2> QED BY <1>a, <2>1, <2>2
<1> HIDE DEF Goal
<1> QED BY <1>1, <1>2, <1>3, <1>4, <1>5, <1>6, <1>7, <1>8, <1>9, <1>10, <1>11 DEF Agenda!CalendarNext

-----------------------------------------------------------------------------
(* The login.                                                                        *)

\* At most one process has the port.
OnePort == up = {} \/ \E p \in Procs : up = {p}

\* A worker that is to start its process's server, or has started it and will stop it.
Owns(w) == pc[w] = "starting" \/ (pc[w] = "wait" /\ ~mem[w].wasUp)

\* A process has at most one such worker, and takes its server to be running meanwhile.
OwnersAlone ==
    \A w \in Login!Workers : Owns(w) =>
      /\ ProcOf[w] \in site
      /\ \A x \in Login!Workers : Owns(x) /\ ProcOf[x] = ProcOf[w] => x = w

\* A call knows its e-mail from its first step to its end.
CallsNamed == \A v \in Calls : pc[v] \in Login!CallSteps \cup {"answered"} => mem[v].email \in Asked

\* What a call in its locked section has is the lock of its process and e-mail.
HoldsLock == \A v \in Calls : pc[v] \in Login!Inside => lock[Login!LockOf(v)] = v

LoginTyped ==
    /\ row \in [Emails -> Login!TokenRow]
    /\ users \subseteq Emails
    /\ states \subseteq Login!Workers
    /\ waiter \in [Calls \cup Flows -> {"none", "waiting", "failed"} \cup Emails]
    /\ site \subseteq Procs /\ up \subseteq site /\ OnePort
    /\ lock \in [Procs \X Emails -> Calls \cup {Nobody}]
    /\ pc \in [Login!Workers \cup Callbacks -> Login!CallSteps \cup {"idle", "exchange", "answered", "done"}]
    /\ mem \in [Login!Workers \cup Callbacks -> Login!Memory]

LoginInv == LoginTyped /\ OwnersAlone /\ CallsNamed /\ HoldsLock /\ Login!LocksReturned /\ Login!AnswersRequested

-----------------------------------------------------------------------------
(* Types                                                                       *)

\* The typing invariant is TypeOK, whose cardinality the provers do not see through.
LEMMA LoginTypes == LoginTyped => Login!TypeOK
<1> SUFFICES ASSUME LoginTyped PROVE Login!Cardinality(up) <= 1
  BY DEF LoginTyped, Login!TypeOK
<1>a. Login!Cardinality(up) = Cardinality(up)
  BY DEF Login!Cardinality, Cardinality
<1>1. CASE up = {}
  BY <1>a, <1>1, FS_EmptySet
<1>2. CASE \E p \in Procs : up = {p}
  BY <1>a, <1>2, FS_Singleton
<1> QED BY <1>1, <1>2 DEF LoginTyped, OnePort

\* In the initial states.
LEMMA LoginStart == ASSUME Login!LoginAssumption, Login!Init PROVE LoginInv
<1>1. LoginTyped
  BY DEF Login!LoginAssumption, Login!Init, LoginTyped, OnePort, Login!TokenRow, Login!CallSteps,
       Login!Memory, Login!Blank, Login!Workers
<1>2. OwnersAlone /\ CallsNamed /\ HoldsLock /\ Login!AnswersRequested
  BY DEF Login!Init, OwnersAlone, Owns, CallsNamed, HoldsLock, Login!AnswersRequested,
       Login!CallSteps, Login!Inside, Login!Workers
<1>3. Login!LocksReturned
  BY DEF Login!Init, Login!LocksReturned
<1> QED BY <1>1, <1>2, <1>3 DEF LoginInv

\* The memories the steps write are memories.
LEMMA LoginMemories ==
  ASSUME Login!LoginAssumption, NEW m \in Login!Memory
  PROVE  /\ Login!Blank \in Login!Memory
         /\ \A e \in Emails \cup {Nobody} : [m EXCEPT !.got = e] \in Login!Memory
         /\ \A e \in Emails \cup {Nobody}, b \in BOOLEAN : [m EXCEPT !.got = e, !.wasUp = b] \in Login!Memory
         /\ \A b \in BOOLEAN : [m EXCEPT !.wasUp = b] \in Login!Memory
         /\ \A e \in Emails, b \in BOOLEAN : [Login!Blank EXCEPT !.email = e, !.auto = b] \in Login!Memory
         /\ \A s \in Login!Workers : [Login!Blank EXCEPT !.on = s] \in Login!Memory
<1> QED BY DEF Login!Memory, Login!Blank

\* A token that is saved leaves a row of the table's kinds.
LEMMA LoginSaves ==
  ASSUME LoginTyped, NEW e \in Emails, NEW hasRefresh \in BOOLEAN, Login!SaveToken(e, hasRefresh)
  PROVE  row' \in [Emails -> Login!TokenRow]
<1> QED BY DEF LoginTyped, Login!SaveToken, Login!Saved, Login!TokenRow

PcType == [Login!Workers \cup Callbacks -> Login!CallSteps \cup {"idle", "exchange", "answered", "done"}]
MemType == [Login!Workers \cup Callbacks -> Login!Memory]
LockType == [Procs \X Emails -> Calls \cup {Nobody}]

\* The ways of a worker out of a step.
LEMMA LoginGoes ==
  ASSUME Login!LoginAssumption, LoginTyped, NEW w \in Login!Workers \cup Callbacks,
         NEW step \in Login!CallSteps \cup {"idle", "exchange", "answered", "done"}, Login!Goto(w, step)
  PROVE  pc' \in PcType /\ mem' \in MemType
<1> QED BY DEF LoginTyped, Login!Goto, PcType, MemType

\* ... with what it remembers.
LEMMA LoginRemembers ==
  ASSUME Login!LoginAssumption, LoginTyped, NEW w \in Login!Workers \cup Callbacks,
         NEW step \in Login!CallSteps \cup {"idle", "exchange", "answered", "done"},
         NEW m \in Login!Memory, Login!Remember(w, step, m)
  PROVE  pc' \in PcType /\ mem' \in MemType
<1> QED BY DEF LoginTyped, Login!Remember, PcType, MemType

\* A call that ends, with an answer.
LEMMA LoginAnswers ==
  ASSUME Login!LoginAssumption, LoginTyped, NEW v \in Calls, NEW e \in Emails, Login!Answer(v, e)
  PROVE  pc' \in PcType /\ mem' \in MemType /\ lock' \in LockType
<1>1. mem[v] \in Login!Memory /\ v \in Login!Workers \cup Callbacks
  BY DEF LoginTyped, Login!Workers
<1>2. [mem[v] EXCEPT !.got = e] \in Login!Memory
  BY <1>1, LoginMemories
<1>3. pc' \in PcType /\ mem' \in MemType
  BY <1>1, <1>2, LoginRemembers DEF Login!Answer
<1> QED BY <1>3 DEF Login!Answer, Login!Unlock, LoginTyped, LockType

\* ... or without one.
LEMMA LoginReturns ==
  ASSUME Login!LoginAssumption, LoginTyped, NEW v \in Calls, Login!ReturnNone(v)
  PROVE  pc' \in PcType /\ mem' \in MemType /\ lock' \in LockType
<1>1. v \in Login!Workers \cup Callbacks /\ Login!Blank \in Login!Memory
  BY LoginMemories DEF LoginTyped, Login!Workers
<1>2. pc' \in PcType /\ mem' \in MemType
  BY <1>1, LoginRemembers DEF Login!ReturnNone
<1> QED BY <1>2 DEF Login!ReturnNone, Login!Unlock, LoginTyped, LockType

\* A login that ends.
LEMMA LoginOvers ==
  ASSUME Login!LoginAssumption, LoginTyped, NEW w \in Login!Workers, NEW e \in Emails \cup {Nobody}, Login!Over(w, e)
  PROVE  pc' \in PcType /\ mem' \in MemType
<1>1. mem[w] \in Login!Memory /\ w \in Login!Workers \cup Callbacks /\ Login!Blank \in Login!Memory
  BY LoginMemories DEF LoginTyped, Login!Workers
<1>2. [mem[w] EXCEPT !.got = e, !.wasUp = TRUE] \in Login!Memory
  BY <1>1, LoginMemories
<1>3. CASE w \in Calls
  BY <1>1, <1>2, <1>3, LoginRemembers DEF Login!Over, Login!CallSteps
<1>4. CASE w \notin Calls
  BY <1>1, <1>4, LoginRemembers DEF Login!Over
<1> QED BY <1>3, <1>4

\* A login that is opened in the browser.
LEMMA LoginOpens ==
  ASSUME Login!LoginAssumption, LoginTyped, NEW w \in Login!Workers, NEW b \in BOOLEAN, Login!Open(w, b)
  PROVE  /\ states' \subseteq Login!Workers
         /\ waiter' \in [Calls \cup Flows -> {"none", "waiting", "failed"} \cup Emails]
         /\ pc' \in PcType /\ mem' \in MemType
<1>1. mem[w] \in Login!Memory /\ w \in Login!Workers \cup Callbacks
  BY DEF LoginTyped
<1>2. [mem[w] EXCEPT !.wasUp = b] \in Login!Memory
  BY <1>1, LoginMemories
<1>3. states' \subseteq Login!Workers
  BY DEF Login!Open, LoginTyped
<1>4. CASE w \in Links
  BY <1>1, <1>3, <1>4, LoginGoes DEF Login!Open, LoginTyped
<1>5. CASE w \notin Links
  <2>1. pc' \in PcType /\ mem' \in MemType
    BY <1>1, <1>2, <1>5, LoginRemembers DEF Login!Open, Login!CallSteps
  <2> QED BY <1>3, <1>5, <2>1 DEF Login!Open, Login!Heard, LoginTyped
<1> QED BY <1>4, <1>5

\* Every step keeps the types; each case names the groups of variables it writes.
LEMMA LoginTypedStep ==
  ASSUME Login!LoginAssumption, LoginTyped, OwnersAlone, CallsNamed, [Login!Next]_loginVars
  PROVE  LoginTyped'
<1> DEFINE Db == row' \in [Emails -> Login!TokenRow] /\ users' \subseteq Emails
           Web == /\ states' \subseteq Login!Workers
                  /\ waiter' \in [Calls \cup Flows -> {"none", "waiting", "failed"} \cup Emails]
           Site == site' \subseteq Procs /\ up' \subseteq site' /\ OnePort'
           Rest == lock' \in LockType /\ pc' \in PcType /\ mem' \in MemType
<1> SUFFICES Db /\ Web /\ Site /\ Rest
  BY DEF LoginTyped, LockType, PcType, MemType
<1> USE DEF Login!dbVars, Login!webVars
<1>a. UNCHANGED Login!dbVars => Db
  BY DEF LoginTyped
<1>b. UNCHANGED <<states, waiter>> => Web
  BY DEF LoginTyped
<1>c. UNCHANGED <<site, up>> => Site
  BY DEF LoginTyped, OnePort
<1>d. UNCHANGED lock => lock' \in LockType
  BY DEF LoginTyped, LockType
<1>e. UNCHANGED <<pc, mem>> => pc' \in PcType /\ mem' \in MemType
  BY DEF LoginTyped, PcType, MemType
<1>f. \A w \in Login!Workers : Login!StopServer(w) => Site
  BY DEF LoginTyped, OnePort, Login!StopServer
<1>g. Login!Blank \in Login!Memory /\ Calls \subseteq Login!Workers /\ Login!Workers \subseteq Login!Workers \cup Callbacks
  BY DEF Login!Workers, Login!Memory, Login!Blank
<1>1. ASSUME NEW v \in Calls, Login!Call(v) PROVE Db /\ Web /\ Site /\ Rest
  <2>1. PICK e \in Asked, auto \in BOOLEAN :
          Login!Remember(v, "lock", [Login!Blank EXCEPT !.email = e, !.auto = auto])
    BY <1>1 DEF Login!Call
  <2>2. [Login!Blank EXCEPT !.email = e, !.auto = auto] \in Login!Memory
    BY <1>g, LoginMemories DEF Login!LoginAssumption
  <2>3. pc' \in PcType /\ mem' \in MemType
    BY <1>g, <2>1, <2>2, LoginRemembers DEF Login!CallSteps
  <2> QED BY <1>1, <2>3, <1>a, <1>b, <1>c, <1>d DEF Login!Call
<1>2. ASSUME NEW v \in Calls, Login!TakeLock(v) PROVE Db /\ Web /\ Site /\ Rest
  <2>1. mem[v] \in Login!Memory /\ mem[v].email \in Emails
    BY <1>2, <1>g DEF Login!TakeLock, CallsNamed, Login!CallSteps, LoginTyped, Login!LoginAssumption
  <2>2. [mem[v] EXCEPT !.got = mem[v].email] \in Login!Memory
    BY <2>1, LoginMemories
  <2>3. lock' \in LockType
    BY <1>2 DEF Login!TakeLock, Login!Reread, LoginTyped, LockType
  <2>4. pc' \in PcType /\ mem' \in MemType
    BY <1>2, <1>g, <2>1, <2>2, LoginGoes, LoginRemembers DEF Login!TakeLock, Login!Reread,
         Login!CallSteps
  <2> QED BY <1>2, <2>3, <2>4, <1>a, <1>b, <1>c DEF Login!TakeLock
<1>3. ASSUME NEW v \in Calls, Login!RefreshOk(v) PROVE Db /\ Web /\ Site /\ Rest
  <2>1. mem[v].email \in Emails
    BY <1>3 DEF Login!RefreshOk, CallsNamed, Login!CallSteps, Login!LoginAssumption
  <2>2. row' \in [Emails -> Login!TokenRow]
    BY <1>3, <2>1, LoginSaves DEF Login!RefreshOk
  <2>3. Rest
    BY <1>3, <2>1, LoginAnswers DEF Login!RefreshOk
  <2> QED BY <1>3, <2>2, <2>3, <1>b, <1>c DEF Login!RefreshOk, LoginTyped
<1>4. ASSUME NEW v \in Calls, Login!RefreshFails(v) PROVE Db /\ Web /\ Site /\ Rest
  <2>1. ASSUME mem[v].auto PROVE Rest
    BY <1>4, <1>g, <1>d, <2>1, LoginGoes DEF Login!RefreshFails, Login!NoToken, Login!CallSteps
  <2>2. ASSUME ~mem[v].auto PROVE Rest
    BY <1>4, <2>2, LoginReturns DEF Login!RefreshFails, Login!NoToken
  <2> QED BY <1>4, <2>1, <2>2, <1>a, <1>b, <1>c DEF Login!RefreshFails
<1>5. ASSUME NEW v \in Calls, Login!UseLogin(v) PROVE Db /\ Web /\ Site /\ Rest
  <2>1. mem[v].got \in Emails \cup {Nobody}
    BY <1>g DEF LoginTyped, Login!Memory
  <2>2. Rest
    BY <1>5, <2>1, LoginAnswers, LoginReturns DEF Login!UseLogin
  <2> QED BY <1>5, <2>2, <1>a, <1>b, <1>c DEF Login!UseLogin
<1>6. ASSUME NEW w \in Login!Workers, Login!Flow(w) PROVE Db /\ Web /\ Site /\ Rest
  BY <1>6, <1>a, <1>b, <1>c, <1>d, <1>g, LoginGoes DEF Login!Flow, Login!CallSteps
<1>7. ASSUME NEW w \in Login!Workers, Login!EnsureServer(w) PROVE Db /\ Web /\ Site /\ Rest
  <2>1. CASE ProcOf[w] \in site
    BY <1>7, <2>1, <1>a, <1>c, <1>d, LoginOpens DEF Login!EnsureServer
  <2>2. CASE ProcOf[w] \notin site /\ up = {}
    <3>1. Site
      BY <1>7, <2>2 DEF Login!EnsureServer, LoginTyped, OnePort, Login!LoginAssumption
    <3> QED BY <1>7, <2>2, <3>1, <1>a, <1>b, <1>d, <1>g, LoginGoes DEF Login!EnsureServer, Login!CallSteps
  <2>3. CASE ProcOf[w] \notin site /\ up # {}
    <3>1. CASE w \in Links
      BY <1>7, <2>3, <3>1, <1>a, <1>c, <1>d, LoginOpens DEF Login!EnsureServer
    <3>2. CASE w \notin Links
      BY <1>7, <2>3, <3>2, <1>a, <1>b, <1>c, <1>d, LoginOvers DEF Login!EnsureServer
    <3> QED BY <3>1, <3>2
  <2> QED BY <2>1, <2>2, <2>3
<1>8. ASSUME NEW w \in Login!Workers, Login!StartServer(w) PROVE Db /\ Web /\ Site /\ Rest
  <2>1. Web /\ pc' \in PcType /\ mem' \in MemType
    BY <1>8, LoginOpens DEF Login!StartServer
  <2>2. ProcOf[w] \in site
    BY <1>8 DEF Login!StartServer, OwnersAlone, Owns
  <2>3. Site
    BY <1>8, <2>2 DEF Login!StartServer, LoginTyped, OnePort
  <2> QED BY <1>8, <2>1, <2>3, <1>a, <1>d DEF Login!StartServer
<1>9. ASSUME NEW w \in Login!Workers, Login!StartFails(w) PROVE Db /\ Web /\ Site /\ Rest
  <2>1. CASE w \in Links
    BY <1>9, <2>1, <1>a, <1>c, <1>d, LoginOpens DEF Login!StartFails
  <2>2. CASE w \notin Links
    BY <1>9, <2>2, <1>a, <1>b, <1>d, <1>f, LoginOvers DEF Login!StartFails
  <2> QED BY <2>1, <2>2
<1>10. ASSUME NEW w \in Login!Workers, Login!HearLogin(w) PROVE Db /\ Web /\ Site /\ Rest
  <2>1. Site
    BY <1>10, <1>c, <1>f DEF Login!HearLogin
  <2>2. Web
    BY <1>10 DEF Login!HearLogin, Login!Heard, LoginTyped
  <2>3. (IF waiter[w] \in users THEN waiter[w] ELSE Nobody) \in Emails \cup {Nobody}
    BY DEF LoginTyped
  <2>4. pc' \in PcType /\ mem' \in MemType
    BY <1>10, <2>3, LoginOvers DEF Login!HearLogin
  <2> QED BY <1>10, <2>1, <2>2, <2>4, <1>a, <1>d DEF Login!HearLogin
<1>h. \A s \in Login!Workers \cup {Nobody}, e \in {"failed"} \cup Emails :
        Login!Resolve(s, e) => waiter' \in [Calls \cup Flows -> {"none", "waiting", "failed"} \cup Emails]
  BY DEF LoginTyped, Login!Resolve
<1>11. ASSUME NEW c \in Callbacks, Login!CallbackRefused(c) PROVE Db /\ Web /\ Site /\ Rest
  BY <1>11, <1>a, <1>b, <1>c, <1>d, LoginGoes DEF Login!CallbackRefused, Login!webVars
<1>12. ASSUME NEW c \in Callbacks, Login!CallbackError(c) PROVE Db /\ Web /\ Site /\ Rest
  <2>1. Web
    BY <1>12, <1>h DEF Login!CallbackError, LoginTyped
  <2> QED BY <1>12, <2>1, <1>a, <1>c, <1>d, LoginGoes DEF Login!CallbackError
<1>13. ASSUME NEW c \in Callbacks, Login!CallbackCode(c) PROVE Db /\ Web /\ Site /\ Rest
  <2>1. PICK s \in states : states' = states \ {s} /\ Login!Remember(c, "exchange", [Login!Blank EXCEPT !.on = s])
    BY <1>13 DEF Login!CallbackCode
  <2>2. s \in Login!Workers /\ [Login!Blank EXCEPT !.on = s] \in Login!Memory
    BY <1>g, LoginMemories DEF LoginTyped
  <2>3. pc' \in PcType /\ mem' \in MemType
    BY <2>1, <2>2, LoginRemembers
  <2>4. Web
    BY <1>13, <2>1 DEF Login!CallbackCode, LoginTyped
  <2> QED BY <1>13, <2>3, <2>4, <1>a, <1>c, <1>d DEF Login!CallbackCode
<1>14. ASSUME NEW c \in Callbacks, Login!LoginSaved(c) PROVE Db /\ Web /\ Site /\ Rest
  <2>1. PICK e \in GraphEmails, hasRefresh \in BOOLEAN :
          /\ Login!Resolve(mem[c].on, e)
          /\ users' \in {users, users \cup {e}}
          /\ Login!SaveToken(e, hasRefresh) \/ UNCHANGED row
    BY <1>14 DEF Login!LoginSaved
  <2>2. e \in Emails
    BY DEF Login!LoginAssumption
  <2>3. mem[c].on \in Login!Workers \cup {Nobody}
    BY DEF LoginTyped, Login!Memory
  <2>4. Db
    BY <2>1, <2>2, LoginSaves DEF LoginTyped
  <2>5. Web
    BY <1>14, <2>1, <2>2, <2>3, <1>h DEF Login!LoginSaved, LoginTyped
  <2>6. pc' \in PcType /\ mem' \in MemType
    BY <1>14, <1>g, LoginRemembers DEF Login!LoginSaved
  <2> QED BY <1>14, <2>4, <2>5, <2>6, <1>c, <1>d DEF Login!LoginSaved
<1>15. ASSUME NEW c \in Callbacks, Login!LoginFails(c) PROVE Db /\ Web /\ Site /\ Rest
  <2>1. mem[c].on \in Login!Workers \cup {Nobody}
    BY DEF LoginTyped, Login!Memory
  <2>2. Web
    BY <1>15, <2>1, <1>h DEF Login!LoginFails, LoginTyped
  <2>3. pc' \in PcType /\ mem' \in MemType
    BY <1>15, <1>g, LoginRemembers DEF Login!LoginFails
  <2> QED BY <1>15, <2>2, <2>3, <1>a, <1>c, <1>d DEF Login!LoginFails
<1>16. ASSUME NEW c \in Callbacks, Login!CallbackDies(c) PROVE Db /\ Web /\ Site /\ Rest
  BY <1>16, <1>a, <1>b, <1>c, <1>d, <1>g, LoginRemembers DEF Login!CallbackDies, Login!webVars
<1>17. ASSUME NEW e \in Emails, Login!AccessExpires(e) \/ Login!RefreshExpires(e) \/ Login!RemoveUser(e)
       PROVE  Db /\ Web /\ Site /\ Rest
  <2>1. Db
    BY <1>17 DEF Login!AccessExpires, Login!RefreshExpires, Login!RemoveUser, LoginTyped,
         Login!TokenRow
  <2>2. UNCHANGED <<Login!webVars, lock, pc, mem>>
    BY <1>17 DEF Login!AccessExpires, Login!RefreshExpires, Login!RemoveUser
  <2> QED BY <2>1, <2>2, <1>b, <1>c, <1>d, <1>e DEF Login!webVars
<1>18. ASSUME NEW e \in Asked, Login!ExternalLogin(e) PROVE Db /\ Web /\ Site /\ Rest
  <2>1. Lower[e] \in Emails
    BY DEF Login!LoginAssumption
  <2>2. Db
    BY <1>18, <2>1, LoginSaves DEF Login!ExternalLogin, LoginTyped
  <2> QED BY <1>18, <2>2, <1>b, <1>c, <1>d, <1>e DEF Login!ExternalLogin, Login!webVars
<1>19. ASSUME NEW s \in Login!Workers, Login!StateExpires(s) PROVE Db /\ Web /\ Site /\ Rest
  <2>1. Web
    BY <1>19 DEF Login!StateExpires, LoginTyped
  <2> QED BY <1>19, <2>1, <1>a, <1>c, <1>d, <1>e DEF Login!StateExpires
<1>20. CASE UNCHANGED loginVars
  BY <1>20, <1>a, <1>b, <1>c, <1>d, <1>e DEF loginVars, Login!webVars
<1> QED BY <1>1, <1>2, <1>3, <1>4, <1>5, <1>6, <1>7, <1>8, <1>9, <1>10, <1>11, <1>12, <1>13,
           <1>14, <1>15, <1>16, <1>17, <1>18, <1>19, <1>20 DEF Login!Next

-----------------------------------------------------------------------------
(* Servers                                                                    *)

\* What a step does to those who own their process's server and to the servers known.
OwnerMoves ==
    \/ /\ site' = site /\ \A x \in Login!Workers : Owns(x)' => Owns(x)
    \/ \E w \in Login!Workers : /\ ProcOf[w] \notin site /\ site' = site \cup {ProcOf[w]}
                          /\ \A x \in Login!Workers \ {w} : Owns(x)' => Owns(x)
    \/ \E w \in Login!Workers : /\ Owns(w) /\ ~Owns(w)' /\ site' = site \ {ProcOf[w]}
                          /\ \A x \in Login!Workers : Owns(x)' => Owns(x)

\* Every step is one of these, for the owners.
LEMMA OwnersMove ==
  ASSUME Login!LoginAssumption, LoginTyped, [Login!Next]_loginVars
  PROVE  OwnerMoves
<1> USE DEF Login!dbVars, Login!webVars
<1>a. Calls \cap Callbacks = {} /\ Login!Workers \cap Callbacks = {} /\ Calls \subseteq Login!Workers
  BY DEF Login!LoginAssumption, Login!Kinds, Login!Workers
<1> DEFINE Only(w) == \A x \in Login!Workers \ {w} : pc'[x] = pc[x] /\ mem'[x] = mem[x]
           Kept == \A x \in Login!Workers : Owns(x)' => Owns(x)
<1>b. \A w \in Login!Workers \cup Callbacks :
        Only(w) /\ (w \in Login!Workers => pc'[w] \notin {"starting", "wait"}) => Kept
  BY DEF Owns
<1>c. UNCHANGED <<pc, mem>> => Kept
  BY DEF Owns
<1>d. \A w \in Login!Workers \cup Callbacks : w \in DOMAIN pc /\ w \in DOMAIN mem
  BY DEF LoginTyped
<1>1. ASSUME NEW v \in Calls,
             Login!Call(v) \/ Login!TakeLock(v) \/ Login!RefreshOk(v) \/ Login!RefreshFails(v) \/ Login!UseLogin(v)
      PROVE  OwnerMoves
  <2>1. site' = site
    BY <1>1 DEF Login!Call, Login!TakeLock, Login!RefreshOk, Login!RefreshFails, Login!UseLogin
  <2>2. Only(v) /\ pc'[v] \notin {"starting", "wait"}
    BY <1>1, <1>a, <1>d DEF Login!Call, Login!TakeLock, Login!RefreshOk, Login!RefreshFails,
         Login!UseLogin, Login!Reread, Login!NoToken,
                       Login!Answer, Login!ReturnNone, Login!Remember, Login!Goto
  <2> QED BY <1>a, <1>b, <2>1, <2>2 DEF OwnerMoves
<1>2. ASSUME NEW w \in Login!Workers, Login!Flow(w) PROVE OwnerMoves
  BY <1>2, <1>b, <1>d DEF OwnerMoves, Login!Flow, Login!Goto
<1>3. ASSUME NEW w \in Login!Workers, Login!EnsureServer(w) PROVE OwnerMoves
  <2>1. CASE ProcOf[w] \in site
    <3>1. Only(w) /\ (pc'[w] = "wait" => mem'[w].wasUp) /\ pc'[w] # "starting"
      BY <1>3, <1>d, <2>1 DEF Login!EnsureServer, Login!Open, Login!Goto, Login!Remember,
           LoginTyped, Login!Memory
    <3> QED BY <1>3, <2>1, <3>1 DEF Login!EnsureServer, OwnerMoves, Owns
  <2>2. CASE ProcOf[w] \notin site /\ up = {}
    <3>1. Only(w) /\ site' = site \cup {ProcOf[w]}
      BY <1>3, <1>d, <2>2 DEF Login!EnsureServer, Login!Goto
    <3> QED BY <2>2, <3>1 DEF OwnerMoves, Owns
  <2>3. CASE ProcOf[w] \notin site /\ up # {}
    <3>1. Only(w) /\ pc'[w] \notin {"starting", "wait"} /\ site' = site
      BY <1>3, <1>d, <2>3 DEF Login!EnsureServer, Login!Open, Login!Over, Login!Goto,
           Login!Remember, Login!Workers
    <3> QED BY <1>b, <3>1 DEF OwnerMoves
  <2> QED BY <2>1, <2>2, <2>3
<1>4. ASSUME NEW w \in Login!Workers, Login!StartServer(w) PROVE OwnerMoves
  <2>1. Only(w) /\ Owns(w) /\ site' = site
    BY <1>4, <1>d DEF Login!StartServer, Login!Open, Login!Goto, Login!Remember, Owns
  <2> QED BY <2>1 DEF OwnerMoves, Owns
<1>5. ASSUME NEW w \in Login!Workers, Login!StartFails(w) PROVE OwnerMoves
  <2>1. Only(w) /\ Owns(w) /\ pc'[w] \notin {"starting", "wait"}
    BY <1>5, <1>d DEF Login!StartFails, Login!Open, Login!Over, Login!Goto, Login!Remember, Owns,
         Login!Workers
  <2>2. Kept /\ ~Owns(w)'
    BY <1>b, <2>1 DEF Owns
  <2> QED BY <1>5, <2>1, <2>2 DEF OwnerMoves, Login!StartFails, Login!StopServer
<1>6. ASSUME NEW w \in Login!Workers, Login!HearLogin(w) PROVE OwnerMoves
  <2>1. Only(w) /\ pc'[w] \notin {"starting", "wait"}
    BY <1>6, <1>d DEF Login!HearLogin, Login!Over, Login!Goto, Login!Remember
  <2>2. Kept /\ ~Owns(w)'
    BY <1>b, <2>1 DEF Owns
  <2>3. CASE mem[w].wasUp
    BY <1>6, <2>2, <2>3 DEF OwnerMoves, Login!HearLogin
  <2>4. CASE ~mem[w].wasUp
    BY <1>6, <2>2, <2>4 DEF OwnerMoves, Login!HearLogin, Login!StopServer, Owns
  <2> QED BY <2>3, <2>4
<1>7. ASSUME NEW c \in Callbacks,
             \/ Login!CallbackRefused(c) \/ Login!CallbackError(c) \/ Login!CallbackCode(c)
             \/ Login!LoginSaved(c) \/ Login!LoginFails(c) \/ Login!CallbackDies(c)
      PROVE  OwnerMoves
  <2>1. Only(c) /\ site' = site
    BY <1>7, <1>d DEF Login!CallbackRefused, Login!CallbackError, Login!CallbackCode,
         Login!LoginSaved, Login!LoginFails,
                      Login!CallbackDies, Login!Goto, Login!Remember
  <2> QED BY <1>a, <1>b, <2>1 DEF OwnerMoves
<1>8. ASSUME \/ \E e \in Emails : Login!AccessExpires(e) \/ Login!RefreshExpires(e) \/ Login!RemoveUser(e)
             \/ \E e \in Asked : Login!ExternalLogin(e)
             \/ \E s \in Login!Workers : Login!StateExpires(s)
             \/ UNCHANGED loginVars
      PROVE  OwnerMoves
  BY <1>8, <1>c DEF OwnerMoves, Login!AccessExpires, Login!RefreshExpires, Login!RemoveUser,
       Login!ExternalLogin,
                    Login!StateExpires, loginVars
<1> QED BY <1>1, <1>2, <1>3, <1>4, <1>5, <1>6, <1>7, <1>8 DEF Login!Next

\* A process keeps at most one owner.
LEMMA OwnersStep ==
  ASSUME Login!LoginAssumption, LoginTyped, OwnersAlone, [Login!Next]_loginVars
  PROVE  OwnersAlone'
<1>1. OwnerMoves
  BY OwnersMove
<1>2. CASE site' = site /\ \A x \in Login!Workers : Owns(x)' => Owns(x)
  BY <1>2 DEF OwnersAlone
<1>3. ASSUME NEW w \in Login!Workers, ProcOf[w] \notin site, site' = site \cup {ProcOf[w]},
             \A x \in Login!Workers \ {w} : Owns(x)' => Owns(x)
      PROVE  OwnersAlone'
  BY <1>3 DEF OwnersAlone
<1>4. ASSUME NEW w \in Login!Workers, Owns(w), ~Owns(w)', site' = site \ {ProcOf[w]},
             \A x \in Login!Workers : Owns(x)' => Owns(x)
      PROVE  OwnersAlone'
  BY <1>4 DEF OwnersAlone
<1> QED BY <1>1, <1>2, <1>3, <1>4 DEF OwnerMoves

-----------------------------------------------------------------------------
(* Locks                                                                      *)

\* What a step does to the locks: nothing, or a call comes in, or it goes out.
LockMoves ==
    \/ /\ lock' = lock
       /\ \A v \in Calls : /\ pc'[v] \in Login!Inside <=> pc[v] \in Login!Inside
                           /\ pc[v] \in Login!Inside => mem'[v].email = mem[v].email
    \/ \E v \in Calls :
          /\ lock[Login!LockOf(v)] = Nobody /\ lock' = [lock EXCEPT ![Login!LockOf(v)] = v]
          /\ pc[v] = "lock" /\ pc'[v] \in Login!Inside /\ mem'[v] = mem[v]
          /\ \A w \in Calls \ {v} : pc'[w] = pc[w] /\ mem'[w] = mem[w]
    \/ \E v \in Calls :
          /\ pc[v] \in Login!Inside /\ lock' = [lock EXCEPT ![Login!LockOf(v)] = Nobody]
          /\ pc'[v] \notin Login!Inside
          /\ \A w \in Calls \ {v} : pc'[w] = pc[w] /\ mem'[w] = mem[w]

\* A step on the way of a login keeps a call inside, with its e-mail and its lock.
LEMMA LoginMoves ==
  ASSUME Login!LoginAssumption, LoginTyped, NEW w \in Login!Workers,
         Login!EnsureServer(w) \/ Login!StartServer(w) \/ Login!StartFails(w) \/ Login!HearLogin(w)
  PROVE  /\ lock' = lock
         /\ \A x \in Calls \ {w} : pc'[x] = pc[x] /\ mem'[x] = mem[x]
         /\ w \in Calls => /\ pc[w] \in Login!Inside /\ pc'[w] \in Login!Inside
                           /\ mem'[w].email = mem[w].email
<1> DEFINE Others == \A x \in Calls \ {w} : pc'[x] = pc[x] /\ mem'[x] = mem[x]
           Stays == w \in Calls => /\ pc'[w] \in Login!Inside /\ mem'[w].email = mem[w].email
<1>1. lock' = lock /\ pc[w] \in Login!Inside
  BY DEF Login!EnsureServer, Login!StartServer, Login!StartFails, Login!HearLogin, Login!Inside
<1>2. /\ Calls \cap Links = {} /\ Calls \subseteq Login!Workers
      /\ \A x \in Login!Workers : x \in DOMAIN pc /\ x \in DOMAIN mem /\ mem[x] \in Login!Memory
  BY DEF Login!LoginAssumption, Login!Kinds, Login!Workers, LoginTyped
<1>3. \A b \in BOOLEAN : Login!Open(w, b) => Others /\ Stays
  BY <1>2 DEF Login!Open, Login!Goto, Login!Remember, Login!Inside, Login!Memory
<1>4. \A e : Login!Over(w, e) => Others /\ Stays
  BY <1>2, ZenonT(60) DEF Login!Over, Login!Remember, Login!Inside, Login!Memory
<1>5. Login!Goto(w, "starting") => Others /\ Stays
  BY <1>2 DEF Login!Goto, Login!Inside
<1>6. \/ \E b \in BOOLEAN : Login!Open(w, b)
      \/ \E e : Login!Over(w, e)
      \/ Login!Goto(w, "starting")
  <2>1. CASE Login!EnsureServer(w)
    BY <2>1 DEF Login!EnsureServer
  <2>2. CASE Login!StartServer(w)
    BY <2>2 DEF Login!StartServer
  <2>3. CASE Login!StartFails(w)
    BY <2>3 DEF Login!StartFails
  <2>4. CASE Login!HearLogin(w)
    BY <2>4 DEF Login!HearLogin
  <2> QED BY <2>1, <2>2, <2>3, <2>4
<1> QED BY <1>1, <1>3, <1>4, <1>5, <1>6

\* Every step is one of these, for the locks.
LEMMA LocksMove ==
  ASSUME Login!LoginAssumption, LoginTyped, [Login!Next]_loginVars
  PROVE  LockMoves
<1> USE DEF Login!dbVars, Login!webVars
<1>a. Calls \cap Callbacks = {} /\ Calls \cap (Flows \cup Links) = {} /\ Calls \subseteq Login!Workers
  BY DEF Login!LoginAssumption, Login!Kinds, Login!Workers
<1> DEFINE Only(w) == \A x \in Calls \ {w} : pc'[x] = pc[x] /\ mem'[x] = mem[x]
<1>d. \A w \in Login!Workers \cup Callbacks : w \in DOMAIN pc /\ w \in DOMAIN mem
  BY DEF LoginTyped
<1>e. \A w \in Login!Workers \cup Callbacks :
        Only(w) /\ lock' = lock
          /\ (w \in Calls => /\ pc'[w] \in Login!Inside <=> pc[w] \in Login!Inside
                             /\ pc[w] \in Login!Inside => mem'[w].email = mem[w].email)
        => LockMoves
  BY DEF LockMoves
<1>1. ASSUME NEW v \in Calls, Login!Call(v) PROVE LockMoves
  BY <1>1, <1>a, <1>d, <1>e DEF Login!Call, Login!Remember, Login!Inside
<1>2. ASSUME NEW v \in Calls, Login!TakeLock(v) PROVE LockMoves
  <2>1. Only(v) /\ pc[v] = "lock" /\ lock[Login!LockOf(v)] = Nobody
    BY <1>2, <1>a, <1>d DEF Login!TakeLock, Login!Reread, Login!Goto, Login!Remember
  <2>2. \/ lock' = lock /\ pc'[v] \in {"answered", "done"}
        \/ lock' = [lock EXCEPT ![Login!LockOf(v)] = v] /\ pc'[v] \in Login!Inside /\ mem'[v] = mem[v]
    BY <1>2, <1>a, <1>d DEF Login!TakeLock, Login!Reread, Login!Goto, Login!Remember, Login!Inside
  <2>3. CASE lock' = lock /\ pc'[v] \in {"answered", "done"}
    BY <1>a, <1>e, <2>1, <2>3 DEF Login!Inside
  <2>4. CASE lock' = [lock EXCEPT ![Login!LockOf(v)] = v] /\ pc'[v] \in Login!Inside /\ mem'[v] = mem[v]
    BY <2>1, <2>4 DEF LockMoves
  <2> QED BY <2>2, <2>3, <2>4
<1>3. ASSUME NEW v \in Calls, Login!RefreshOk(v) \/ Login!RefreshFails(v) \/ Login!UseLogin(v) PROVE LockMoves
  <2>1. Only(v) /\ pc[v] \in Login!Inside
    BY <1>3, <1>a, <1>d DEF Login!RefreshOk, Login!RefreshFails, Login!UseLogin, Login!NoToken,
         Login!Answer, Login!ReturnNone, Login!Goto,
                       Login!Remember, Login!Inside
  <2>2. \/ lock' = lock /\ pc'[v] \in Login!Inside /\ mem' = mem
        \/ lock' = [lock EXCEPT ![Login!LockOf(v)] = Nobody] /\ pc'[v] \notin Login!Inside
    BY <1>3, <1>a, <1>d DEF Login!RefreshOk, Login!RefreshFails, Login!UseLogin, Login!NoToken,
         Login!Answer, Login!ReturnNone, Login!Goto,
                       Login!Remember, Login!Inside, Login!Unlock
  <2> QED BY <1>a, <1>e, <2>1, <2>2 DEF LockMoves
<1>4. ASSUME NEW w \in Login!Workers, Login!Flow(w) PROVE LockMoves
  BY <1>4, <1>a, <1>d, <1>e DEF Login!Flow, Login!Goto
<1>5. ASSUME NEW w \in Login!Workers,
             Login!EnsureServer(w) \/ Login!StartServer(w) \/ Login!StartFails(w) \/ Login!HearLogin(w)
      PROVE  LockMoves
  BY <1>5, <1>e, LoginMoves
<1>6. ASSUME NEW c \in Callbacks,
             \/ Login!CallbackRefused(c) \/ Login!CallbackError(c) \/ Login!CallbackCode(c)
             \/ Login!LoginSaved(c) \/ Login!LoginFails(c) \/ Login!CallbackDies(c)
      PROVE  LockMoves
  <2>1. Only(c) /\ lock' = lock
    BY <1>6, <1>a, <1>d DEF Login!CallbackRefused, Login!CallbackError, Login!CallbackCode,
         Login!LoginSaved, Login!LoginFails,
                      Login!CallbackDies, Login!Goto, Login!Remember
  <2> QED BY <1>a, <1>e, <2>1
<1>7. ASSUME \/ \E e \in Emails : Login!AccessExpires(e) \/ Login!RefreshExpires(e) \/ Login!RemoveUser(e)
             \/ \E e \in Asked : Login!ExternalLogin(e)
             \/ \E s \in Login!Workers : Login!StateExpires(s)
             \/ UNCHANGED loginVars
      PROVE  LockMoves
  BY <1>7 DEF LockMoves, Login!AccessExpires, Login!RefreshExpires, Login!RemoveUser,
       Login!ExternalLogin,
              Login!StateExpires, loginVars
<1> QED BY <1>1, <1>2, <1>3, <1>4, <1>5, <1>6, <1>7 DEF Login!Next

\* A lock is held by the call inside that has its name, and by nothing else.
LEMMA LockStep ==
  ASSUME Login!LoginAssumption, LoginTyped, LoginTyped', CallsNamed, HoldsLock, Login!LocksReturned, [Login!Next]_loginVars
  PROVE  HoldsLock' /\ Login!LocksReturned'
<1>1. LockMoves
  BY LocksMove
<1>2. \A v \in Calls : /\ pc[v] \in Login!Inside \cup {"lock"} => Login!LockOf(v) \in DOMAIN lock
                       /\ v # Nobody
  BY DEF CallsNamed, LoginTyped, Login!LockOf, Login!LoginAssumption, Login!Inside,
       Login!CallSteps, Login!Workers
<1>3. lock \in [Procs \X Emails -> Calls \cup {Nobody}]
  BY DEF LoginTyped
<1>4. CASE /\ lock' = lock
           /\ \A v \in Calls : /\ pc'[v] \in Login!Inside <=> pc[v] \in Login!Inside
                               /\ pc[v] \in Login!Inside => mem'[v].email = mem[v].email
  BY <1>3, <1>4 DEF HoldsLock, Login!LocksReturned, Login!LockOf
<1>5. ASSUME NEW v \in Calls,
             lock[Login!LockOf(v)] = Nobody, lock' = [lock EXCEPT ![Login!LockOf(v)] = v],
             pc[v] = "lock", pc'[v] \in Login!Inside, mem'[v] = mem[v],
             \A w \in Calls \ {v} : pc'[w] = pc[w] /\ mem'[w] = mem[w]
      PROVE  HoldsLock' /\ Login!LocksReturned'
  <2>1. \A w \in Calls : Login!LockOf(w)' = Login!LockOf(w)
    BY <1>5 DEF Login!LockOf
  <2>2. HoldsLock'
    BY <1>2, <1>3, <1>5, <2>1 DEF HoldsLock
  <2>3. Login!LocksReturned'
    BY <1>2, <1>3, <1>5, <2>1 DEF Login!LocksReturned
  <2> QED BY <2>2, <2>3
<1>6. ASSUME NEW v \in Calls,
             pc[v] \in Login!Inside, lock' = [lock EXCEPT ![Login!LockOf(v)] = Nobody],
             pc'[v] \notin Login!Inside,
             \A w \in Calls \ {v} : pc'[w] = pc[w] /\ mem'[w] = mem[w]
      PROVE  HoldsLock' /\ Login!LocksReturned'
  <2>1. \A w \in Calls \ {v} : Login!LockOf(w)' = Login!LockOf(w)
    BY <1>6 DEF Login!LockOf
  <2>2. HoldsLock'
    BY <1>2, <1>3, <1>6, <2>1 DEF HoldsLock
  <2>3. Login!LocksReturned'
    BY <1>2, <1>3, <1>6, <2>1 DEF Login!LocksReturned, HoldsLock
  <2> QED BY <2>2, <2>3
<1> QED BY <1>1, <1>4, <1>5, <1>6 DEF LockMoves

-----------------------------------------------------------------------------
(* E-mails and answers                                                        *)

\* A call keeps the e-mail it was made for, and answers with that account's token.
LEMMA LoginNames ==
  ASSUME Login!LoginAssumption, LoginTyped, CallsNamed, Login!AnswersRequested, [Login!Next]_loginVars
  PROVE  CallsNamed' /\ Login!AnswersRequested'
<1> USE DEF Login!dbVars, Login!webVars
<1>a. Calls \cap Callbacks = {} /\ Calls \cap (Flows \cup Links) = {} /\ Calls \subseteq Login!Workers
  BY DEF Login!LoginAssumption, Login!Kinds, Login!Workers
<1> DEFINE Only(w) == \A x \in Calls \ {w} : pc'[x] = pc[x] /\ mem'[x] = mem[x]
           Fine(v) == /\ pc'[v] \in Login!CallSteps \cup {"answered"} => mem'[v].email \in Asked
                      /\ pc'[v] = "answered" => Lower[mem'[v].got] = Lower[mem'[v].email]
<1>d. \A w \in Login!Workers \cup Callbacks : /\ w \in DOMAIN pc /\ w \in DOMAIN mem
                                        /\ mem[w] \in Login!Memory
  BY DEF LoginTyped
<1>e. \A w \in Login!Workers \cup Callbacks :
        Only(w) /\ (w \in Calls => Fine(w)) => CallsNamed' /\ Login!AnswersRequested'
  BY DEF CallsNamed, Login!AnswersRequested
<1>1. ASSUME NEW v \in Calls, Login!Call(v) PROVE CallsNamed' /\ Login!AnswersRequested'
  <2>1. Only(v) /\ pc'[v] = "lock" /\ mem'[v].email \in Asked
    BY <1>1, <1>a, <1>d DEF Login!Call, Login!Remember, Login!Blank
  <2> QED BY <1>a, <1>e, <2>1
<1>2. ASSUME NEW v \in Calls, Login!TakeLock(v) \/ Login!RefreshOk(v) \/ Login!RefreshFails(v) \/ Login!UseLogin(v)
      PROVE  CallsNamed' /\ Login!AnswersRequested'
  <2>1. Only(v) /\ mem[v] \in Login!Memory /\ mem[v].email \in Asked
    BY <1>2, <1>a, <1>d DEF Login!TakeLock, Login!RefreshOk, Login!RefreshFails, Login!UseLogin,
         Login!Reread, Login!NoToken, Login!Answer,
                       Login!ReturnNone, Login!Goto, Login!Remember, CallsNamed, Login!CallSteps
  <2>2. \/ mem' = mem /\ pc'[v] # "answered"
        \/ \E e \in {mem[v].email, mem[v].got} :
             /\ Lower[e] = Lower[mem[v].email] /\ mem'[v] = [mem[v] EXCEPT !.got = e]
        \/ pc'[v] = "done"
    BY <1>2, <1>a, <1>d DEF Login!TakeLock, Login!RefreshOk, Login!RefreshFails, Login!UseLogin,
         Login!Reread, Login!NoToken, Login!Answer,
                       Login!ReturnNone, Login!Goto, Login!Remember
  <2>3. Fine(v)
    BY <2>1, <2>2 DEF Login!Memory, Login!CallSteps
  <2> QED BY <1>a, <1>e, <2>1, <2>3
<1>3. ASSUME NEW w \in Login!Workers, Login!Flow(w) PROVE CallsNamed' /\ Login!AnswersRequested'
  BY <1>3, <1>a, <1>d, <1>e DEF Login!Flow, Login!Goto
<1>4. ASSUME NEW w \in Login!Workers,
             Login!EnsureServer(w) \/ Login!StartServer(w) \/ Login!StartFails(w) \/ Login!HearLogin(w)
      PROVE  CallsNamed' /\ Login!AnswersRequested'
  <2>1. Only(w) /\ (w \in Calls => /\ pc[w] \in Login!Inside /\ pc'[w] \in Login!Inside
                                   /\ mem'[w].email = mem[w].email)
    BY <1>4, LoginMoves
  <2> QED BY <1>e, <2>1 DEF CallsNamed, Login!Inside, Login!CallSteps
<1>5. ASSUME NEW c \in Callbacks,
             \/ Login!CallbackRefused(c) \/ Login!CallbackError(c) \/ Login!CallbackCode(c)
             \/ Login!LoginSaved(c) \/ Login!LoginFails(c) \/ Login!CallbackDies(c)
      PROVE  CallsNamed' /\ Login!AnswersRequested'
  <2>1. Only(c)
    BY <1>5, <1>a, <1>d DEF Login!CallbackRefused, Login!CallbackError, Login!CallbackCode,
         Login!LoginSaved, Login!LoginFails,
                      Login!CallbackDies, Login!Goto, Login!Remember
  <2> QED BY <1>a, <1>e, <2>1
<1>6. ASSUME \/ \E e \in Emails : Login!AccessExpires(e) \/ Login!RefreshExpires(e) \/ Login!RemoveUser(e)
             \/ \E e \in Asked : Login!ExternalLogin(e)
             \/ \E s \in Login!Workers : Login!StateExpires(s)
             \/ UNCHANGED loginVars
      PROVE  CallsNamed' /\ Login!AnswersRequested'
  BY <1>6 DEF CallsNamed, Login!AnswersRequested, Login!AccessExpires, Login!RefreshExpires,
       Login!RemoveUser,
              Login!ExternalLogin, Login!StateExpires, loginVars
<1> QED BY <1>1, <1>2, <1>3, <1>4, <1>5, <1>6 DEF Login!Next


\* What a login hears is brought by a callback with its own state: the states of others,
\* their errors and their exchanges do not wake it.
LEMMA HearsOwn ==
  ASSUME Login!LoginAssumption, LoginInv, [Login!Next]_loginVars
  PROVE  [Login!HearsItsOwn]_vars
<1>1. ASSUME Login!Next PROVE Login!HearsItsOwn
  <2> SUFFICES ASSUME NEW w \in Calls \cup Flows, waiter'[w] \notin {waiter[w], "none", "waiting"}
               PROVE  \E c \in Callbacks :
                        /\ pc[c] # "done" /\ pc'[c] = "done"
                        /\ \/ pc[c] = "exchange" /\ mem[c].on = w
                           \/ pc[c] = "idle" /\ w \in states \ states' /\ waiter'[w] = "failed"
    BY DEF Login!HearsItsOwn
  <2> USE DEF Login!webVars
  <2>1. /\ waiter \in [Calls \cup Flows -> {"none", "waiting", "failed"} \cup Emails]
        /\ \A c \in Callbacks : c \in DOMAIN pc
    BY DEF LoginInv, LoginTyped
  <2>2. ASSUME NEW c \in Callbacks, Login!CallbackError(c)
        PROVE  pc[c] = "idle" /\ pc'[c] = "done" /\ w \in states \ states' /\ waiter'[w] = "failed"
    BY <2>1, <2>2 DEF Login!CallbackError, Login!Resolve, Login!Goto
  <2>3. ASSUME NEW c \in Callbacks, Login!LoginSaved(c) \/ Login!LoginFails(c)
        PROVE  pc[c] = "exchange" /\ pc'[c] = "done" /\ mem[c].on = w
    BY <2>1, <2>3 DEF Login!LoginSaved, Login!LoginFails, Login!Resolve, Login!Remember
  <2>4. ASSUME NEW x \in Login!Workers,
               Login!Flow(x) \/ Login!EnsureServer(x) \/ Login!StartServer(x) \/ Login!StartFails(x) \/ Login!HearLogin(x)
        PROVE  FALSE
    BY <2>1, <2>4 DEF Login!Flow, Login!EnsureServer, Login!StartServer, Login!StartFails,
         Login!HearLogin, Login!Open, Login!Heard
  <2>5. ASSUME \/ \E v \in Calls : \/ Login!Call(v) \/ Login!TakeLock(v) \/ Login!RefreshOk(v) \/ Login!RefreshFails(v)
                                   \/ Login!UseLogin(v)
               \/ \E c \in Callbacks : Login!CallbackRefused(c) \/ Login!CallbackCode(c) \/ Login!CallbackDies(c)
               \/ \E e \in Emails : Login!AccessExpires(e) \/ Login!RefreshExpires(e) \/ Login!RemoveUser(e)
               \/ \E e \in Asked : Login!ExternalLogin(e)
               \/ \E s \in Login!Workers : Login!StateExpires(s)
        PROVE  FALSE
    BY <2>5 DEF Login!Call, Login!TakeLock, Login!RefreshOk, Login!RefreshFails, Login!UseLogin,
         Login!CallbackRefused, Login!CallbackCode,
                Login!CallbackDies, Login!AccessExpires, Login!RefreshExpires, Login!RemoveUser,
                Login!ExternalLogin, Login!StateExpires
  <2> QED BY <1>1, <2>2, <2>3, <2>4, <2>5 DEF Login!Next
<1>2. ASSUME UNCHANGED loginVars PROVE Login!HearsItsOwn
  BY <1>2 DEF loginVars, LoginInv, LoginTyped, Login!HearsItsOwn
<1> QED BY <1>1, <1>2

LEMMA LoginHolds ==
  ASSUME Login!LoginAssumption, LoginInv, [Login!Next]_loginVars
  PROVE  LoginInv'
BY LoginTypedStep, OwnersStep, LockStep, LoginNames DEF LoginInv

\* Within a process, two calls for one e-mail are never both past the lock.
LEMMA LoginsAlone == ASSUME LoginInv PROVE Login!RefreshAlone
BY DEF LoginInv, HoldsLock, Login!RefreshAlone

-----------------------------------------------------------------------------
(* One component at a time.                                                          *)

LEMMA OfficeAssumed ==
  /\ Notes!NoteAssumption /\ Chat!TeamAssumption /\ Mail!MailboxAssumption
  /\ Agenda!CalendarAssumption /\ Login!LoginAssumption
BY OfficeAssumption

LEMMA OneAtATime ==
  ASSUME [Next]_vars
  PROVE  /\ part' = part
         /\ part = "notes" => [Notes!NoteNext]_noteVars
         /\ part = "chat" => [Chat!TeamNext]_teamVars
         /\ part = "mail" => [Mail!MailNext]_mailVars
         /\ part = "calendar" => [Agenda!CalendarNext]_calendarVars
         /\ part = "login" => [Login!Next]_loginVars
BY DEF Next, NoteStep, ChatStep, MailStep, CalendarStep, LoginStep, vars

\* Each component has its invariant while it is at work.
OfficeInv ==
  /\ part \in {"notes", "chat", "mail", "calendar", "login"}
  /\ part = "notes" => NoteInv
  /\ part = "chat" => ChatInv
  /\ part = "mail" => MailInv
  /\ part = "calendar" => AgendaInv
  /\ part = "login" => LoginInv

LEMMA OfficeStart == ASSUME Init PROVE OfficeInv
BY OfficeAssumed, NoteStart, ChatStart, MailStart, AgendaStart, LoginStart DEF Init, OfficeInv

LEMMA OfficeStep == ASSUME OfficeInv, [Next]_vars PROVE OfficeInv'
<1>1. part = "notes" => NoteInv'
  BY OneAtATime, NoteHolds, OfficeAssumed DEF OfficeInv
<1>2. part = "chat" => ChatInv'
  BY OneAtATime, ChatHolds, OfficeAssumed DEF OfficeInv
<1>3. part = "mail" => MailInv'
  BY OneAtATime, MailHolds, OfficeAssumed DEF OfficeInv
<1>4. part = "calendar" => AgendaInv'
  BY OneAtATime, AgendaHolds, OfficeAssumed DEF OfficeInv
<1>5. part = "login" => LoginInv'
  BY OneAtATime, LoginHolds, OfficeAssumed DEF OfficeInv
<1>6. part' = part
  BY OneAtATime
<1> QED BY <1>1, <1>2, <1>3, <1>4, <1>5, <1>6 DEF OfficeInv

\* The invariant that the theorems below are parts of.
THEOREM OfficeInvariance == Spec => []OfficeInv
BY OfficeStart, OfficeStep, PTL DEF Spec

\* Every variable of the component at work keeps its type; no query has more pages under
\* way than it has workers, and one process at most has the port.
THEOREM OfficeTypeCorrect == Spec => []TypeOK
<1>1. OfficeInv => TypeOK
  <2>1. LoginInv => Login!TypeOK
    BY LoginTypes DEF LoginInv
  <2> QED BY <2>1, NoteHeld, ChatHeld, MailHeld, OfficeAssumed DEF OfficeInv, AgendaInv, TypeOK
<1> QED BY <1>1, OfficeInvariance, PTL

\* What a tool's answer says of the account is so, whatever answers of Graph were lost and
\* whatever other calls and the owner did meanwhile: a page said to be deleted is gone, a
\* message said not to be sent was not, a batch names each of its mails, as done only what
\* was done and as both only what was asked for twice, or names none and did nothing, and a
\* success leaves out nothing that was asked for.
THEOREM ToolsAnswerTruly == Spec => []AnswersTell
<1>1. OfficeInv => AnswersTell
  BY NoteHeld, ChatHeld, MailHeld, OfficeAssumed DEF OfficeInv, AnswersTell
<1> QED BY <1>1, OfficeInvariance, PTL

\* A query whose pages are read in any order by several workers shows no mail twice and no
\* more than was asked for, and of an inbox that did not change the newest mails in their
\* order; views and schedules tell the times that a tool gave.
THEOREM ListsStayTrue == Spec => ListsAreTrue
<1>1. OfficeInv => (part = "mail" => Mail!QueryShowsTheInbox)
  BY MailHeld, OfficeAssumed DEF OfficeInv
<1>2. OfficeInv /\ [Next]_vars => [part = "calendar" => Agenda!BareTimesAgree]_vars
  BY OneAtATime, AgendaHolds, OfficeAssumed DEF OfficeInv
<1> QED BY <1>1, <1>2, OfficeInvariance, PTL DEF Spec, ListsAreTrue

\* No step of a call or a sync takes away a row, a name, a file or an event but what it was
\* for: names that were given stay, a message keeps its file and the file its readers, an
\* event its guests; the row of a chat goes only with it or if it was joined during the
\* sync, that of a page only with it or if it was created during a listing or a chunk of the
\* listing came empty.
THEOREM OthersStayKept == Spec => OthersAreKept
<1>1. OfficeInv => (part = "chat" => Chat!FilesStay /\ Chat!FilesReadable)
  BY ChatHeld DEF OfficeInv
<1>2. OfficeInv /\ [Next]_vars => [part = "notes" => Notes!SparesTheLiving]_vars
  BY OneAtATime, NoteHolds, OfficeAssumed DEF OfficeInv
<1>3. OfficeInv /\ [Next]_vars => [part = "chat" => Chat!SparesTheJoined /\ Chat!GivenNamesStay]_vars
  BY OneAtATime, ChatHolds, OfficeAssumed DEF OfficeInv
<1>4. OfficeInv /\ [Next]_vars => [part = "calendar" => Agenda!KeepsTheRest]_vars
  BY OneAtATime, AgendaHolds, OfficeAssumed DEF OfficeInv
<1> QED BY <1>1, <1>2, <1>3, <1>4, OfficeInvariance, PTL DEF Spec, OthersAreKept

\* Within a process two calls for one spelling of an e-mail are never both past its lock,
\* and no lock stays behind, however calls, flows and callbacks race.
THEOREM LoginsInTurn == Spec => []LoginsTakeTurns
<1>1. OfficeInv => LoginsTakeTurns
  BY LoginsAlone DEF OfficeInv, LoginInv, LoginsTakeTurns
<1> QED BY <1>1, OfficeInvariance, PTL

\* A call is answered with a token of the account it asked for or with none, and what a
\* login hears is brought by a callback with its own state: the states of others, their
\* errors and their exchanges do not wake it.
THEOREM LoginsHearOwn == Spec => LoginsHearTheirOwn
<1>1. OfficeInv => (part = "login" => Login!AnswersRequested)
  BY DEF OfficeInv, LoginInv
<1>2. OfficeInv /\ [Next]_vars => [part = "login" => Login!HearsItsOwn]_vars
  BY OneAtATime, HearsOwn, OfficeAssumed DEF OfficeInv
<1> QED BY <1>1, <1>2, OfficeInvariance, PTL DEF Spec, LoginsHearTheirOwn

\* A process has at most one login that started its callback server and will stop it.
THEOREM OneOwner == Spec => [](part = "login" => OwnersAlone)
<1>1. OfficeInv => (part = "login" => OwnersAlone)
  BY DEF OfficeInv, LoginInv
<1> QED BY <1>1, OfficeInvariance, PTL
=============================================================================
