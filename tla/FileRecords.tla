----------------------------- MODULE FileRecords -----------------------------
(* The metadata FileHandler keeps of files: the store of each user in            *)
(* multi-user mode, one owned table, and the two legacy stores without owners,   *)
(* an SQLite table and a JSON file held in memory and rewritten whole.           *)
(* A text is a sequence of characters; keywords are kept joined by commas.       *)
EXTENDS Integers, FiniteSets, Sequences, SequencesExt

CONSTANTS Owners,          \* users; a legacy store is used by one of them
          Refs,            \* normalized references: paths under files/, and URLs
          Words,           \* keywords and texts to search for
          MaxKeywords,     \* KEYWORDS_MAX_ITEMS
          MaxTime,         \* bound on the clock
          NoRow

RecordAssumption == Owners # {} /\ MaxKeywords \in Nat /\ MaxTime \in Nat

VARIABLES store,    \* "owned", "sqlite" or "json"
          table,    \* owner -> reference -> row (a legacy store: every owner alike)
          memory,   \* json: the data of the running process
          frozen,   \* a legacy store may be frozen by a migration
          now,
          answer    \* of the last call

recordVars == <<store, table, memory, frozen, now, answer>>

NoFile == [r \in Refs |-> NoRow]
Joined(words) == FoldLeft(LAMBDA s, w : IF s = <<>> THEN w ELSE s \o <<",">> \o w, <<>>, words)
KeywordLists == UNION {[1 .. n -> Words] : n \in 0 .. MaxKeywords + 1}
Rows == [keywords : {Joined(k) : k \in KeywordLists}, created : 0 .. MaxTime]

RecordTypeOK ==
  /\ store \in {"owned", "sqlite", "json"}
  /\ table \in [Owners -> [Refs -> Rows \cup {NoRow}]]
  /\ memory \in [Refs -> Rows \cup {NoRow}]
  /\ frozen \in BOOLEAN /\ now \in 0 .. MaxTime

RecordInit ==
  /\ store \in {"owned", "sqlite", "json"}
  /\ table = [o \in Owners |-> NoFile] /\ memory = NoFile
  /\ frozen = FALSE /\ now = 0 /\ answer = [op |-> "none"]

\* The keywords beyond the limit are dropped.
Clamped(words) == SubSeq(words, 1, IF Len(words) > MaxKeywords THEN MaxKeywords ELSE Len(words))

Tick == now < MaxTime /\ now' = now + 1
Legacy == store # "owned"
\* Every open and write of a legacy store asks for the migration's marker first.
MayWrite == Legacy => ~frozen

\* INSERT .. ON CONFLICT DO UPDATE leaves created_at alone, INSERT OR REPLACE and
\* the JSON entry do not.
OwnedRowAnew(o, r, words) == [keywords |-> Joined(words), created |-> now]
OwnedRow(o, r, words) ==
  [keywords |-> Joined(words),
   created |-> IF table[o][r] = NoRow THEN now ELSE table[o][r].created]
LegacyRow(words) == [keywords |-> Joined(words), created |-> now]

SaveOwned(o, r, words) ==
  /\ store = "owned"
  /\ table' = [table EXCEPT ![o][r] = OwnedRow(o, r, words)]
  /\ UNCHANGED memory
SaveSqlite(r, words) ==
  /\ store = "sqlite" /\ MayWrite
  /\ table' = [o \in Owners |-> [table[o] EXCEPT ![r] = LegacyRow(words)]]
  /\ UNCHANGED memory
\* The file is opened for writing before it is filled: a crash leaves part of it.
SaveJson(r, words) ==
  /\ store = "json" /\ MayWrite
  /\ memory' = [memory EXCEPT ![r] = LegacyRow(words)]
  /\ table' = [o \in Owners |-> memory']

Save(o, r, given) ==
  LET words == Clamped(given) IN
  /\ Tick
  /\ SaveOwned(o, r, words) \/ SaveSqlite(r, words) \/ SaveJson(r, words)
  /\ answer' = [op |-> "save", owner |-> o, ref |-> r, done |-> TRUE]
  /\ UNCHANGED <<store, frozen>>

\* The write failed (disk full, database busy): FileManager answers False. The
\* JSON store has changed its memory by then.
SaveFails(o, r, given) ==
  /\ Tick /\ MayWrite
  /\ memory' = IF store = "json" THEN [memory EXCEPT ![r] = LegacyRow(Clamped(given))] ELSE memory
  /\ answer' = [op |-> "save", owner |-> o, ref |-> r, done |-> FALSE]
  /\ UNCHANGED <<store, table, frozen>>

DeleteOwnedOfAll(o, r) == [p \in Owners |-> [table[p] EXCEPT ![r] = NoRow]]
DeleteOwned(o, r) == [table EXCEPT ![o][r] = NoRow]
DeleteLegacy(o, r) == [p \in Owners |-> [table[p] EXCEPT ![r] = NoRow]]

\* What the process looks rows up in.
Current(o) == IF store = "json" THEN memory ELSE table[o]

Delete(o, r) ==
  /\ Tick /\ MayWrite
  /\ answer' = [op |-> "delete", owner |-> o, ref |-> r, done |-> Current(o)[r] # NoRow]
  /\ table' = IF store = "owned" THEN DeleteOwned(o, r)
              ELSE IF Current(o)[r] = NoRow THEN table ELSE DeleteLegacy(o, r)
  /\ memory' = IF store = "json" THEN [memory EXCEPT ![r] = NoRow] ELSE memory
  /\ UNCHANGED <<store, frozen>>

\* SQL's LIKE for a pattern between two %: literal when escaped; otherwise each %
\* in it stands for any text.
Within(text, s) == \E i \in 0 .. Len(s) - Len(text) : SubSeq(s, i + 1, i + Len(text)) = text
MatchesRaw(text, s) == text = <<"%">> \/ Within(text, s)
MatchesEscaped(text, s) == Within(text, s)

OwnedMatches(text, s) == MatchesEscaped(text, s)
SqliteMatches(text, s) == MatchesRaw(text, s)
JsonMatches(text, s) == Within(text, s)

Found(o, text) ==
  {r \in Refs : Current(o)[r] # NoRow /\
     CASE store = "owned"  -> OwnedMatches(text, Current(o)[r].keywords)
       [] store = "sqlite" -> SqliteMatches(text, Current(o)[r].keywords)
       [] store = "json"   -> JsonMatches(text, Current(o)[r].keywords)}

SearchRecords(o, text) ==
  /\ answer' = [op |-> "search", owner |-> o, text |-> text,
                rows |-> [r \in Found(o, text) |-> Current(o)[r]]]
  /\ UNCHANGED <<store, table, memory, frozen, now>>

Get(o, r) ==
  /\ answer' = [op |-> "get", owner |-> o, ref |-> r, row |-> Current(o)[r]]
  /\ UNCHANGED <<store, table, memory, frozen, now>>

\* The process ends and a new one loads the store; a JSON file it cannot read
\* counts as empty. A write of the JSON file may have been cut off.
Restart ==
  /\ answer' = [op |-> "none"]
  /\ \/ /\ memory' = IF store = "json" THEN table[CHOOSE o \in Owners : TRUE] ELSE memory
        /\ UNCHANGED table
     \/ /\ store = "json" /\ MayWrite
        /\ memory' = NoFile /\ table' = [o \in Owners |-> NoFile]
  /\ UNCHANGED <<store, frozen, now>>

\* A migration has put its marker beside the store.
Freeze == Legacy /\ ~frozen /\ frozen' = TRUE /\ UNCHANGED <<store, table, memory, now, answer>>

RecordNext ==
  \/ \E o \in Owners, r \in Refs :
       \/ \E words \in KeywordLists : Save(o, r, words) \/ SaveFails(o, r, words)
       \/ Delete(o, r) \/ Get(o, r)
  \/ \E o \in Owners, text \in Words : SearchRecords(o, text)
  \/ Restart \/ Freeze

RecordSpec == RecordInit /\ [][RecordNext]_recordVars

-----------------------------------------------------------------------------
\* In a user's own store a call changes the caller's row only, a row says when it
\* was first made until it is deleted, and nothing is lost by a restart.
RowsStayTheirOwners ==
  store = "owned" =>
    \A o \in Owners, r \in Refs :
      /\ table'[o][r] # table[o][r] =>
           answer'.op \in {"save", "delete"} /\ answer'.owner = o /\ answer'.ref = r
      /\ table[o][r] # NoRow /\ table'[o][r] # NoRow =>
           table'[o][r].created = table[o][r].created

\* A search of a user's own store finds the user's rows that hold the text in a
\* keyword or across two of them, and no other row, whatever the text is.
SearchIsLiteral ==
  store = "owned" /\ answer.op = "search" =>
    DOMAIN answer.rows =
      {r \in Refs : table[answer.owner][r] # NoRow
                    /\ Within(answer.text, table[answer.owner][r].keywords)}

=============================================================================
