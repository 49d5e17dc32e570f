--------------------------- MODULE MigrationPlan ---------------------------
(***************************************************************************)
(* Who gets what of the legacy data: the mapping file (tools/              *)
(* migrate_multi_user/mapping.py), the walk over the files (legacy.py) and *)
(* the assignment of files, rows and records to users or to quarantine     *)
(* (assignment.py).  The inputs come one at a time, each of them any that  *)
(* the sources can hold; a malformed mapping file ends the plan, and its   *)
(* entries are not enumerated here.                                        *)
(***************************************************************************)
EXTENDS Naturals, Sequences, FiniteSets, FiniteSetsExt, SequencesExt

CONSTANTS
    POwners,    \* user keys
    Emails,     \* legacy email addresses, already normalised
    Paths,      \* paths under downloads/ and output/: sequences of components
    Stamps,     \* updated_at of a row
    MaxEntries, MaxRules, MaxItems,   \* bounds: entries, rules, rows and records
    None, Ambiguous

VARIABLES
    planPhase,    \* "mapping", then "files", "rows", "records"
    emailOwner,   \* email -> its owner, None or Ambiguous
    claims,       \* the <<email, owner>> entries read
    rules,        \* the <<path, owner>> rules read
    planConflicts,\* the mapping has a conflict
    files,        \* path -> what became of the file there
    rows,         \* the rows of the table read so far
    winners,      \* <<owner, key>> -> the row kept
    rowQuarantine,\* reason -> rows
    byRow,        \* owner -> rows of a table without a key
    records       \* the metadata records read so far, with what became of each

mapVars == <<emailOwner, claims, rules, planConflicts>>
rowVars == <<rows, winners, rowQuarantine, byRow>>
assignVars == <<planPhase, mapVars, files, rowVars, records>>

Owner == POwners \cup {None}
Remote == <<"https:">>    \* a reference to what is not a local file
NoRef == <<"">>
\* A row of a table with or without a key, or one of a table that is made anew, that
\* lacks a column, or whose owner_key is not its user_id.
Row == [kind : {"keyed", "plain", "regenerate", "invalid", "foreign"},
        email : Emails \cup {None}, stamp : Stamps]
Reasons == {"regenerate", "invalid_row", "owner_mismatch", "unmapped_owner",
            "ambiguous_owner", "duplicate_after_merge"}
FileFates == {"unseen", "set_aside", "unowned", "ambiguous_owner", "owned"}

PlanAssumption ==
    /\ None \notin POwners \cup Emails \cup Reasons /\ Ambiguous \notin Owner
    /\ Remote \notin Paths /\ NoRef \notin Paths
    /\ Stamps \subseteq Nat

PlanTypeOK ==
    /\ planPhase \in {"mapping", "files", "rows", "records"}
    /\ emailOwner \in [Emails -> Owner \cup {Ambiguous}]
    /\ claims \subseteq Emails \X POwners /\ rules \subseteq Paths \X POwners
    /\ planConflicts \in BOOLEAN
    /\ files \in [Paths -> [fate : FileFates, owner : Owner]]
    /\ rows \in Seq(Row) /\ winners \in [POwners -> Nat]
    /\ rowQuarantine \in [Reasons -> SUBSET Nat] /\ byRow \in [POwners -> SUBSET Nat]
    /\ \A i \in DOMAIN records : records[i].ref \in Paths \cup {Remote, NoRef}

PlanInit ==
    /\ planPhase = "mapping"
    /\ emailOwner = [e \in Emails |-> None] /\ claims = {} /\ rules = {}
    /\ planConflicts = FALSE
    /\ files = [p \in Paths |-> [fate |-> "unseen", owner |-> None]]
    /\ rows = <<>> /\ winners = [o \in POwners |-> 0]
    /\ rowQuarantine = [q \in Reasons |-> {}] /\ byRow = [o \in POwners |-> {}]
    /\ records = <<>>

-----------------------------------------------------------------------------
\* Mutant: the last entry for an email is the one that counts.
ClaimedLast(e, o) == o

\* An email two users claim is nobody's, whatever entry comes after.
Claimed(e, o) == IF emailOwner[e] \in {None, o} THEN o ELSE Ambiguous

\* One entry of "users".
ReadEntry(e, o) ==
    /\ planPhase = "mapping" /\ rules = {}
    /\ Cardinality(claims) < MaxEntries
    /\ claims' = claims \cup {<<e, o>>}
    /\ emailOwner' = [emailOwner EXCEPT ![e] = Claimed(e, o)]
    /\ planConflicts' = (planConflicts \/ Claimed(e, o) = Ambiguous)
    /\ UNCHANGED <<planPhase, rules, files, rowVars, records>>

\* One entry of "owners.paths"; an owner that is unknown or ambiguous ends the plan.  A
\* second owner for the same path is a conflict, and the rule is kept.
ReadRule(p, e) ==
    /\ planPhase = "mapping" /\ emailOwner[e] \in POwners
    /\ Cardinality(rules) < MaxRules
    /\ rules' = rules \cup {<<p, emailOwner[e]>>}
    /\ planConflicts' = (planConflicts \/ \E r \in rules : r[1] = p /\ r[2] # emailOwner[e])
    /\ UNCHANGED <<planPhase, emailOwner, claims, files, rowVars, records>>

\* Mutant: one of the rules for a path decides.
OwnerOfPathFirst(p) ==
    LET matching == {r \in rules : IsPrefix(r[1], p)}
    IN IF matching = {} THEN [fate |-> "unowned", owner |-> None]
       ELSE [fate |-> "owned", owner |-> (CHOOSE r \in matching : TRUE)[2]]

\* owner_of_path(): the rules for the path and for the directories above it must agree.
OwnerOfPath(p) ==
    LET owners == {r[2] : r \in {r \in rules : IsPrefix(r[1], p)}}
    IN CASE owners = {} -> [fate |-> "unowned", owner |-> None]
         [] Cardinality(owners) > 1 -> [fate |-> "ambiguous_owner", owner |-> None]
         [] OTHER -> [fate |-> "owned", owner |-> CHOOSE o \in owners : TRUE]

\* A file as walk_files() finds it: a link, an administrator's file, one with a name no
\* system takes, or one that a rule may assign.
PlanFile(p) ==
    /\ planPhase \in {"mapping", "files"} /\ claims # {} /\ files[p].fate = "unseen"
    /\ planPhase' = "files"
    /\ \/ files' = [files EXCEPT ![p] = [fate |-> "set_aside", owner |-> None]]
       \/ files' = [files EXCEPT ![p] = OwnerOfPath(p)]
    /\ UNCHANGED <<mapVars, rowVars, records>>

-----------------------------------------------------------------------------
OwnerOfEmail(e) == IF e = None THEN None ELSE emailOwner[e]

\* Why a row goes to nobody, or None.
RowProblem(row) ==
    CASE row.kind = "regenerate" -> "regenerate"
      [] row.kind = "invalid" -> "invalid_row"
      [] row.kind = "foreign" -> "owner_mismatch"
      [] OTHER -> CASE OwnerOfEmail(row.email) = None -> "unmapped_owner"
                    [] OwnerOfEmail(row.email) = Ambiguous -> "ambiguous_owner"
                    [] OTHER -> None

\* Mutant: the row that came first stays.
KeptFirst(current, i) == current

\* Of two rows with one key the one updated last is kept, and of equals the later.
Kept(current, i) ==
    IF current = 0 \/ rows'[i].stamp >= rows'[current].stamp THEN i ELSE current

\* The walk is over, and the bound is not reached.
Room == (\A p \in Paths : files[p].fate # "unseen") /\ Len(rows) + Len(records) < MaxItems

\* The next row of a table.  The rows of one owner have the same key here.
PlanRow(row) ==
    /\ Room
    /\ planPhase \in {"files", "rows"} /\ planPhase' = "rows"
    /\ rows' = Append(rows, row)
    /\ LET i == Len(rows) + 1
           why == RowProblem(row)
           o == emailOwner[row.email]
       IN CASE why # None ->
                 /\ rowQuarantine' = [rowQuarantine EXCEPT ![why] = @ \cup {i}]
                 /\ UNCHANGED <<winners, byRow>>
            [] why = None /\ row.kind = "plain" ->
                 /\ byRow' = [byRow EXCEPT ![o] = @ \cup {i}]
                 /\ UNCHANGED <<winners, rowQuarantine>>
            [] OTHER ->
                 /\ winners' = [winners EXCEPT ![o] = Kept(@, i)]
                 /\ rowQuarantine' = [rowQuarantine EXCEPT
                       !["duplicate_after_merge"] = @ \cup ({i, winners[o]} \ {0, Kept(winners[o], i)})]
                 /\ UNCHANGED byRow
    /\ UNCHANGED <<mapVars, files, records>>

-----------------------------------------------------------------------------
\* Mutant: a path is kept whoever the file belongs to.
RewriteAny(ref, o) == IF ref \in Paths /\ files[ref].fate # "owned" THEN NoRef ELSE ref

\* A reference after the move: a remote one stays, a local one must be a file that goes
\* to the same owner.
Rewrite(ref, o) ==
    IF ref = Remote \/ (ref \in Paths /\ files[ref].fate = "owned" /\ files[ref].owner = o)
    THEN ref ELSE NoRef

Refs(o) == {records[i].ref : i \in {i \in DOMAIN records : records[i].table = "file" /\ records[i].owner = o}}

\* A record of metadata.db or metadata.json, whose owner the mapping names by row or by
\* source, both tables into one.
PlanFileRecord(ref, o) ==
    /\ Room /\ o \in {OwnerOfEmail(e) : e \in Emails \cup {None}} \ {Ambiguous}
    /\ planPhase \in {"files", "rows", "records"} /\ planPhase' = "records"
    /\ LET new == Rewrite(ref, o)
           fate == CASE o = None -> "unowned"
                     [] o # None /\ new = NoRef -> "unmapped_local_path"
                     [] o # None /\ new # NoRef /\ new \in Refs(o) -> "duplicate"
                     [] OTHER -> "owned"
       IN records' = Append(records, [table |-> "file", fate |-> fate,
                                      owner |-> IF fate = "owned" THEN o ELSE None,
                                      ref |-> IF fate = "owned" THEN new ELSE NoRef])
    /\ UNCHANGED <<mapVars, files, rowVars>>

\* A processed message: it is kept without the references that lead nowhere.
PlanMailRecord(ref, o) ==
    /\ Room /\ o \in {OwnerOfEmail(e) : e \in Emails \cup {None}} \ {Ambiguous}
    /\ planPhase \in {"files", "rows", "records"} /\ planPhase' = "records"
    /\ records' = Append(records,
          [table |-> "mail", fate |-> IF o = None THEN "unowned" ELSE "owned", owner |-> o,
           ref |-> IF o = None THEN NoRef ELSE Rewrite(ref, o)])
    /\ UNCHANGED <<mapVars, files, rowVars>>

PlanNext ==
    \/ \E e \in Emails : (\E o \in POwners : ReadEntry(e, o)) \/ (\E p \in Paths : ReadRule(p, e))
    \/ \E p \in Paths : PlanFile(p)
    \/ \E row \in Row : PlanRow(row)
    \/ \E ref \in Paths \cup {Remote}, o \in Owner : PlanFileRecord(ref, o) \/ PlanMailRecord(ref, o)

PlanSpec == PlanInit /\ [][PlanNext]_assignVars

-----------------------------------------------------------------------------
RowsOf(o) == byRow[o] \cup ({winners[o]} \ {0})

\* Every row ends in one place only, a user's store or one reason of the quarantine, so
\* that the counts of the manifest add up; and of the rows of one key the latest is
\* used (the merge of several legacy addresses of one user in _plan_rows).
EachRowOnce ==
    \A i \in DOMAIN rows :
        /\ Cardinality({o \in POwners : i \in RowsOf(o)})
             + Cardinality({q \in Reasons : i \in rowQuarantine[q]}) = 1
        /\ i \in rowQuarantine["duplicate_after_merge"] =>
             \E o \in POwners : /\ emailOwner[rows[i].email] = o /\ winners[o] # 0
                                /\ rows[winners[o]].stamp >= rows[i].stamp

\* Nobody gets what another may own: neither a row of an address that two users claim,
\* nor a file under rules of two users, nor a record that leads to another's file; and
\* no user gets two records for one file.
NobodyGetsAnothers ==
    /\ \A o \in POwners : \A i \in RowsOf(o) :
         {c \in claims : c[1] = rows[i].email} = {<<rows[i].email, o>>}
    /\ \A p \in Paths : files[p].fate = "owned" =>
         \A r \in rules : IsPrefix(r[1], p) => r[2] = files[p].owner
    /\ \A i \in DOMAIN records : records[i].ref \in Paths => files[records[i].ref].owner = records[i].owner
    /\ \A i, j \in DOMAIN records :
         /\ i # j /\ records[i].table = "file" /\ records[j].table = "file"
         /\ records[i].ref # NoRef /\ records[i].owner = records[j].owner
         => records[i].ref # records[j].ref

=============================================================================
