----------------------------- MODULE Migration -----------------------------
(***************************************************************************)
(* The tool that moves a single operator's data (mode 0) into the users'   *)
(* own stores (mode 1), tools/migrate_multi_user: plan, apply, activate    *)
(* and unlock, of which one runs at a time and any may be killed between   *)
(* two writes; the legacy writers that do not listen on a port; the users' *)
(* servers, which run while the tool does not; and an administrator.       *)
(* Which row goes to whom is MigrationPlan's subject: here a run has the   *)
(* same named parts for each user, rows in steps and files.  A command     *)
(* that refuses before it has written anything leaves no trace but its     *)
(* report and its audit record: its guard is false.                        *)
(***************************************************************************)
EXTENDS Naturals, Sequences, FiniteSets, SequencesExt

CONSTANTS
    MUsers,     \* the users of the mapping, in every run
    Runs,       \* run ids that may be drawn
    RowSteps,   \* the steps that write rows, one transaction each
    FileParts,  \* the files assigned to a user
    MaxWrites,  \* bound: writes into each legacy source
    NoRun

VARIABLES
    legacy,       \* area -> version of the legacy data
    writerOpen,   \* area -> a mode 0 process has opened the source
    lock,         \* area -> the run whose .migration_lock lies there, or NoRun
    servers,      \* something listens on a server port
    registry,     \* user -> the account is usable
    drawn,        \* run ids drawn so far
    manifests,    \* run -> its manifest
    stagingRun,   \* the run of staging/run.json, or NoRun
    staging,      \* user -> area -> content
    live,         \* the same under users/
    checkpoint,   \* run -> the status of its apply
    journal,      \* run -> status of its activate and the areas moved
    tool          \* the command that runs

legacyVars == <<legacy, writerOpen>>
accountVars == <<servers, registry>>
planVars == <<lock, drawn, manifests>>
applyVars == <<stagingRun, staging, checkpoint>>
migrationVars == <<legacyVars, accountVars, planVars, applyVars, live, journal, tool>>

Areas == {"db", "files"}
AreaOrder == <<"db", "files">>
PartsOf(a) == IF a = "db" THEN RowSteps ELSE FileParts
Parts == RowSteps \cup FileParts
UserOrder == SetToSeq(MUsers)

\* A directory: how often each part is in it, whose run wrote it, and whether the
\* user's own servers have written in it.
Content == [kind : {"absent", "empty", "filled"}, run : Runs \cup {NoRun},
            times : [Parts -> 0..2], own : BOOLEAN]
Dir(kind) == [kind |-> kind, run |-> NoRun, times |-> [p \in Parts |-> 0], own |-> FALSE]
Absent == Dir("absent")

MoveAssumption == IsFiniteSet(MUsers) /\ MaxWrites \in Nat /\ NoRun \notin Runs

NoManifest == [state |-> "none"]
Idle == [cmd |-> "none"]

MigrationTypeOK ==
    /\ legacy \in [Areas -> 0..MaxWrites] /\ writerOpen \in [Areas -> BOOLEAN]
    /\ lock \in [Areas -> Runs \cup {NoRun}] /\ drawn \subseteq Runs
    /\ servers \in BOOLEAN /\ registry \in [MUsers -> BOOLEAN]
    /\ \A r \in Runs : manifests[r].state \in {"none", "unsealed", "sealed"}
    /\ stagingRun \in Runs \cup {NoRun}
    /\ staging \in [MUsers -> [Areas -> Content]] /\ live \in [MUsers -> [Areas -> Content]]
    /\ checkpoint \in [Runs -> {"none", "in_progress", "complete"}]
    /\ journal \in [Runs -> [status : {"none", "moving", "complete"}, moved : SUBSET (MUsers \X Areas)]]
    /\ tool.cmd \in {"none", "plan", "apply", "activate"}

MigrationInit ==
    /\ legacy = [a \in Areas |-> 0] /\ writerOpen = [a \in Areas |-> FALSE]
    /\ lock = [a \in Areas |-> NoRun] /\ drawn = {}
    /\ servers = FALSE /\ registry = [u \in MUsers |-> TRUE]
    /\ manifests = [r \in Runs |-> NoManifest]
    /\ stagingRun = NoRun /\ staging = [u \in MUsers |-> [a \in Areas |-> Absent]]
    /\ live = [u \in MUsers |-> [a \in Areas |-> Dir("empty")]]
    /\ checkpoint = [r \in Runs |-> "none"]
    /\ journal = [r \in Runs |-> [status |-> "none", moved |-> {}]]
    /\ tool = Idle

-----------------------------------------------------------------------------
NoActivationInProgress == \A r \in Runs : journal[r].status # "moving"

\* plan begins: ports closed, no activate half done; a lock an earlier run of this
\* deployment left is taken over, one directory after the other.
PlanBegin(r) ==
    /\ tool = Idle /\ ~servers /\ NoActivationInProgress
    /\ r \notin drawn
    /\ drawn' = drawn \cup {r}
    /\ lock' = [lock EXCEPT !["db"] = r]
    /\ tool' = [cmd |-> "plan", run |-> r, pc |-> "lock"]
    /\ UNCHANGED <<legacyVars, accountVars, manifests, applyVars, live, journal>>

PlanLock ==
    /\ tool.cmd = "plan" /\ tool.pc = "lock"
    /\ lock' = [lock EXCEPT !["files"] = tool.run]
    /\ tool' = [tool EXCEPT !.pc = "fingerprint"]
    /\ UNCHANGED <<legacyVars, accountVars, drawn, manifests, applyVars, live, journal>>

\* The databases are hashed first and copied then, the files are hashed last.
PlanFingerprint ==
    /\ tool.cmd = "plan" /\ tool.pc = "fingerprint"
    /\ tool' = [cmd |-> "plan", run |-> tool.run, pc |-> "snapshot", fp |-> legacy["db"]]
    /\ UNCHANGED <<legacyVars, accountVars, planVars, applyVars, live, journal>>

PlanSnapshot ==
    /\ tool.cmd = "plan" /\ tool.pc = "snapshot"
    /\ tool' = [cmd |-> "plan", run |-> tool.run, pc |-> "write", fp |-> tool.fp, snap |-> legacy["db"]]
    /\ UNCHANGED <<legacyVars, accountVars, planVars, applyVars, live, journal>>

\* An account of the mapping is missing, closed, or another person's.
RegistryProblems == \E u \in MUsers : ~registry[u]

\* The manifest, with what it found wrong: with an account, or with the mapping.
PlanWrite ==
    /\ tool.cmd = "plan" /\ tool.pc = "write"
    /\ \E conflicts \in BOOLEAN :
        /\ RegistryProblems => conflicts
        /\ manifests' = [manifests EXCEPT ![tool.run] =
              [state |-> "unsealed", conflicts |-> conflicts, snap |-> tool.snap,
               source |-> [db |-> tool.fp, files |-> legacy["files"]]]]
    /\ tool' = [cmd |-> "plan", run |-> tool.run, pc |-> "seal"]
    /\ UNCHANGED <<legacyVars, accountVars, lock, drawn, applyVars, live, journal>>

\* The .sha256 file, without which no command takes the manifest.
PlanSeal ==
    /\ tool.cmd = "plan" /\ tool.pc = "seal"
    /\ manifests' = [manifests EXCEPT ![tool.run].state = "sealed"]
    /\ tool' = Idle
    /\ UNCHANGED <<legacyVars, accountVars, lock, drawn, applyVars, live, journal>>

Sealed(r) == manifests[r].state = "sealed"

\* check_locks(): each lock is there, as this run wrote it.
LocksHeld(r) == \A a \in Areas : lock[a] = r

\* The accounts of the manifest are as it found them.
AccountsUnchanged == \A u \in MUsers : registry[u]

\* Mutant: the locks are trusted to have kept every writer out.
PrepareByLock(r) ==
    /\ Sealed(r) /\ ~manifests[r].conflicts /\ ~servers /\ LocksHeld(r)
    /\ AccountsUnchanged

\* prepare(): what apply and activate demand, resumed or not.
Prepare(r) ==
    /\ Sealed(r) /\ ~manifests[r].conflicts /\ ~servers /\ LocksHeld(r)
    /\ manifests[r].source = legacy
    /\ AccountsUnchanged

-----------------------------------------------------------------------------
Occupied == stagingRun # NoRun \/ \E u \in MUsers, a \in Areas : staging[u][a].kind # "absent"

\* apply begins.  Another run's staging goes only with --reset-staging, and never
\* under an activate half done.
ApplyBegin(r) ==
    /\ tool = Idle /\ Prepare(r)
    /\ \/ stagingRun = r /\ UNCHANGED staging
       \/ ~Occupied /\ UNCHANGED staging
       \/ /\ Occupied /\ stagingRun # r /\ NoActivationInProgress
          /\ staging' = [u \in MUsers |-> [a \in Areas |-> Absent]]
    /\ stagingRun' = r
    /\ checkpoint' = [checkpoint EXCEPT ![r] = "in_progress"]
    /\ tool' = [cmd |-> "apply", run |-> r, at |-> 1]
    /\ UNCHANGED <<legacyVars, accountVars, planVars, live, journal>>

\* For each user: the empty stores, the steps, the files.
WorkOf(u) == <<<<u, "storage">>>> \o [i \in 1..Cardinality(Parts) |-> <<u, (SetToSeq(RowSteps) \o SetToSeq(FileParts))[i]>>]
ApplyWork == FlattenSeq([i \in 1..Cardinality(MUsers) |-> WorkOf(UserOrder[i])])

EnsureStorage(u) ==
    staging' = [staging EXCEPT
        ![u]["db"] = IF @.kind = "absent" THEN Dir("filled") ELSE @,
        ![u]["files"] = IF @.kind = "absent" THEN Dir("empty") ELSE @]

Written(c, p, r) == [c EXCEPT !.kind = "filled", !.run = r, !.times[p] = IF @ = 2 THEN 2 ELSE @ + 1]

\* Mutant: the rows are written, whether the marker says so already or not.
PutAgain(u, a, p, r) == staging' = [staging EXCEPT ![u][a] = Written(@, p, r)]

\* run_step(): the rows and the marker of the step in one transaction, skipped when
\* the marker is there; copy_verified() skips a file that is there as planned.
Put(u, a, p, r) ==
    IF staging[u][a].times[p] > 0 THEN UNCHANGED staging
    ELSE staging' = [staging EXCEPT ![u][a] = Written(@, p, r)]

\* A file whose content is not the planned one any more.
SourceChanged(u, p, r) ==
    p \in FileParts /\ staging[u]["files"].times[p] = 0 /\ legacy["files"] # manifests[r].source["files"]

ApplyStep ==
    /\ tool.cmd = "apply" /\ tool.at <= Len(ApplyWork)
    /\ LET u == ApplyWork[tool.at][1]
           what == ApplyWork[tool.at][2]
       IN IF SourceChanged(u, what, tool.run) THEN tool' = Idle /\ UNCHANGED staging
          ELSE /\ tool' = [tool EXCEPT !.at = @ + 1]
               /\ IF what = "storage" THEN EnsureStorage(u)
                  ELSE Put(u, IF what \in RowSteps THEN "db" ELSE "files", what, tool.run)
    /\ UNCHANGED <<legacyVars, accountVars, planVars, stagingRun, checkpoint, live, journal>>

\* What belongs to nobody is set aside, the same however often, and apply is complete.
ApplyFinish ==
    /\ tool.cmd = "apply" /\ tool.at > Len(ApplyWork)
    /\ checkpoint' = [checkpoint EXCEPT ![tool.run] = "complete"]
    /\ tool' = Idle
    /\ UNCHANGED <<legacyVars, accountVars, planVars, stagingRun, staging, live, journal>>

-----------------------------------------------------------------------------
\* The digest of what is there is the digest of what the plan says.
AsPlanned(c, a) == \A p \in PartsOf(a) : c.times[p] = 1

\* Mutant: the areas are there, so they are taken to be right.
VerifyPresence(r, c, a) == c.kind # "absent"

\* verify_area(): the rows by number, owner, content digest and marker, the files by
\* hash, and nothing else.
VerifyArea(r, c, a) == c.kind # "absent" /\ c.run = r /\ ~c.own /\ AsPlanned(c, a)

VerifyStaging(r) ==
    /\ checkpoint[r] = "complete" /\ stagingRun = r
    /\ \A u \in MUsers, a \in Areas : VerifyArea(r, staging[u][a], a)

VerifyLive(r) == \A u \in MUsers, a \in Areas : registry[u] /\ VerifyArea(r, live[u][a], a)

\* _precheck() before the first move; _resume_problems() before any later one.
Precheck == \A u \in MUsers, a \in Areas :
    registry[u] /\ live[u][a].kind # "filled" /\ staging[u][a].kind # "absent"
Resumable(r) == \A u \in MUsers, a \in Areas :
    /\ registry[u]
    /\ IF <<u, a>> \in journal[r].moved THEN VerifyArea(r, live[u][a], a)
       ELSE staging[u][a].kind # "absent" \/ live[u][a].kind # "absent"

\* Each user's database, then the files.
Moves == [i \in 1 .. 2 * Cardinality(MUsers) |-> <<UserOrder[(i + 1) \div 2], AreaOrder[2 - (i % 2)]>>]

ActivateBegin(r) ==
    /\ tool = Idle /\ journal[r].status # "complete" /\ Prepare(r)
    /\ IF journal[r].status = "none"
       THEN VerifyStaging(r) /\ Precheck /\ journal' = [journal EXCEPT ![r].status = "moving"]
       ELSE Resumable(r) /\ UNCHANGED journal
    /\ tool' = [cmd |-> "activate", run |-> r, pc |-> "check", at |-> 1, seen |-> legacy]
    /\ UNCHANGED <<legacyVars, accountVars, planVars, applyVars, live>>

Moving(pc) == tool.cmd = "activate" /\ tool.pc = pc /\ tool.at <= Len(Moves)

\* Mutant: a target in the way is removed.
TargetYields(c) == TRUE

TargetFree(c) == c.kind # "filled"

\* _move_area() looks at both places; an empty target is removed.
MoveCheck ==
    /\ Moving("check")
    /\ LET u == Moves[tool.at][1]
           a == Moves[tool.at][2]
           verified == VerifyArea(tool.run, staging[u][a], a)
       IN CASE <<u, a>> \in journal[tool.run].moved ->
                 tool' = [tool EXCEPT !.at = @ + 1] /\ UNCHANGED live
            [] <<u, a>> \notin journal[tool.run].moved /\ staging[u][a].kind # "absent" ->
                 IF verified /\ TargetFree(live[u][a])
                 THEN /\ live' = [live EXCEPT ![u][a] = Absent]
                      /\ tool' = [tool EXCEPT !.pc = "replace"]
                 ELSE tool' = Idle /\ UNCHANGED live
            [] OTHER ->
                 /\ UNCHANGED live
                 /\ tool' = IF VerifyArea(tool.run, live[u][a], a)
                            THEN [tool EXCEPT !.pc = "record"] ELSE Idle
    /\ UNCHANGED <<legacyVars, accountVars, planVars, applyVars, journal>>

\* One rename, which fails when the account's directory is gone.
MoveReplace ==
    /\ Moving("replace")
    /\ LET u == Moves[tool.at][1]
           a == Moves[tool.at][2]
       IN IF registry[u]
          THEN /\ live' = [live EXCEPT ![u][a] = staging[u][a]]
               /\ staging' = [staging EXCEPT ![u][a] = Absent]
               /\ tool' = [tool EXCEPT !.pc = "record"]
          ELSE tool' = Idle /\ UNCHANGED <<live, staging>>
    /\ UNCHANGED <<legacyVars, accountVars, planVars, stagingRun, checkpoint, journal>>

MoveRecord ==
    /\ Moving("record")
    /\ journal' = [journal EXCEPT ![tool.run].moved = @ \cup {Moves[tool.at]}]
    /\ tool' = [tool EXCEPT !.pc = "check", !.at = @ + 1]
    /\ UNCHANGED <<legacyVars, accountVars, planVars, applyVars, live>>

\* All is moved and verified where it lies now: the journal says so, and an empty
\* staging belongs to no run.
ActivateFinish ==
    /\ tool.cmd = "activate" /\ tool.at > Len(Moves)
    /\ IF VerifyLive(tool.run)
       THEN /\ journal' = [journal EXCEPT ![tool.run].status = "complete"]
            /\ stagingRun' = IF \A u \in MUsers, a \in Areas : staging[u][a].kind = "absent"
                             THEN NoRun ELSE stagingRun
       ELSE UNCHANGED <<journal, stagingRun>>
    /\ tool' = Idle
    /\ UNCHANGED <<legacyVars, accountVars, planVars, staging, checkpoint, live>>

\* unlock --yes: in the order of the manifest, up to the first lock another run took over.
Unlock(r) ==
    /\ tool = Idle /\ Sealed(r) /\ NoActivationInProgress
    /\ \E a \in Areas : lock[a] = r
    /\ lock' = [a \in Areas |->
          IF lock[a] = r /\ (a = "db" \/ lock["db"] \in {r, NoRun}) THEN NoRun ELSE lock[a]]
    /\ UNCHANGED <<legacyVars, accountVars, drawn, manifests, applyVars, live, journal, tool>>

ToolDies ==
    /\ tool # Idle
    /\ tool' = Idle
    /\ UNCHANGED <<legacyVars, accountVars, planVars, applyVars, live, journal>>

-----------------------------------------------------------------------------
(* The rest of the world.                                                   *)

\* A mode 0 process opens a store only where no lock lies.
WriterOpens(a) ==
    /\ ~writerOpen[a] /\ lock[a] = NoRun
    /\ writerOpen' = [writerOpen EXCEPT ![a] = TRUE]
    /\ UNCHANGED <<legacy, accountVars, planVars, applyVars, live, journal, tool>>

\* The token store was looked at when it was opened; the metadata stores look again.
WriterWrites(a) ==
    /\ writerOpen[a] /\ (a = "files" => lock[a] = NoRun)
    /\ legacy[a] < MaxWrites
    /\ legacy' = [legacy EXCEPT ![a] = @ + 1]
    /\ UNCHANGED <<writerOpen, accountVars, planVars, applyVars, live, journal, tool>>

\* The operator keeps the servers down while the tool runs, as it demands.
StartOrStopServers ==
    /\ tool = Idle
    /\ servers' = ~servers
    /\ UNCHANGED <<legacyVars, registry, planVars, applyVars, live, journal, tool>>

UserWrites(u, a) ==
    /\ servers /\ registry[u]
    /\ live' = [live EXCEPT ![u][a] = [@ EXCEPT !.kind = "filled", !.own = TRUE]]
    /\ UNCHANGED <<legacyVars, accountVars, planVars, applyVars, journal, tool>>

RemoveAccount(u) ==
    /\ registry[u]
    /\ registry' = [registry EXCEPT ![u] = FALSE]
    /\ live' = [live EXCEPT ![u] = [a \in Areas |-> Absent]]
    /\ UNCHANGED <<legacyVars, servers, planVars, applyVars, journal, tool>>

ToolStep ==
    \/ \E r \in Runs : PlanBegin(r) \/ ApplyBegin(r) \/ ActivateBegin(r) \/ Unlock(r)
    \/ PlanLock \/ PlanFingerprint \/ PlanSnapshot \/ PlanWrite \/ PlanSeal
    \/ ApplyStep \/ ApplyFinish
    \/ MoveCheck \/ MoveReplace \/ MoveRecord \/ ActivateFinish

MigrationNext ==
    \/ ToolStep \/ ToolDies \/ StartOrStopServers
    \/ \E a \in Areas : WriterOpens(a) \/ WriterWrites(a)
    \/ \E u \in MUsers : RemoveAccount(u) \/ \E a \in Areas : UserWrites(u, a)

MigrationSpec == MigrationInit /\ [][MigrationNext]_migrationVars

-----------------------------------------------------------------------------
\* However often plan, apply and activate were killed and run again, an activation is
\* recorded as complete only when each user's stores hold each planned part exactly
\* once, all from that run and nothing else, and the plan was taken from the legacy
\* data as this activate found it (prepare, _resume_problems and the live verification
\* in run_activate).
CompletesAsPlanned ==
    \A r \in Runs : journal[r].status # "complete" /\ journal'[r].status = "complete" =>
      /\ \A u \in MUsers, a \in Areas :
            /\ live[u][a].run = r /\ ~live[u][a].own
            /\ \A p \in PartsOf(a) : live[u][a].times[p] = 1
      /\ tool.seen["db"] = manifests[r].snap
      /\ tool.seen["files"] = manifests[r].source["files"]

\* What a user wrote in mode 1 is never removed or replaced by the tool, in a first
\* activation or in one resumed after the servers ran in between (_precheck and
\* _move_area refuse a target with files).
OwnDataKept ==
    \A u \in MUsers, a \in Areas :
      registry'[u] /\ live[u][a].own => live'[u][a].own

\* A step applied again after a kill adds nothing: no part is in a store twice
\* (run_step's marker in the rows' own transaction).
NothingTwice ==
    \A u \in MUsers, a \in Areas, p \in Parts : staging[u][a].times[p] < 2 /\ live[u][a].times[p] < 2

\* An activation that was begun can be resumed or planned anew: when the accounts of the
\* mapping have changed, the error asks for a new plan (applier.py's registry_problems).
ReplanPossible ==
    \A r \in Runs : Sealed(r) /\ (\E u \in MUsers : ~registry[u]) => NoActivationInProgress

=============================================================================
