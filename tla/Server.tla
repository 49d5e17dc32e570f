-------------------------------- MODULE Server --------------------------------
(* What a server process and its data root go through, one component at a time:  *)
(* a behaviour is one of tool calls (ToolCall), of users' data keys (UserKeys),   *)
(* of processes starting and stopping (Startup), of the plan of a migration       *)
(* (MigrationPlan) or of the migration itself (Migration). The variables of the   *)
(* other components are Off.                                                      *)
EXTENDS Naturals, Sequences, FiniteSets, SequencesExt

CONSTANTS Users, Requests, UserOf, FlawsOf, EnvDefault, Known, Nobody,      \* ToolCall
          KeyUsers, KeyProcs, Keks, Deployments, Here,
          MaxDeks, MaxRecord, CacheMax, NoKey,                             \* UserKeys
          Starters, KindOf, Services, Legacy, Environments, MaxIds,        \* Startup
          POwners, Emails, Paths, Stamps, MaxEntries, MaxRules, MaxItems,
          None, Ambiguous,                                                 \* MigrationPlan
          MUsers, Runs, RowSteps, FileParts, MaxWrites, NoRun,             \* Migration
          Off

VARIABLES part,
  policy, standing, flaws, callPc, acting, service, answer, records,
  kek, wrapped, cache, tokens, creating, known, touched, made, opened,
  env, bootPc, bootId, ready, failed, closed, at, marker, frozen, ids,
  planPhase, emailOwner, claims, rules, planConflicts, files, rows, winners, rowQuarantine,
  byRow, planRecords,
  legacy, writerOpen, lock, servers, registry, drawn, manifests, stagingRun, staging, live,
  checkpoint, journal, tool

Calls == INSTANCE ToolCall
Keys == INSTANCE UserKeys
Boot == INSTANCE Startup
Plan == INSTANCE MigrationPlan WITH records <- planRecords
Move == INSTANCE Migration

ASSUME ServerAssumption ==
  /\ Calls!CallAssumption /\ Keys!KeyAssumption /\ Boot!BootAssumption
  /\ Plan!PlanAssumption /\ Move!MoveAssumption

-----------------------------------------------------------------------------
callVars == <<policy, standing, flaws, callPc, acting, service, answer, records>>
keyVars == <<kek, wrapped, cache, tokens, creating, known, touched, made, opened>>
bootVars == <<env, bootPc, bootId, ready, failed, closed, at, marker, frozen, ids>>
planVars == <<planPhase, emailOwner, claims, rules, planConflicts, files, rows, winners,
              rowQuarantine, byRow, planRecords>>
moveVars == <<legacy, writerOpen, lock, servers, registry, drawn, manifests, stagingRun, staging,
              live, checkpoint, journal, tool>>

vars == <<part, callVars, keyVars, bootVars, planVars, moveVars>>

CallsOff == /\ policy = Off /\ standing = Off /\ flaws = Off /\ callPc = Off
            /\ acting = Off /\ service = Off /\ answer = Off /\ records = Off
KeysOff == /\ kek = Off /\ wrapped = Off /\ cache = Off /\ tokens = Off /\ creating = Off
           /\ known = Off /\ touched = Off /\ made = Off /\ opened = Off
BootOff == /\ env = Off /\ bootPc = Off /\ bootId = Off /\ ready = Off /\ failed = Off
           /\ closed = Off /\ at = Off /\ marker = Off /\ frozen = Off /\ ids = Off
PlanOff == /\ planPhase = Off /\ emailOwner = Off /\ claims = Off /\ rules = Off
           /\ planConflicts = Off /\ files = Off /\ rows = Off /\ winners = Off
           /\ rowQuarantine = Off /\ byRow = Off /\ planRecords = Off
MoveOff == /\ legacy = Off /\ writerOpen = Off /\ lock = Off /\ servers = Off /\ registry = Off
           /\ drawn = Off /\ manifests = Off /\ stagingRun = Off /\ staging = Off /\ live = Off
           /\ checkpoint = Off /\ journal = Off /\ tool = Off

Init ==
  \/ part = "calls" /\ Calls!Init /\ KeysOff /\ BootOff /\ PlanOff /\ MoveOff
  \/ part = "keys" /\ Keys!KeyInit /\ CallsOff /\ BootOff /\ PlanOff /\ MoveOff
  \/ part = "boot" /\ Boot!BootInit /\ CallsOff /\ KeysOff /\ PlanOff /\ MoveOff
  \/ part = "plan" /\ Plan!PlanInit /\ CallsOff /\ KeysOff /\ BootOff /\ MoveOff
  \/ part = "move" /\ Move!MigrationInit /\ CallsOff /\ KeysOff /\ BootOff /\ PlanOff

CallStep == part = "calls" /\ Calls!Next /\ UNCHANGED <<part, keyVars, bootVars, planVars, moveVars>>
KeyStep == part = "keys" /\ Keys!KeyNext /\ UNCHANGED <<part, callVars, bootVars, planVars, moveVars>>
BootStep == part = "boot" /\ Boot!BootNext /\ UNCHANGED <<part, callVars, keyVars, planVars, moveVars>>
PlanStep == part = "plan" /\ Plan!PlanNext /\ UNCHANGED <<part, callVars, keyVars, bootVars, moveVars>>
MoveStep == part = "move" /\ Move!MigrationNext /\ UNCHANGED <<part, callVars, keyVars, bootVars, planVars>>

Next == CallStep \/ KeyStep \/ BootStep \/ PlanStep \/ MoveStep

Spec == Init /\ [][Next]_vars

-----------------------------------------------------------------------------
\* Every variable of the component at work has its type.
TypeOK ==
  /\ part = "calls" => Calls!TypeOK
  /\ part = "keys" => Keys!KeyTypeOK
  /\ part = "boot" => Boot!BootTypeOK
  /\ part = "plan" => Plan!PlanTypeOK
  /\ part = "move" => Move!MigrationTypeOK

\* A tool call acts for its caller alone, whatever context the SDK leaves behind
\* (ActsForItsCaller), what the audit log says of it is what its caller was answered
\* (AuditTellsTheAnswer), and a caller revoked while it runs is not answered with
\* what it found (RevokedGetsNothing): http_identity.py, mcp_identity_bridge.py,
\* runtime.py.
CallsAreTheCallers ==
  /\ [](part = "calls" => Calls!ActsForItsCaller /\ Calls!AuditTellsTheAnswer)
  /\ [][part = "calls" => Calls!RevokedGetsNothing]_vars

\* Sealed records and the key in the file stay a pair whatever registrations and
\* deletions race (RecordsFitTheKey), and a record opens only under the KEK and at the
\* deployment, user and file it was wrapped for (OpensWhereItBelongs):
\* user_crypto.py, key_provider.py.
KeysFit == part = "keys" => Keys!RecordsFitTheKey /\ Keys!OpensWhereItBelongs

\* Processes that start at once on one data root agree on one deployment
\* (OneDeployment), a server answers only with the environment and stores it may
\* serve (ServesOnlySafely), and its health names exactly the services that are up
\* (HealthIsTrue): security_policy.py, bootstrap.py, http_transport.py.
StartsSafely ==
  part = "boot" => Boot!OneDeployment /\ Boot!ServesOnlySafely /\ Boot!HealthIsTrue

\* The plan gives every legacy row, file and record to one user or sets it aside
\* (EachRowOnce), and to nobody whose it is not (NobodyGetsAnothers): planner.py,
\* mapping.py. However often apply and activate are killed and run again, nothing is
\* moved or copied twice (NothingTwice), a run that completes has moved what was
\* planned (CompletesAsPlanned), and what the users had already stays (OwnDataKept):
\* applier.py, activator.py.
MigrationKeepsData ==
  /\ [](part = "plan" => Plan!EachRowOnce /\ Plan!NobodyGetsAnothers)
  /\ [](part = "move" => Move!NothingTwice)
  /\ [][part = "move" => Move!CompletesAsPlanned /\ Move!OwnDataKept]_vars
=============================================================================
