--------------------------- MODULE MigrationProofs ---------------------------
(* The invariants of the migration, for any number of users, runs, rows and       *)
(* files: Migration (MoveInv), where every target is free of what its user wrote  *)
(* while the tool runs, and MigrationPlan (PlanInv), where every row, file and    *)
(* record read so far went somewhere, and nowhere else. Both are Server's parts;  *)
(* ServerProofs puts them together with the others.                               *)
EXTENDS Server, FiniteSetTheorems, TLAPS

-----------------------------------------------------------------------------
(* Migration: the invariants                                                   *)

MoveAsm == Move!MoveAssumption

Versions == 0 .. MaxWrites
Dirs == [MUsers -> [Move!Areas -> Move!Content]]
Manifest == {Move!NoManifest}
            \cup [state : {"unsealed", "sealed"}, conflicts : BOOLEAN, snap : Versions,
                  source : [db : Versions, files : Versions]]
\* The command that runs, as far as it is.
Tool ==
  {Move!Idle}
  \cup [cmd : {"plan"}, run : Runs, pc : {"lock", "fingerprint", "seal"}]
  \cup [cmd : {"plan"}, run : Runs, pc : {"snapshot"}, fp : Versions]
  \cup [cmd : {"plan"}, run : Runs, pc : {"write"}, fp : Versions, snap : Versions]
  \cup [cmd : {"apply"}, run : Runs, at : Nat]
  \cup [cmd : {"activate"}, run : Runs, pc : {"check", "replace", "record"}, at : Nat \ {0},
        seen : [Move!Areas -> Versions]]

\* What is on the disks.
DataTypes ==
  /\ legacy \in [Move!Areas -> Versions] /\ writerOpen \in [Move!Areas -> BOOLEAN]
  /\ lock \in [Move!Areas -> Runs \cup {NoRun}] /\ drawn \subseteq Runs
  /\ servers \in BOOLEAN /\ registry \in [MUsers -> BOOLEAN]
  /\ manifests \in [Runs -> Manifest]
  /\ stagingRun \in Runs \cup {NoRun} /\ staging \in Dirs /\ live \in Dirs
  /\ checkpoint \in [Runs -> {"none", "in_progress", "complete"}]
  /\ journal \in [Runs -> [status : {"none", "moving", "complete"}, moved : SUBSET (MUsers \X Move!Areas)]]

\* What is sealed is a manifest that was written.
WrittenFirst ==
  tool.cmd = "plan" /\ tool.pc = "seal" => manifests[tool.run].state = "unsealed"

MoveTypes == DataTypes /\ tool \in Tool /\ WrittenFirst

\* No part is in a directory twice, and only a user's own servers write as such.
DirsTrue ==
  \A u \in MUsers, a \in Move!Areas :
    /\ \A p \in Move!Parts : staging[u][a].times[p] < 2 /\ live[u][a].times[p] < 2
    /\ ~staging[u][a].own
    /\ live[u][a].own => live[u][a].kind = "filled"

\* The servers are down while the tool runs, and the target of the next rename is not
\* what a user wrote.
TargetsFree ==
  /\ tool # Move!Idle => ~servers
  /\ tool.cmd = "activate" /\ tool.pc = "replace" =>
       \A u \in MUsers, a \in Move!Areas :
         u = Move!Moves[tool.at][1] /\ a = Move!Moves[tool.at][2] => ~live[u][a].own

\* The database was hashed, copied and is now, in that order; an activation under way saw
\* what its plan was taken from.
PlannedFrom ==
  /\ \A r \in Runs : manifests[r].state # "none" =>
       manifests[r].source.db <= manifests[r].snap /\ manifests[r].snap <= legacy["db"]
  /\ tool.cmd = "plan" /\ tool.pc = "snapshot" => tool.fp <= legacy["db"]
  /\ tool.cmd = "plan" /\ tool.pc = "write" => tool.fp <= tool.snap /\ tool.snap <= legacy["db"]
  /\ tool.cmd = "activate" =>
       /\ tool.seen["db"] = manifests[tool.run].snap
       /\ tool.seen["files"] = manifests[tool.run].source.files

MoveInv == MoveTypes /\ DirsTrue /\ TargetsFree /\ PlannedFrom

-----------------------------------------------------------------------------
(* Migration: the steps                                                        *)

\* The command of a tool that runs, by what it does.
LEMMA ToolIs ==
  ASSUME tool \in Tool
  PROVE  /\ tool.cmd \in {"none", "plan", "apply", "activate"} /\ (tool.cmd = "none" <=> tool = Move!Idle)
         /\ tool.cmd # "none" => tool.run \in Runs
         /\ tool.cmd \in {"apply", "activate"} => tool.at \in Nat
         /\ tool.cmd = "activate" => tool.at > 0
         /\ tool.cmd = "plan" /\ tool.pc = "snapshot" => tool.fp \in Versions
         /\ tool.cmd = "plan" /\ tool.pc = "write" => tool.fp \in Versions /\ tool.snap \in Versions
         /\ tool.cmd = "activate" => tool.seen \in [Move!Areas -> Versions]
  BY DEF Tool, Move!Idle

\* What a directory starts as.
LEMMA DirIs ==
  ASSUME NEW kind \in {"absent", "empty", "filled"}
  PROVE  Move!Dir(kind) \in Move!Content /\ ~Move!Dir(kind).own
         /\ \A p \in Move!Parts : Move!Dir(kind).times[p] = 0
  BY DEF Move!Dir, Move!Content

\* No directory.
LEMMA AbsentIs ==
  /\ Move!Absent \in Move!Content /\ ~Move!Absent.own
  /\ \A p \in Move!Parts : Move!Absent.times[p] = 0
  BY DirIs DEF Move!Absent

\* Another directory in the place of one.
LEMMA DirSet ==
  ASSUME NEW d \in Dirs, NEW v \in MUsers, NEW b \in Move!Areas, NEW c \in Move!Content,
         NEW e, e = [d EXCEPT ![v][b] = c]
  PROVE  e \in Dirs /\ \A u \in MUsers, a \in Move!Areas :
                         e[u][a] = IF u = v /\ a = b THEN c ELSE d[u][a]
  BY DEF Dirs

\* What a user's server makes of a directory.
LEMMA OwnIs ==
  ASSUME NEW c \in Move!Content
  PROVE  /\ [c EXCEPT !.kind = "filled", !.own = TRUE] \in Move!Content
         /\ [c EXCEPT !.kind = "filled", !.own = TRUE].kind = "filled"
         /\ [c EXCEPT !.kind = "filled", !.own = TRUE].times = c.times
  BY DEF Move!Content

\* The moves are of the users' directories.
LEMMA MovesTyped ==
  ASSUME MoveAsm
  PROVE  \A i \in 1 .. Len(Move!Moves) :
           /\ Move!Moves[i] \in MUsers \X Move!Areas
           /\ Move!Moves[i][1] \in MUsers /\ Move!Moves[i][2] \in Move!Areas
           /\ Move!Moves[i] = <<Move!Moves[i][1], Move!Moves[i][2]>>
<1> DEFINE n == Cardinality(MUsers)
<1>a. IsFiniteSet(MUsers)
  BY DEF MoveAsm, Move!MoveAssumption, Move!IsFiniteSet, IsFiniteSet
<1>b. Move!Cardinality(MUsers) = n
  BY DEF Move!Cardinality, Cardinality
<1>1. n \in Nat
  BY <1>a, FS_CardinalityType
<1>2. Move!UserOrder \in [1 .. n -> MUsers]
  <2>1. PICK f \in [1 .. n -> MUsers] : \A x, y \in 1 .. n : f[x] = f[y] => x = y
    BY <1>a, FS_CardinalityType DEF ExistsBijection, Bijection, Injection, IsInjective
  <2>2. Move!IsInjective(f)
    BY <2>1 DEF Move!IsInjective
  <2> QED BY <1>b, <2>2 DEF Move!UserOrder, Move!SetToSeq
<1>3. Len(Move!Moves) = 2 * n
  BY <1>1, <1>b DEF Move!Moves
<1>4. ASSUME NEW i \in 1 .. 2 * n
      PROVE  Move!Moves[i] = <<Move!UserOrder[(i + 1) \div 2], Move!AreaOrder[2 - (i % 2)]>>
             /\ (i + 1) \div 2 \in 1 .. n /\ 2 - (i % 2) \in 1 .. 2
  BY <1>1, <1>b DEF Move!Moves
<1>5. Move!AreaOrder[1] \in Move!Areas /\ Move!AreaOrder[2] \in Move!Areas
  BY DEF Move!AreaOrder, Move!Areas
<1> HIDE DEF n
<1>6. ASSUME NEW i \in 1 .. 2 * n
      PROVE  \E u \in MUsers, a \in Move!Areas : Move!Moves[i] = <<u, a>>
  <2>1. Move!UserOrder[(i + 1) \div 2] \in MUsers
    BY <1>2, <1>4
  <2>2. Move!AreaOrder[2 - (i % 2)] \in Move!Areas
    <3>1. 2 - (i % 2) = 1 \/ 2 - (i % 2) = 2
      BY <1>4
    <3> QED BY <1>5, <3>1
  <2> QED BY <1>4, <2>1, <2>2
<1>7. ASSUME NEW i \in 1 .. Len(Move!Moves)
      PROVE  /\ Move!Moves[i] \in MUsers \X Move!Areas
             /\ Move!Moves[i][1] \in MUsers /\ Move!Moves[i][2] \in Move!Areas
             /\ Move!Moves[i] = <<Move!Moves[i][1], Move!Moves[i][2]>>
  <2>1. PICK u \in MUsers, a \in Move!Areas : Move!Moves[i] = <<u, a>>
    BY <1>3, <1>6
  <2> QED BY <2>1
<1> QED BY <1>7

\* What a part written into a directory makes of it.
LEMMA WrittenIs ==
  ASSUME NEW c \in Move!Content, NEW p, NEW r \in Runs
  PROVE  /\ Move!Written(c, p, r) \in Move!Content
         /\ Move!Written(c, p, r).own = c.own
         /\ \A q \in Move!Parts : Move!Written(c, p, r).times[q] =
              IF q = p /\ c.times[q] # 2 THEN c.times[q] + 1 ELSE c.times[q]
<1> DEFINE t == [c.times EXCEPT ![p] = IF @ = 2 THEN 2 ELSE @ + 1]
<1>1. c = [kind |-> c.kind, run |-> c.run, times |-> c.times, own |-> c.own]
      /\ c.times \in [Move!Parts -> 0 .. 2] /\ c.own \in BOOLEAN
  BY DEF Move!Content
<1>2. \A q \in Move!Parts : t[q] = IF q = p /\ c.times[q] # 2 THEN c.times[q] + 1 ELSE c.times[q]
  BY <1>1
<1>3. t \in [Move!Parts -> 0 .. 2]
  <2>1. \A q \in Move!Parts : t[q] \in 0 .. 2
    BY <1>1, <1>2
  <2>2. t = [q \in Move!Parts |-> t[q]]
    BY <1>1
  <2> HIDE DEF t
  <2> QED BY <2>1, <2>2
<1>4. Move!Written(c, p, r) = [[c EXCEPT !.kind = "filled", !.run = r] EXCEPT !.times = t]
  BY <1>1 DEF Move!Written
<1> HIDE DEF t
<1>5. Move!Written(c, p, r) = [kind |-> "filled", run |-> r, times |-> t, own |-> c.own]
  BY <1>1, <1>4
<1> QED BY <1>1, <1>2, <1>3, <1>5 DEF Move!Content

\* What a rename makes of the two places.
LEMMA Replaced ==
  ASSUME MoveAsm, MoveTypes, Move!MoveReplace
  PROVE  \/ UNCHANGED <<live, staging>>
         \/ /\ Move!Moves[tool.at][1] \in MUsers /\ Move!Moves[tool.at][2] \in Move!Areas
            /\ staging' \in Dirs /\ live' \in Dirs
            /\ \A u \in MUsers, a \in Move!Areas :
                 IF u = Move!Moves[tool.at][1] /\ a = Move!Moves[tool.at][2]
                 THEN live'[u][a] = staging[u][a] /\ staging'[u][a] = Move!Absent
                 ELSE live'[u][a] = live[u][a] /\ staging'[u][a] = staging[u][a]
<1> DEFINE v == Move!Moves[tool.at][1]
           b == Move!Moves[tool.at][2]
<1>1. v \in MUsers /\ b \in Move!Areas /\ live \in Dirs /\ staging \in Dirs
  BY MovesTyped, ToolIs DEF MoveTypes, DataTypes, Move!MoveReplace, Move!Moving
<1>2. CASE UNCHANGED <<live, staging>>
  BY <1>2
<1>3. CASE /\ live' = [live EXCEPT ![v][b] = staging[v][b]]
           /\ staging' = [staging EXCEPT ![v][b] = Move!Absent]
  <2>1. staging[v][b] \in Move!Content /\ Move!Absent \in Move!Content
    BY <1>1, AbsentIs DEF Dirs
  <2> HIDE DEF v, b
  <2>2. live' \in Dirs /\ \A u \in MUsers, a \in Move!Areas :
          live'[u][a] = IF u = v /\ a = b THEN staging[v][b] ELSE live[u][a]
    BY <1>1, <1>3, <2>1 DEF Dirs
  <2>3. staging' \in Dirs /\ \A u \in MUsers, a \in Move!Areas :
          staging'[u][a] = IF u = v /\ a = b THEN Move!Absent ELSE staging[u][a]
    BY <1>1, <1>3, <2>1 DEF Dirs
  <2> QED BY <1>1, <2>2, <2>3 DEF v, b
<1> QED BY <1>2, <1>3 DEF Move!MoveReplace

\* What a step of apply makes of the staging.
LEMMA Staged ==
  ASSUME MoveTypes, Move!ApplyStep
  PROVE  /\ staging' \in Dirs
         /\ \A u \in MUsers, a \in Move!Areas :
              /\ ~staging[u][a].own => ~staging'[u][a].own
              /\ \A p \in Move!Parts : staging[u][a].times[p] < 2 => staging'[u][a].times[p] < 2
<1> DEFINE v == Move!ApplyWork[tool.at][1]
           what == Move!ApplyWork[tool.at][2]
           Fine(s) == /\ s \in Dirs
                      /\ \A u \in MUsers, a \in Move!Areas :
                           /\ ~staging[u][a].own => ~s[u][a].own
                           /\ \A p \in Move!Parts : staging[u][a].times[p] < 2 => s[u][a].times[p] < 2
<1>1. staging \in Dirs /\ tool.run \in Runs
  BY ToolIs DEF MoveTypes, DataTypes, Move!ApplyStep
<1>2. CASE staging' = staging
  BY <1>1, <1>2
<1>3. CASE Move!EnsureStorage(v)
  <2>1. staging' = [staging EXCEPT
          ![v]["db"] = IF @.kind = "absent" THEN Move!Dir("filled") ELSE @,
          ![v]["files"] = IF @.kind = "absent" THEN Move!Dir("empty") ELSE @]
    BY <1>3 DEF Move!EnsureStorage
  <2> DEFINE d == IF staging[v]["db"].kind = "absent" THEN Move!Dir("filled") ELSE staging[v]["db"]
             f == IF staging[v]["files"].kind = "absent" THEN Move!Dir("empty") ELSE staging[v]["files"]
  <2>2. CASE v \notin MUsers
    <3>1. staging' = staging
      BY <1>1, <2>1, <2>2 DEF Dirs
    <3> QED BY <3>1, <1>2
  <2>3. CASE v \in MUsers
    <3>1. staging[v] \in [Move!Areas -> Move!Content] /\ Move!Areas = {"db", "files"}
      BY <1>1, <2>3 DEF Dirs, Move!Areas
    <3>2. d \in Move!Content /\ f \in Move!Content
      BY <3>1, DirIs
    <3>3. staging' = [staging EXCEPT ![v] = [staging[v] EXCEPT !["db"] = d, !["files"] = f]]
      BY <1>1, <2>1, <2>3, <3>1 DEF Dirs
    <3>4. d \in {staging[v]["db"], Move!Dir("filled")} /\ f \in {staging[v]["files"], Move!Dir("empty")}
      OBVIOUS
    <3> HIDE DEF d, f
    <3>5. staging' \in Dirs
      BY <1>1, <2>3, <3>1, <3>2, <3>3 DEF Dirs
    <3>6. \A u \in MUsers, a \in Move!Areas :
            staging'[u][a] \in {staging[u][a], Move!Dir("filled"), Move!Dir("empty")}
      BY <1>1, <2>3, <3>1, <3>3, <3>4 DEF Dirs
    <3> QED BY <3>5, <3>6, DirIs
  <2> QED BY <2>2, <2>3
<1>4. ASSUME NEW b \in Move!Areas, Move!Put(v, b, what, tool.run) PROVE Fine(staging')
  <2>1. CASE staging[v][b].times[what] > 0
    BY <1>2, <1>4, <2>1 DEF Move!Put
  <2>2. CASE ~(staging[v][b].times[what] > 0)
    <3>1. staging' = [staging EXCEPT ![v][b] = Move!Written(@, what, tool.run)]
      BY <1>4, <2>2 DEF Move!Put
    <3>2. CASE v \notin MUsers
      <4>1. staging' = staging
        BY <1>1, <3>1, <3>2 DEF Dirs
      <4> QED BY <4>1, <1>2
    <3>3. CASE v \in MUsers
      <4> DEFINE w == Move!Written(staging[v][b], what, tool.run)
      <4>1. staging[v][b] \in Move!Content
        BY <1>1, <3>3 DEF Dirs
      <4>2. /\ w \in Move!Content /\ w.own = staging[v][b].own
            /\ \A q \in Move!Parts : w.times[q] =
                 IF q = what /\ staging[v][b].times[q] # 2 THEN staging[v][b].times[q] + 1
                 ELSE staging[v][b].times[q]
        BY <1>1, <4>1, WrittenIs
      <4> HIDE DEF w
      <4>3. \A q \in Move!Parts : staging[v][b].times[q] < 2 => w.times[q] < 2
        <5>1. staging[v][b].times \in [Move!Parts -> 0 .. 2]
          BY <4>1 DEF Move!Content
        <5> SUFFICES ASSUME NEW q \in Move!Parts, staging[v][b].times[q] < 2 PROVE w.times[q] < 2
          OBVIOUS
        <5>2. CASE q = what
          <6>1. staging[v][b].times[what] = 0
            BY <2>2, <5>1, <5>2
          <6>2. w.times[q] = staging[v][b].times[q] + 1 \/ w.times[q] = staging[v][b].times[q]
            BY <4>2, Zenon
          <6> QED BY <5>2, <6>1, <6>2
        <5>3. CASE q # what
          BY <4>2, <5>3
        <5> QED BY <5>2, <5>3
      <4>4. staging' = [staging EXCEPT ![v] = [staging[v] EXCEPT ![b] = w]]
        BY <3>1 DEF w
      <4>5. staging' \in Dirs
        BY <1>1, <3>3, <4>2, <4>4 DEF Dirs
      <4>6. \A u \in MUsers, a \in Move!Areas : staging'[u][a] = IF u = v /\ a = b THEN w ELSE staging[u][a]
        BY <1>1, <3>3, <4>4 DEF Dirs
      <4> QED BY <4>2, <4>3, <4>5, <4>6
    <3> QED BY <3>2, <3>3
  <2> QED BY <2>1, <2>2
<1>5. CASE Move!Put(v, IF what \in RowSteps THEN "db" ELSE "files", what, tool.run)
  <2>1. (IF what \in RowSteps THEN "db" ELSE "files") \in Move!Areas
    BY DEF Move!Areas
  <2> QED BY <1>4, <1>5, <2>1
<1>6. Move!EnsureStorage(v) \/ staging' = staging
      \/ Move!Put(v, IF what \in RowSteps THEN "db" ELSE "files", what, tool.run)
  BY DEF Move!ApplyStep
<1> QED BY <1>2, <1>3, <1>5, <1>6

\* What a look at the next directory does: on, to its rename, to its record, or the end.
LEMMA CheckIs ==
  ASSUME Move!MoveCheck
  PROVE  LET v == Move!Moves[tool.at][1]
             b == Move!Moves[tool.at][2]
         IN /\ tool.cmd = "activate" /\ tool.pc = "check" /\ tool.at <= Move!Len(Move!Moves)
            /\ UNCHANGED <<legacy, writerOpen, servers, registry, lock, drawn, manifests, stagingRun,
                           staging, checkpoint, journal>>
            /\ \/ live' = live /\ tool' = [tool EXCEPT !.at = @ + 1]
               \/ live' = live /\ tool' = Move!Idle
               \/ live' = live /\ tool' = [tool EXCEPT !.pc = "record"]
               \/ live' = [live EXCEPT ![v][b] = Move!Absent] /\ tool' = [tool EXCEPT !.pc = "replace"]
<1> DEFINE v == Move!Moves[tool.at][1]
           b == Move!Moves[tool.at][2]
           moved == <<v, b>> \in journal[tool.run].moved
           planned == <<v, b>> \notin journal[tool.run].moved /\ staging[v][b].kind # "absent"
<1>1. /\ tool.cmd = "activate" /\ tool.pc = "check" /\ tool.at <= Move!Len(Move!Moves)
      /\ UNCHANGED <<legacy, writerOpen, servers, registry, lock, drawn, manifests, stagingRun,
                     staging, checkpoint, journal>>
  BY Zenon DEF Move!MoveCheck, Move!Moving, Move!legacyVars, Move!accountVars, Move!planVars, Move!applyVars
<1>2. CASE moved
  <2>1. live' = live /\ tool' = [tool EXCEPT !.at = @ + 1]
    BY <1>2 DEF Move!MoveCheck
  <2> QED BY <1>1, <2>1
<1>3. CASE planned
  <2>1. \/ live' = [live EXCEPT ![v][b] = Move!Absent] /\ tool' = [tool EXCEPT !.pc = "replace"]
        \/ tool' = Move!Idle /\ live' = live
    BY <1>3 DEF Move!MoveCheck
  <2> QED BY <1>1, <2>1
<1>4. CASE ~moved /\ ~planned
  <2>1. live' = live /\ (tool' = [tool EXCEPT !.pc = "record"] \/ tool' = Move!Idle)
    BY <1>4 DEF Move!MoveCheck
  <2> QED BY <1>1, <2>1
<1> QED BY <1>2, <1>3, <1>4

\* Every step leaves the tool at a point of a command.
LEMMA ToolStepTyped ==
  ASSUME MoveAsm, MoveTypes, [Move!MigrationNext]_Move!migrationVars
  PROVE  tool' \in Tool
<1> USE DEF MoveAsm, Move!MoveAssumption, MoveTypes, DataTypes, Tool, Move!Idle, Move!Areas, Versions, Move!legacyVars, Move!accountVars, Move!planVars, Move!applyVars
<1>1. ASSUME NEW r \in Runs, Move!PlanBegin(r) PROVE tool' \in Tool
  BY <1>1, SMTT(30) DEF Move!PlanBegin
<1>2. ASSUME NEW r \in Runs, Move!ApplyBegin(r) PROVE tool' \in Tool
  BY <1>2, SMTT(30) DEF Move!ApplyBegin
<1>3. ASSUME NEW r \in Runs, Move!ActivateBegin(r) PROVE tool' \in Tool
  BY <1>3, SMTT(30) DEF Move!ActivateBegin
<1>4. ASSUME NEW r \in Runs, Move!Unlock(r) PROVE tool' \in Tool
  BY <1>4, SMTT(30) DEF Move!Unlock
<1>5. CASE Move!PlanLock
  BY <1>5, SMTT(30) DEF Move!PlanLock
<1>6. CASE Move!PlanFingerprint
  BY <1>6, SMTT(30) DEF Move!PlanFingerprint
<1>7. CASE Move!PlanSnapshot
  BY <1>7, SMTT(30) DEF Move!PlanSnapshot
<1>8. CASE Move!PlanWrite
  BY <1>8, SMTT(30) DEF Move!PlanWrite
<1>9. CASE Move!PlanSeal
  BY <1>9, SMTT(30) DEF Move!PlanSeal
<1>10. CASE Move!ApplyStep
  BY <1>10, SMTT(30) DEF Move!ApplyStep
<1>11. CASE Move!ApplyFinish
  BY <1>11, SMTT(30) DEF Move!ApplyFinish
<1>12. CASE Move!MoveCheck
  BY <1>12, CheckIs, SMTT(30)
<1>13. CASE Move!MoveReplace
  BY <1>13, SMTT(30) DEF Move!MoveReplace, Move!Moving
<1>14. CASE Move!MoveRecord
  <2>1. tool \in [cmd : {"activate"}, run : Runs, pc : {"check", "replace", "record"}, at : Nat \ {0},
                 seen : [Move!Areas -> Versions]]
    BY <1>14 DEF Move!MoveRecord, Move!Moving
  <2>2. tool' = [tool EXCEPT !.pc = "check", !.at = tool.at + 1]
    BY <1>14 DEF Move!MoveRecord
  <2>3. tool' \in [cmd : {"activate"}, run : Runs, pc : {"check", "replace", "record"}, at : Nat \ {0},
                  seen : [Move!Areas -> Versions]]
    <3> DEFINE t == tool
    <3>1. t \in [cmd : {"activate"}, run : Runs, pc : {"check", "replace", "record"}, at : Nat \ {0},
                 seen : [Move!Areas -> Versions]]
      BY <2>1
    <3>2. tool' = [cmd |-> "activate", run |-> t.run, pc |-> "check", at |-> t.at + 1, seen |-> t.seen]
      BY <2>1, <2>2
    <3> HIDE DEF t
    <3> QED BY <3>1, <3>2
  <2> QED BY <2>3
<1>15. CASE Move!ActivateFinish
  BY <1>15, SMTT(30) DEF Move!ActivateFinish
<1>16. CASE Move!ToolDies
  BY <1>16, SMTT(30) DEF Move!ToolDies
<1>17. CASE Move!StartOrStopServers
  BY <1>17, SMTT(30) DEF Move!StartOrStopServers
<1>18. ASSUME NEW a \in Move!Areas, Move!WriterOpens(a) PROVE tool' \in Tool
  BY <1>18, SMTT(30) DEF Move!WriterOpens
<1>19. ASSUME NEW a \in Move!Areas, Move!WriterWrites(a) PROVE tool' \in Tool
  BY <1>19, SMTT(30) DEF Move!WriterWrites
<1>20. ASSUME NEW u \in MUsers, Move!RemoveAccount(u) PROVE tool' \in Tool
  BY <1>20, SMTT(30) DEF Move!RemoveAccount
<1>21. ASSUME NEW u \in MUsers, NEW a \in Move!Areas, Move!UserWrites(u, a) PROVE tool' \in Tool
  BY <1>21, SMTT(30) DEF Move!UserWrites
<1>22. CASE UNCHANGED Move!migrationVars
  BY <1>22, SMTT(30) DEF Move!migrationVars
<1> HIDE DEF MoveAsm, Move!MoveAssumption, MoveTypes, DataTypes, Tool, Move!Idle, Move!Areas, Versions, Move!legacyVars, Move!accountVars, Move!planVars, Move!applyVars
<1> QED
  BY <1>1, <1>2, <1>3, <1>4, <1>5, <1>6, <1>7, <1>8, <1>9, <1>10, <1>11, <1>12,
     <1>13, <1>14, <1>15, <1>16, <1>17, <1>18, <1>19, <1>20, <1>21, <1>22
     DEF Move!MigrationNext, Move!ToolStep

\* Every step leaves the disks what they may be.
LEMMA DataStepTyped ==
  ASSUME MoveAsm, MoveTypes, [Move!MigrationNext]_Move!migrationVars
  PROVE  DataTypes'
<1> USE DEF MoveAsm, Move!MoveAssumption, MoveTypes, DataTypes, Move!legacyVars, Move!accountVars, Move!planVars, Move!applyVars
<1>1. ASSUME NEW r \in Runs, Move!PlanBegin(r) PROVE DataTypes'
  BY <1>1, SMTT(30) DEF Move!PlanBegin, Move!Areas
<1>2. ASSUME NEW r \in Runs, Move!ApplyBegin(r) PROVE DataTypes'
  <2>1. staging' = staging \/ staging' = [u \in MUsers |-> [a \in Move!Areas |-> Move!Absent]]
    BY <1>2 DEF Move!ApplyBegin
  <2>2. Move!Absent \in Move!Content
    BY DirIs DEF Move!Absent
  <2>3. staging' \in Dirs
    BY <2>1, <2>2 DEF Dirs
  <2> QED BY <1>2, <2>3 DEF Move!ApplyBegin
<1>3. ASSUME NEW r \in Runs, Move!ActivateBegin(r) PROVE DataTypes'
  <2>1. journal' = journal \/ journal' = [journal EXCEPT ![r].status = "moving"]
    BY <1>3 DEF Move!ActivateBegin
  <2>2. journal' \in [Runs -> [status : {"none", "moving", "complete"}, moved : SUBSET (MUsers \X Move!Areas)]]
    BY <2>1
  <2> QED BY <1>3, <2>2 DEF Move!ActivateBegin
<1>4. ASSUME NEW r \in Runs, Move!Unlock(r) PROVE DataTypes'
  BY <1>4, SMTT(30) DEF Move!Unlock
<1>5. CASE Move!PlanLock
  BY <1>5, ToolIs, SMTT(30) DEF Move!PlanLock, Move!Areas
<1>6. CASE Move!PlanFingerprint
  BY <1>6, SMTT(30) DEF Move!PlanFingerprint, Versions
<1>7. CASE Move!PlanSnapshot
  BY <1>7, SMTT(30) DEF Move!PlanSnapshot
<1>8. CASE Move!PlanWrite
  <2>1. PICK conflicts \in BOOLEAN :
          manifests' = [manifests EXCEPT ![tool.run] =
            [state |-> "unsealed", conflicts |-> conflicts, snap |-> tool.snap,
             source |-> [db |-> tool.fp, files |-> legacy["files"]]]]
    BY <1>8 DEF Move!PlanWrite
  <2>2. tool.fp \in Versions /\ tool.snap \in Versions /\ tool.run \in Runs /\ legacy["files"] \in Versions
    BY <1>8, ToolIs DEF Move!PlanWrite, Move!Areas
  <2>3. [state |-> "unsealed", conflicts |-> conflicts, snap |-> tool.snap,
         source |-> [db |-> tool.fp, files |-> legacy["files"]]] \in Manifest
    BY <2>2 DEF Manifest
  <2> QED BY <1>8, <2>1, <2>2, <2>3 DEF Move!PlanWrite
<1>9. CASE Move!PlanSeal
  <2>1. tool.run \in Runs /\ manifests[tool.run] \in Manifest
    BY <1>9, ToolIs DEF Move!PlanSeal
  <2>2. manifests' = [manifests EXCEPT ![tool.run] = [manifests[tool.run] EXCEPT !.state = "sealed"]]
    BY <1>9 DEF Move!PlanSeal
  <2>3. manifests[tool.run].state = "unsealed"
    BY <1>9 DEF Move!PlanSeal, WrittenFirst
  <2>4. [manifests[tool.run] EXCEPT !.state = "sealed"] \in Manifest
    BY <2>1, <2>3, SMTT(30) DEF Manifest, Move!NoManifest
  <2> QED BY <1>9, <2>1, <2>2, <2>4 DEF Move!PlanSeal
<1>10. CASE Move!ApplyStep
  BY <1>10, Staged, SMTT(30) DEF Move!ApplyStep
<1>11. CASE Move!ApplyFinish
  BY <1>11, ToolIs, SMTT(30) DEF Move!ApplyFinish
<1>12. CASE Move!MoveCheck
  <2> DEFINE v == Move!Moves[tool.at][1]
             b == Move!Moves[tool.at][2]
  <2>1. live' = live \/ live' = [live EXCEPT ![v][b] = Move!Absent]
    BY <1>12, CheckIs
  <2>2. v \in MUsers /\ b \in Move!Areas
    BY <1>12, MovesTyped, ToolIs, CheckIs
  <2> HIDE DEF v, b
  <2>3. live' \in Dirs
    BY <2>1, <2>2, DirSet, AbsentIs
  <2> QED BY <1>12, <2>3 DEF Move!MoveCheck
<1>13. CASE Move!MoveReplace
  <2>1. live' \in Dirs /\ staging' \in Dirs
    BY <1>13, Replaced DEF MoveAsm, Move!MoveAssumption
  <2> QED BY <1>13, <2>1 DEF Move!MoveReplace
<1>14. CASE Move!MoveRecord
  <2>1. tool.run \in Runs /\ Move!Moves[tool.at] \in MUsers \X Move!Areas
    BY <1>14, ToolIs, MovesTyped DEF Move!MoveRecord, Move!Moving
  <2>2. journal' = [journal EXCEPT ![tool.run] =
                     [journal[tool.run] EXCEPT !.moved = @ \cup {Move!Moves[tool.at]}]]
    BY <1>14 DEF Move!MoveRecord
  <2>3. [journal[tool.run] EXCEPT !.moved = @ \cup {Move!Moves[tool.at]}]
          \in [status : {"none", "moving", "complete"}, moved : SUBSET (MUsers \X Move!Areas)]
    BY <2>1
  <2>4. journal' \in [Runs -> [status : {"none", "moving", "complete"},
                                moved : SUBSET (MUsers \X Move!Areas)]]
    BY <2>1, <2>2, <2>3
  <2> QED BY <1>14, <2>4 DEF Move!MoveRecord
<1>15. CASE Move!ActivateFinish
  <2>1. tool.run \in Runs
    BY <1>15, ToolIs DEF Move!ActivateFinish
  <2>2. /\ UNCHANGED <<legacy, writerOpen, lock, drawn, servers, registry, manifests, staging, live, checkpoint>>
        /\ stagingRun' \in {stagingRun, NoRun}
    BY <1>15 DEF Move!ActivateFinish
  <2>3. \/ journal' = journal
        \/ journal' = [journal EXCEPT ![tool.run] = [journal[tool.run] EXCEPT !.status = "complete"]]
    BY <1>15 DEF Move!ActivateFinish
  <2>4. [journal[tool.run] EXCEPT !.status = "complete"]
          \in [status : {"none", "moving", "complete"}, moved : SUBSET (MUsers \X Move!Areas)]
    BY <2>1
  <2>5. journal' \in [Runs -> [status : {"none", "moving", "complete"},
                                moved : SUBSET (MUsers \X Move!Areas)]]
    BY <2>1, <2>3, <2>4
  <2> QED BY <2>2, <2>5
<1>16. CASE Move!ToolDies
  BY <1>16, SMTT(30) DEF Move!ToolDies
<1>17. CASE Move!StartOrStopServers
  BY <1>17, SMTT(30) DEF Move!StartOrStopServers
<1>18. ASSUME NEW a \in Move!Areas, Move!WriterOpens(a) PROVE DataTypes'
  BY <1>18, SMTT(30) DEF Move!WriterOpens
<1>19. ASSUME NEW a \in Move!Areas, Move!WriterWrites(a) PROVE DataTypes'
  BY <1>19, SMTT(30) DEF Move!WriterWrites, Versions
<1>20. ASSUME NEW u \in MUsers, Move!RemoveAccount(u) PROVE DataTypes'
  <2>1. [a \in Move!Areas |-> Move!Absent] \in [Move!Areas -> Move!Content]
    BY AbsentIs
  <2>2. live' \in Dirs
    BY <1>20, <2>1 DEF Move!RemoveAccount, Dirs
  <2> QED BY <1>20, <2>2 DEF Move!RemoveAccount
<1>21. ASSUME NEW u \in MUsers, NEW a \in Move!Areas, Move!UserWrites(u, a) PROVE DataTypes'
  <2>1. [live[u][a] EXCEPT !.kind = "filled", !.own = TRUE] \in Move!Content
    <3>1. live[u][a] \in Move!Content
      BY DEF Dirs
    <3> QED BY <3>1, OwnIs
  <2>2. live' = [live EXCEPT ![u][a] = [live[u][a] EXCEPT !.kind = "filled", !.own = TRUE]]
    BY <1>21 DEF Move!UserWrites
  <2>3. live' \in Dirs
    <3> DEFINE c == [live[u][a] EXCEPT !.kind = "filled", !.own = TRUE]
    <3>1. live \in Dirs /\ c \in Move!Content /\ live' = [live EXCEPT ![u][a] = c]
      BY <2>1, <2>2
    <3> HIDE DEF c, DataTypes
    <3> QED BY <3>1, DirSet
  <2> QED BY <1>21, <2>3 DEF Move!UserWrites
<1>22. CASE UNCHANGED Move!migrationVars
  BY <1>22, SMTT(30) DEF Move!migrationVars
<1> HIDE DEF MoveAsm, Move!MoveAssumption, MoveTypes, DataTypes, Move!legacyVars, Move!accountVars, Move!planVars, Move!applyVars
<1> QED
  BY <1>1, <1>2, <1>3, <1>4, <1>5, <1>6, <1>7, <1>8, <1>9, <1>10, <1>11, <1>12,
     <1>13, <1>14, <1>15, <1>16, <1>17, <1>18, <1>19, <1>20, <1>21, <1>22
     DEF Move!MigrationNext, Move!ToolStep

\* What is sealed was written, after every step.
LEMMA SealStep ==
  ASSUME MoveAsm, MoveTypes, [Move!MigrationNext]_Move!migrationVars
  PROVE  WrittenFirst'
<1> USE DEF MoveAsm, Move!MoveAssumption, MoveTypes, DataTypes, WrittenFirst, Tool, Move!Idle, Move!legacyVars, Move!accountVars, Move!planVars, Move!applyVars
<1>1. ASSUME NEW r \in Runs, Move!PlanBegin(r) PROVE WrittenFirst'
  BY <1>1, SMTT(30) DEF Move!PlanBegin
<1>2. ASSUME NEW r \in Runs, Move!ApplyBegin(r) PROVE WrittenFirst'
  BY <1>2, SMTT(30) DEF Move!ApplyBegin
<1>3. ASSUME NEW r \in Runs, Move!ActivateBegin(r) PROVE WrittenFirst'
  BY <1>3, SMTT(30) DEF Move!ActivateBegin
<1>4. ASSUME NEW r \in Runs, Move!Unlock(r) PROVE WrittenFirst'
  BY <1>4, SMTT(30) DEF Move!Unlock
<1>5. CASE Move!PlanLock
  BY <1>5, SMTT(30) DEF Move!PlanLock
<1>6. CASE Move!PlanFingerprint
  BY <1>6, SMTT(30) DEF Move!PlanFingerprint
<1>7. CASE Move!PlanSnapshot
  BY <1>7, SMTT(30) DEF Move!PlanSnapshot
<1>8. CASE Move!PlanWrite
  BY <1>8, SMTT(30) DEF Move!PlanWrite
<1>9. CASE Move!PlanSeal
  BY <1>9, SMTT(30) DEF Move!PlanSeal
<1>10. CASE Move!ApplyStep
  BY <1>10, SMTT(30) DEF Move!ApplyStep
<1>11. CASE Move!ApplyFinish
  BY <1>11, SMTT(30) DEF Move!ApplyFinish
<1>12. CASE Move!MoveCheck
  BY <1>12, CheckIs, SMTT(30)
<1>13. CASE Move!MoveReplace
  BY <1>13, SMTT(30) DEF Move!MoveReplace, Move!Moving
<1>14. CASE Move!MoveRecord
  BY <1>14, SMTT(30) DEF Move!MoveRecord, Move!Moving
<1>15. CASE Move!ActivateFinish
  BY <1>15, SMTT(30) DEF Move!ActivateFinish
<1>16. CASE Move!ToolDies
  BY <1>16, SMTT(30) DEF Move!ToolDies
<1>17. CASE Move!StartOrStopServers
  BY <1>17, SMTT(30) DEF Move!StartOrStopServers
<1>18. ASSUME NEW a \in Move!Areas, Move!WriterOpens(a) PROVE WrittenFirst'
  BY <1>18, SMTT(30) DEF Move!WriterOpens
<1>19. ASSUME NEW a \in Move!Areas, Move!WriterWrites(a) PROVE WrittenFirst'
  BY <1>19, SMTT(30) DEF Move!WriterWrites
<1>20. ASSUME NEW u \in MUsers, Move!RemoveAccount(u) PROVE WrittenFirst'
  BY <1>20, SMTT(30) DEF Move!RemoveAccount
<1>21. ASSUME NEW u \in MUsers, NEW a \in Move!Areas, Move!UserWrites(u, a) PROVE WrittenFirst'
  BY <1>21, SMTT(30) DEF Move!UserWrites
<1>22. CASE UNCHANGED Move!migrationVars
  BY <1>22, SMTT(30) DEF Move!migrationVars
<1> HIDE DEF MoveAsm, Move!MoveAssumption, MoveTypes, DataTypes, WrittenFirst, Tool, Move!Idle, Move!legacyVars, Move!accountVars, Move!planVars, Move!applyVars
<1> QED
  BY <1>1, <1>2, <1>3, <1>4, <1>5, <1>6, <1>7, <1>8, <1>9, <1>10, <1>11, <1>12,
     <1>13, <1>14, <1>15, <1>16, <1>17, <1>18, <1>19, <1>20, <1>21, <1>22
     DEF Move!MigrationNext, Move!ToolStep

\* Every step keeps the directories true.
LEMMA DirsStep ==
  ASSUME MoveAsm, MoveTypes, DirsTrue, [Move!MigrationNext]_Move!migrationVars
  PROVE  DirsTrue'
<1> USE DEF MoveAsm, Move!MoveAssumption, DirsTrue, Move!legacyVars, Move!accountVars, Move!planVars, Move!applyVars
<1>1. ASSUME NEW r \in Runs, Move!PlanBegin(r) PROVE DirsTrue'
  BY <1>1, SMTT(30) DEF Move!PlanBegin
<1>2. ASSUME NEW r \in Runs, Move!ApplyBegin(r) PROVE DirsTrue'
  <2>1. staging' = staging \/ staging' = [u \in MUsers |-> [a \in Move!Areas |-> Move!Absent]]
    BY <1>2 DEF Move!ApplyBegin
  <2>2. live' = live
    BY <1>2 DEF Move!ApplyBegin
  <2> QED BY <2>1, <2>2, AbsentIs
<1>3. ASSUME NEW r \in Runs, Move!ActivateBegin(r) PROVE DirsTrue'
  BY <1>3, SMTT(30) DEF Move!ActivateBegin
<1>4. ASSUME NEW r \in Runs, Move!Unlock(r) PROVE DirsTrue'
  BY <1>4, SMTT(30) DEF Move!Unlock
<1>5. CASE Move!PlanLock
  BY <1>5, SMTT(30) DEF Move!PlanLock
<1>6. CASE Move!PlanFingerprint
  BY <1>6, SMTT(30) DEF Move!PlanFingerprint
<1>7. CASE Move!PlanSnapshot
  BY <1>7, SMTT(30) DEF Move!PlanSnapshot
<1>8. CASE Move!PlanWrite
  BY <1>8, SMTT(30) DEF Move!PlanWrite
<1>9. CASE Move!PlanSeal
  BY <1>9, SMTT(30) DEF Move!PlanSeal
<1>10. CASE Move!ApplyStep
  BY <1>10, Staged DEF Move!ApplyStep
<1>11. CASE Move!ApplyFinish
  BY <1>11, SMTT(30) DEF Move!ApplyFinish
<1>12. CASE Move!MoveCheck
  <2> DEFINE v == Move!Moves[tool.at][1]
             b == Move!Moves[tool.at][2]
  <2>1. live' = live \/ live' = [live EXCEPT ![v][b] = Move!Absent]
    BY <1>12, CheckIs
  <2>9. v \in MUsers /\ b \in Move!Areas /\ live \in Dirs
    BY <1>12, MovesTyped, ToolIs, CheckIs DEF MoveTypes, DataTypes
  <2> HIDE DEF v, b
  <2>2. \A u \in MUsers, a \in Move!Areas : live'[u][a] = live[u][a] \/ live'[u][a] = Move!Absent
    BY <2>1, <2>9, AbsentIs DEF Dirs
  <2>3. staging' = staging
    BY <1>12 DEF Move!MoveCheck
  <2> QED BY <2>2, <2>3, AbsentIs
<1>13. CASE Move!MoveReplace
  <2>1. \A u \in MUsers, a \in Move!Areas :
          /\ live'[u][a] \in {live[u][a], staging[u][a]}
          /\ staging'[u][a] \in {staging[u][a], Move!Absent}
    BY <1>13, Replaced DEF MoveAsm, Move!MoveAssumption
  <2> QED BY <2>1, AbsentIs
<1>14. CASE Move!MoveRecord
  BY <1>14, SMTT(30) DEF Move!MoveRecord
<1>15. CASE Move!ActivateFinish
  BY <1>15, SMTT(30) DEF Move!ActivateFinish
<1>16. CASE Move!ToolDies
  BY <1>16, SMTT(30) DEF Move!ToolDies
<1>17. CASE Move!StartOrStopServers
  BY <1>17, SMTT(30) DEF Move!StartOrStopServers
<1>18. ASSUME NEW a \in Move!Areas, Move!WriterOpens(a) PROVE DirsTrue'
  BY <1>18, SMTT(30) DEF Move!WriterOpens
<1>19. ASSUME NEW a \in Move!Areas, Move!WriterWrites(a) PROVE DirsTrue'
  BY <1>19, SMTT(30) DEF Move!WriterWrites
<1>20. ASSUME NEW u \in MUsers, Move!RemoveAccount(u) PROVE DirsTrue'
  <2>1. live' = [live EXCEPT ![u] = [a \in Move!Areas |-> Move!Absent]] /\ staging' = staging
    BY <1>20 DEF Move!RemoveAccount
  <2>2. \A v \in MUsers, a \in Move!Areas : live'[v][a] = live[v][a] \/ live'[v][a] = Move!Absent
    BY <2>1 DEF MoveTypes, DataTypes, Dirs
  <2> QED BY <2>1, <2>2, AbsentIs
<1>21. ASSUME NEW u \in MUsers, NEW a \in Move!Areas, Move!UserWrites(u, a) PROVE DirsTrue'
  <2>1. live' = [live EXCEPT ![u][a] = [live[u][a] EXCEPT !.kind = "filled", !.own = TRUE]]
        /\ staging' = staging
    BY <1>21 DEF Move!UserWrites
  <2> DEFINE w == [live[u][a] EXCEPT !.kind = "filled", !.own = TRUE]
  <2>2. live[u][a] \in Move!Content
    BY DEF MoveTypes, DataTypes, Dirs
  <2>3. w.kind = "filled" /\ w.times = live[u][a].times
    BY <2>2, OwnIs
  <2> HIDE DEF w
  <2>4. \A v \in MUsers, b \in Move!Areas : live'[v][b] = IF v = u /\ b = a THEN w ELSE live[v][b]
    BY <2>1 DEF MoveTypes, DataTypes, Dirs, w
  <2> QED BY <2>1, <2>3, <2>4
<1>22. CASE UNCHANGED Move!migrationVars
  BY <1>22, SMTT(30) DEF Move!migrationVars
<1> HIDE DEF MoveAsm, Move!MoveAssumption, DirsTrue, Move!legacyVars, Move!accountVars, Move!planVars, Move!applyVars
<1> QED
  BY <1>1, <1>2, <1>3, <1>4, <1>5, <1>6, <1>7, <1>8, <1>9, <1>10, <1>11, <1>12,
     <1>13, <1>14, <1>15, <1>16, <1>17, <1>18, <1>19, <1>20, <1>21, <1>22
     DEF Move!MigrationNext, Move!ToolStep

\* Every step leaves the target of a rename free.
LEMMA TargetsStep ==
  ASSUME MoveAsm, MoveTypes, TargetsFree, [Move!MigrationNext]_Move!migrationVars
  PROVE  TargetsFree'
<1> USE DEF MoveAsm, Move!MoveAssumption, MoveTypes, Tool, TargetsFree, Move!Idle, Move!legacyVars, Move!accountVars, Move!planVars, Move!applyVars
<1>1. ASSUME NEW r \in Runs, Move!PlanBegin(r) PROVE TargetsFree'
  BY <1>1, SMTT(30) DEF Move!PlanBegin
<1>2. ASSUME NEW r \in Runs, Move!ApplyBegin(r) PROVE TargetsFree'
  BY <1>2, SMTT(30) DEF Move!ApplyBegin, Move!Prepare
<1>3. ASSUME NEW r \in Runs, Move!ActivateBegin(r) PROVE TargetsFree'
  BY <1>3, SMTT(30) DEF Move!ActivateBegin, Move!Prepare
<1>4. ASSUME NEW r \in Runs, Move!Unlock(r) PROVE TargetsFree'
  BY <1>4, SMTT(30) DEF Move!Unlock
<1>5. CASE Move!PlanLock
  BY <1>5, SMTT(30) DEF Move!PlanLock
<1>6. CASE Move!PlanFingerprint
  BY <1>6, SMTT(30) DEF Move!PlanFingerprint
<1>7. CASE Move!PlanSnapshot
  BY <1>7, SMTT(30) DEF Move!PlanSnapshot
<1>8. CASE Move!PlanWrite
  BY <1>8, SMTT(30) DEF Move!PlanWrite
<1>9. CASE Move!PlanSeal
  BY <1>9, SMTT(30) DEF Move!PlanSeal
<1>10. CASE Move!ApplyStep
  BY <1>10, SMTT(30) DEF Move!ApplyStep
<1>11. CASE Move!ApplyFinish
  BY <1>11, SMTT(30) DEF Move!ApplyFinish
<1>12. CASE Move!MoveCheck
  <2> DEFINE v == Move!Moves[tool.at][1]
             b == Move!Moves[tool.at][2]
  <2>1. CASE live' = [live EXCEPT ![v][b] = Move!Absent] /\ tool' = [tool EXCEPT !.pc = "replace"]
    <3>1. \A u \in MUsers, a \in Move!Areas : u = v /\ a = b => ~live'[u][a].own
      BY <2>1, AbsentIs DEF DataTypes, Dirs
    <3>2. tool'.at = tool.at
      BY <2>1, <1>12, CheckIs
    <3>3. servers' = servers /\ ~servers
      BY <1>12, CheckIs
    <3> QED BY <3>1, <3>2, <3>3
  <2>2. CASE live' = live /\ (tool' = Move!Idle \/ tool' = [tool EXCEPT !.at = @ + 1]
                             \/ tool' = [tool EXCEPT !.pc = "record"])
    BY <1>12, <2>2, CheckIs, SMTT(30)
  <2> QED BY <1>12, <2>1, <2>2, CheckIs
<1>13. CASE Move!MoveReplace
  <2>1. servers' = servers /\ ~servers
    BY <1>13 DEF Move!MoveReplace, Move!Moving
  <2>2. tool' = Move!Idle \/ tool' = [tool EXCEPT !.pc = "record"]
    BY <1>13 DEF Move!MoveReplace
  <2> QED BY <1>13, <2>1, <2>2, SMTT(30) DEF Move!MoveReplace, Move!Moving
<1>14. CASE Move!MoveRecord
  BY <1>14, SMTT(30) DEF Move!MoveRecord, Move!Moving
<1>15. CASE Move!ActivateFinish
  BY <1>15, SMTT(30) DEF Move!ActivateFinish
<1>16. CASE Move!ToolDies
  BY <1>16, SMTT(30) DEF Move!ToolDies
<1>17. CASE Move!StartOrStopServers
  BY <1>17, SMTT(30) DEF Move!StartOrStopServers
<1>18. ASSUME NEW a \in Move!Areas, Move!WriterOpens(a) PROVE TargetsFree'
  BY <1>18, SMTT(30) DEF Move!WriterOpens
<1>19. ASSUME NEW a \in Move!Areas, Move!WriterWrites(a) PROVE TargetsFree'
  BY <1>19, SMTT(30) DEF Move!WriterWrites
<1>20. ASSUME NEW u \in MUsers, Move!RemoveAccount(u) PROVE TargetsFree'
  <2>1. live' = [live EXCEPT ![u] = [a \in Move!Areas |-> Move!Absent]] /\ UNCHANGED <<servers, tool>>
    BY <1>20 DEF Move!RemoveAccount
  <2>2. \A v \in MUsers, a \in Move!Areas : ~live[v][a].own => ~live'[v][a].own
    BY <2>1, AbsentIs DEF DataTypes, Dirs
  <2> QED BY <2>1, <2>2
<1>21. ASSUME NEW u \in MUsers, NEW a \in Move!Areas, Move!UserWrites(u, a) PROVE TargetsFree'
  BY <1>21, SMTT(30) DEF Move!UserWrites
<1>22. CASE UNCHANGED Move!migrationVars
  BY <1>22, SMTT(30) DEF Move!migrationVars
<1> HIDE DEF MoveAsm, Move!MoveAssumption, MoveTypes, Tool, TargetsFree, Move!Idle, Move!legacyVars, Move!accountVars, Move!planVars, Move!applyVars
<1> QED
  BY <1>1, <1>2, <1>3, <1>4, <1>5, <1>6, <1>7, <1>8, <1>9, <1>10, <1>11, <1>12,
     <1>13, <1>14, <1>15, <1>16, <1>17, <1>18, <1>19, <1>20, <1>21, <1>22
     DEF Move!MigrationNext, Move!ToolStep

\* Every step leaves what was planned taken from what was there.
LEMMA PlannedStep ==
  ASSUME MoveAsm, MoveTypes, PlannedFrom, [Move!MigrationNext]_Move!migrationVars
  PROVE  PlannedFrom'
<1> USE DEF MoveAsm, Move!MoveAssumption, MoveTypes, DataTypes, WrittenFirst, PlannedFrom, Versions, Move!Areas, Manifest, Move!NoManifest, Tool, Move!Idle, Move!legacyVars, Move!accountVars, Move!planVars, Move!applyVars
<1>1. ASSUME NEW r \in Runs, Move!PlanBegin(r) PROVE PlannedFrom'
  BY <1>1, SMTT(30) DEF Move!PlanBegin
<1>2. ASSUME NEW r \in Runs, Move!ApplyBegin(r) PROVE PlannedFrom'
  BY <1>2, SMTT(30) DEF Move!ApplyBegin
<1>3. ASSUME NEW r \in Runs, Move!ActivateBegin(r) PROVE PlannedFrom'
  <2>1. UNCHANGED <<legacy, manifests>> /\ manifests[r].state # "none" /\ manifests[r].source = legacy
    BY <1>3 DEF Move!ActivateBegin, Move!Prepare, Move!Sealed
  <2>2. manifests[r].source.db \in Versions /\ manifests[r].snap \in Versions /\ legacy["db"] \in Versions
        /\ manifests[r].source.db = legacy["db"] /\ manifests[r].source.files = legacy["files"]
    BY <2>1
  <2>9. manifests[r].source.db <= manifests[r].snap /\ manifests[r].snap <= legacy["db"]
    BY <2>1
  <2>3. manifests[r].snap = legacy["db"]
    <3> HIDE DEF MoveTypes, DataTypes, WrittenFirst, PlannedFrom, Manifest, Tool, Move!Idle
    <3> QED BY <2>9, <2>2
  <2>4. tool' = [cmd |-> "activate", run |-> r, pc |-> "check", at |-> 1, seen |-> legacy]
    BY <1>3 DEF Move!ActivateBegin
  <2> QED BY <2>1, <2>2, <2>3, <2>4
<1>4. ASSUME NEW r \in Runs, Move!Unlock(r) PROVE PlannedFrom'
  BY <1>4, SMTT(30) DEF Move!Unlock
<1>5. CASE Move!PlanLock
  BY <1>5, SMTT(30) DEF Move!PlanLock
<1>6. CASE Move!PlanFingerprint
  BY <1>6, SMTT(30) DEF Move!PlanFingerprint
<1>7. CASE Move!PlanSnapshot
  BY <1>7, SMTT(30) DEF Move!PlanSnapshot
<1>8. CASE Move!PlanWrite
  BY <1>8, SMTT(30) DEF Move!PlanWrite
<1>9. CASE Move!PlanSeal
  BY <1>9, SMTT(30) DEF Move!PlanSeal
<1>10. CASE Move!ApplyStep
  BY <1>10, SMTT(30) DEF Move!ApplyStep
<1>11. CASE Move!ApplyFinish
  BY <1>11, SMTT(30) DEF Move!ApplyFinish
<1>12. CASE Move!MoveCheck
  <2>1. UNCHANGED <<legacy, manifests>> /\ tool.cmd = "activate"
    BY <1>12 DEF Move!MoveCheck, Move!Moving
  <2>2. \/ tool' = Move!Idle \/ tool' = [tool EXCEPT !.at = @ + 1]
        \/ tool' = [tool EXCEPT !.pc = "record"] \/ tool' = [tool EXCEPT !.pc = "replace"]
    BY <1>12 DEF Move!MoveCheck
  <2>3. tool' = Move!Idle \/ (tool'.cmd = "activate" /\ tool'.run = tool.run /\ tool'.seen = tool.seen)
    BY <2>1, <2>2
  <2> QED BY <2>1, <2>3
<1>13. CASE Move!MoveReplace
  <2>1. UNCHANGED <<legacy, manifests>> /\ tool.cmd = "activate"
    BY <1>13 DEF Move!MoveReplace, Move!Moving
  <2>2. tool' = Move!Idle \/ tool' = [tool EXCEPT !.pc = "record"]
    BY <1>13, Zenon DEF Move!MoveReplace
  <2>3. tool' = Move!Idle \/ (tool'.cmd = "activate" /\ tool'.run = tool.run /\ tool'.seen = tool.seen)
    BY <2>1, <2>2
  <2> QED BY <2>1, <2>3
<1>14. CASE Move!MoveRecord
  BY <1>14, SMTT(30) DEF Move!MoveRecord, Move!Moving
<1>15. CASE Move!ActivateFinish
  BY <1>15, SMTT(30) DEF Move!ActivateFinish
<1>16. CASE Move!ToolDies
  BY <1>16, SMTT(30) DEF Move!ToolDies
<1>17. CASE Move!StartOrStopServers
  BY <1>17, SMTT(30) DEF Move!StartOrStopServers
<1>18. ASSUME NEW a \in Move!Areas, Move!WriterOpens(a) PROVE PlannedFrom'
  BY <1>18, SMTT(30) DEF Move!WriterOpens
<1>19. ASSUME NEW a \in Move!Areas, Move!WriterWrites(a) PROVE PlannedFrom'
  BY <1>19, SMTT(30) DEF Move!WriterWrites
<1>20. ASSUME NEW u \in MUsers, Move!RemoveAccount(u) PROVE PlannedFrom'
  BY <1>20, SMTT(30) DEF Move!RemoveAccount
<1>21. ASSUME NEW u \in MUsers, NEW a \in Move!Areas, Move!UserWrites(u, a) PROVE PlannedFrom'
  BY <1>21, SMTT(30) DEF Move!UserWrites
<1>22. CASE UNCHANGED Move!migrationVars
  BY <1>22, SMTT(30) DEF Move!migrationVars
<1> HIDE DEF MoveAsm, Move!MoveAssumption, MoveTypes, DataTypes, WrittenFirst, PlannedFrom, Versions, Move!Areas, Manifest, Move!NoManifest, Tool, Move!Idle, Move!legacyVars, Move!accountVars, Move!planVars, Move!applyVars
<1> QED
  BY <1>1, <1>2, <1>3, <1>4, <1>5, <1>6, <1>7, <1>8, <1>9, <1>10, <1>11, <1>12,
     <1>13, <1>14, <1>15, <1>16, <1>17, <1>18, <1>19, <1>20, <1>21, <1>22
     DEF Move!MigrationNext, Move!ToolStep

\* An activation completes with what was planned alone.
LEMMA CompletesStep ==
  ASSUME MoveAsm, MoveInv, [Move!MigrationNext]_Move!migrationVars
  PROVE  Move!CompletesAsPlanned
<1> USE DEF MoveAsm, Move!MoveAssumption, MoveInv, MoveTypes, DataTypes, Move!CompletesAsPlanned, Move!legacyVars, Move!accountVars, Move!planVars, Move!applyVars
<1>1. ASSUME NEW r \in Runs, Move!PlanBegin(r) PROVE Move!CompletesAsPlanned
  BY <1>1, SMTT(30) DEF Move!PlanBegin
<1>2. ASSUME NEW r \in Runs, Move!ApplyBegin(r) PROVE Move!CompletesAsPlanned
  BY <1>2, SMTT(30) DEF Move!ApplyBegin
<1>3. ASSUME NEW r \in Runs, Move!ActivateBegin(r) PROVE Move!CompletesAsPlanned
  BY <1>3, SMTT(30) DEF Move!ActivateBegin
<1>4. ASSUME NEW r \in Runs, Move!Unlock(r) PROVE Move!CompletesAsPlanned
  BY <1>4, SMTT(30) DEF Move!Unlock
<1>5. CASE Move!PlanLock
  BY <1>5, SMTT(30) DEF Move!PlanLock
<1>6. CASE Move!PlanFingerprint
  BY <1>6, SMTT(30) DEF Move!PlanFingerprint
<1>7. CASE Move!PlanSnapshot
  BY <1>7, SMTT(30) DEF Move!PlanSnapshot
<1>8. CASE Move!PlanWrite
  BY <1>8, SMTT(30) DEF Move!PlanWrite
<1>9. CASE Move!PlanSeal
  BY <1>9, SMTT(30) DEF Move!PlanSeal
<1>10. CASE Move!ApplyStep
  BY <1>10, SMTT(30) DEF Move!ApplyStep
<1>11. CASE Move!ApplyFinish
  BY <1>11, SMTT(30) DEF Move!ApplyFinish
<1>12. CASE Move!MoveCheck
  BY <1>12, CheckIs, SMTT(30)
<1>13. CASE Move!MoveReplace
  BY <1>13, SMTT(30) DEF Move!MoveReplace
<1>14. CASE Move!MoveRecord
  BY <1>14, SMTT(30) DEF Move!MoveRecord
<1>15. CASE Move!ActivateFinish
  <2> SUFFICES ASSUME NEW r \in Runs, journal[r].status # "complete", journal'[r].status = "complete"
               PROVE  /\ \A u \in MUsers, a \in Move!Areas :
                            /\ live[u][a].run = r /\ ~live[u][a].own
                            /\ \A p \in Move!PartsOf(a) : live[u][a].times[p] = 1
                      /\ tool.seen["db"] = manifests[r].snap
                      /\ tool.seen["files"] = manifests[r].source["files"]
    OBVIOUS
  <2>1. r = tool.run /\ Move!VerifyLive(r)
    BY <1>15 DEF Move!ActivateFinish
  <2>2. \A u \in MUsers, a \in Move!Areas :
          /\ live[u][a].run = r /\ ~live[u][a].own
          /\ \A p \in Move!PartsOf(a) : live[u][a].times[p] = 1
    BY <2>1 DEF Move!VerifyLive, Move!VerifyArea, Move!AsPlanned
  <2>3. tool.seen["db"] = manifests[r].snap /\ tool.seen["files"] = manifests[r].source["files"]
    BY <1>15, <2>1 DEF PlannedFrom, Move!ActivateFinish
  <2> QED BY <2>2, <2>3
<1>16. CASE Move!ToolDies
  BY <1>16, SMTT(30) DEF Move!ToolDies
<1>17. CASE Move!StartOrStopServers
  BY <1>17, SMTT(30) DEF Move!StartOrStopServers
<1>18. ASSUME NEW a \in Move!Areas, Move!WriterOpens(a) PROVE Move!CompletesAsPlanned
  BY <1>18, SMTT(30) DEF Move!WriterOpens
<1>19. ASSUME NEW a \in Move!Areas, Move!WriterWrites(a) PROVE Move!CompletesAsPlanned
  BY <1>19, SMTT(30) DEF Move!WriterWrites
<1>20. ASSUME NEW u \in MUsers, Move!RemoveAccount(u) PROVE Move!CompletesAsPlanned
  BY <1>20, SMTT(30) DEF Move!RemoveAccount
<1>21. ASSUME NEW u \in MUsers, NEW a \in Move!Areas, Move!UserWrites(u, a) PROVE Move!CompletesAsPlanned
  BY <1>21, SMTT(30) DEF Move!UserWrites
<1>22. CASE UNCHANGED Move!migrationVars
  BY <1>22, SMTT(30) DEF Move!migrationVars
<1> HIDE DEF MoveAsm, Move!MoveAssumption, MoveInv, MoveTypes, DataTypes, Move!CompletesAsPlanned, Move!legacyVars, Move!accountVars, Move!planVars, Move!applyVars
<1> QED
  BY <1>1, <1>2, <1>3, <1>4, <1>5, <1>6, <1>7, <1>8, <1>9, <1>10, <1>11, <1>12,
     <1>13, <1>14, <1>15, <1>16, <1>17, <1>18, <1>19, <1>20, <1>21, <1>22
     DEF Move!MigrationNext, Move!ToolStep

\* No step removes what a user wrote, but the one that removes the user.
LEMMA OwnKeptStep ==
  ASSUME MoveAsm, MoveInv, [Move!MigrationNext]_Move!migrationVars
  PROVE  Move!OwnDataKept
<1> USE DEF MoveAsm, Move!MoveAssumption, MoveInv, MoveTypes, Move!OwnDataKept, Move!legacyVars, Move!accountVars, Move!planVars, Move!applyVars
<1>1. ASSUME NEW r \in Runs, Move!PlanBegin(r) PROVE Move!OwnDataKept
  BY <1>1, SMTT(30) DEF Move!PlanBegin
<1>2. ASSUME NEW r \in Runs, Move!ApplyBegin(r) PROVE Move!OwnDataKept
  BY <1>2, SMTT(30) DEF Move!ApplyBegin
<1>3. ASSUME NEW r \in Runs, Move!ActivateBegin(r) PROVE Move!OwnDataKept
  BY <1>3, SMTT(30) DEF Move!ActivateBegin
<1>4. ASSUME NEW r \in Runs, Move!Unlock(r) PROVE Move!OwnDataKept
  BY <1>4, SMTT(30) DEF Move!Unlock
<1>5. CASE Move!PlanLock
  BY <1>5, SMTT(30) DEF Move!PlanLock
<1>6. CASE Move!PlanFingerprint
  BY <1>6, SMTT(30) DEF Move!PlanFingerprint
<1>7. CASE Move!PlanSnapshot
  BY <1>7, SMTT(30) DEF Move!PlanSnapshot
<1>8. CASE Move!PlanWrite
  BY <1>8, SMTT(30) DEF Move!PlanWrite
<1>9. CASE Move!PlanSeal
  BY <1>9, SMTT(30) DEF Move!PlanSeal
<1>10. CASE Move!ApplyStep
  BY <1>10, SMTT(30) DEF Move!ApplyStep
<1>11. CASE Move!ApplyFinish
  BY <1>11, SMTT(30) DEF Move!ApplyFinish
<1>12. CASE Move!MoveCheck
  <2> DEFINE v == Move!Moves[tool.at][1]
             b == Move!Moves[tool.at][2]
  <2>1. live' = live \/ (Move!TargetFree(live[v][b]) /\ live' = [live EXCEPT ![v][b] = Move!Absent])
    BY <1>12 DEF Move!MoveCheck
  <2>2. \A u \in MUsers, a \in Move!Areas :
          live'[u][a] = live[u][a] \/ (u = v /\ a = b /\ Move!TargetFree(live[u][a]))
    BY <2>1 DEF DataTypes, Dirs
  <2> QED BY <2>2 DEF Move!TargetFree, DirsTrue
<1>13. CASE Move!MoveReplace
  <2>1. \A u \in MUsers, a \in Move!Areas :
          live'[u][a] = live[u][a] \/ (u = Move!Moves[tool.at][1] /\ a = Move!Moves[tool.at][2])
    BY <1>13, Replaced DEF MoveAsm, Move!MoveAssumption
  <2> QED BY <1>13, <2>1 DEF TargetsFree, Move!MoveReplace, Move!Moving
<1>14. CASE Move!MoveRecord
  BY <1>14, SMTT(30) DEF Move!MoveRecord
<1>15. CASE Move!ActivateFinish
  BY <1>15, SMTT(30) DEF Move!ActivateFinish
<1>16. CASE Move!ToolDies
  BY <1>16, SMTT(30) DEF Move!ToolDies
<1>17. CASE Move!StartOrStopServers
  BY <1>17, SMTT(30) DEF Move!StartOrStopServers
<1>18. ASSUME NEW a \in Move!Areas, Move!WriterOpens(a) PROVE Move!OwnDataKept
  BY <1>18, SMTT(30) DEF Move!WriterOpens
<1>19. ASSUME NEW a \in Move!Areas, Move!WriterWrites(a) PROVE Move!OwnDataKept
  BY <1>19, SMTT(30) DEF Move!WriterWrites
<1>20. ASSUME NEW u \in MUsers, Move!RemoveAccount(u) PROVE Move!OwnDataKept
  <2>1. live' = [live EXCEPT ![u] = [a \in Move!Areas |-> Move!Absent]]
        /\ registry' = [registry EXCEPT ![u] = FALSE]
    BY <1>20 DEF Move!RemoveAccount
  <2> QED BY <2>1 DEF DataTypes, Dirs
<1>21. ASSUME NEW u \in MUsers, NEW a \in Move!Areas, Move!UserWrites(u, a) PROVE Move!OwnDataKept
  <2>1. live' = [live EXCEPT ![u][a] = [live[u][a] EXCEPT !.kind = "filled", !.own = TRUE]]
    BY <1>21 DEF Move!UserWrites
  <2>2. live[u][a] \in Move!Content
    BY DEF DataTypes, Dirs
  <2>3. [live[u][a] EXCEPT !.kind = "filled", !.own = TRUE].own = TRUE
    BY <2>2, OwnIs DEF Move!Content
  <2> QED BY <2>1, <2>3 DEF DataTypes, Dirs
<1>22. CASE UNCHANGED Move!migrationVars
  BY <1>22, SMTT(30) DEF Move!migrationVars
<1> HIDE DEF MoveAsm, Move!MoveAssumption, MoveInv, MoveTypes, Move!OwnDataKept, Move!legacyVars, Move!accountVars, Move!planVars, Move!applyVars
<1> QED
  BY <1>1, <1>2, <1>3, <1>4, <1>5, <1>6, <1>7, <1>8, <1>9, <1>10, <1>11, <1>12,
     <1>13, <1>14, <1>15, <1>16, <1>17, <1>18, <1>19, <1>20, <1>21, <1>22
     DEF Move!MigrationNext, Move!ToolStep

\* A tool that has not run satisfies the invariant.
LEMMA MoveStart == ASSUME MoveAsm, Move!MigrationInit PROVE MoveInv
<1> USE DEF MoveAsm, Move!MoveAssumption, Move!MigrationInit
<1>1. staging \in Dirs /\ live \in Dirs
  BY AbsentIs, DirIs DEF Dirs
<1>2. DataTypes
  <2>1. manifests \in [Runs -> Manifest]
    BY DEF Manifest
  <2>2. legacy \in [Move!Areas -> Versions]
    BY DEF Versions
  <2> QED BY <1>1, <2>1, <2>2 DEF DataTypes
<1>3. tool \in Tool /\ WrittenFirst /\ PlannedFrom /\ TargetsFree
  BY DEF Tool, WrittenFirst, PlannedFrom, TargetsFree, Move!Idle, Move!NoManifest
<1>4. DirsTrue
  BY AbsentIs, DirIs DEF DirsTrue
<1> QED BY <1>2, <1>3, <1>4 DEF MoveInv, MoveTypes

\* Every step keeps the invariant.
LEMMA MoveInvStep ==
  ASSUME MoveAsm, MoveInv, [Move!MigrationNext]_Move!migrationVars PROVE MoveInv'
<1>1. MoveTypes /\ DirsTrue /\ TargetsFree /\ PlannedFrom
  BY DEF MoveInv
<1>2. MoveTypes'
  BY <1>1, ToolStepTyped, DataStepTyped, SealStep DEF MoveTypes
<1>3. DirsTrue' /\ TargetsFree' /\ PlannedFrom'
  BY <1>1, DirsStep, TargetsStep, PlannedStep
<1> QED BY <1>2, <1>3 DEF MoveInv

\* The invariant implies the types and what the run checks.
LEMMA MoveSafe == ASSUME MoveInv PROVE Move!MigrationTypeOK /\ Move!NothingTwice
<1>1. tool.cmd \in {"none", "plan", "apply", "activate"}
  BY ToolIs DEF MoveInv, MoveTypes
<1>2. \A r \in Runs : manifests[r].state \in {"none", "unsealed", "sealed"}
  BY DEF MoveInv, MoveTypes, DataTypes, Manifest, Move!NoManifest
<1>3. Move!MigrationTypeOK
  BY <1>1, <1>2 DEF MoveInv, MoveTypes, DataTypes, Dirs, Versions, Move!MigrationTypeOK
<1> QED BY <1>3 DEF MoveInv, DirsTrue, Move!NothingTwice

-----------------------------------------------------------------------------
(* MigrationPlan: the invariants                                               *)

PlanAsm == Plan!PlanAssumption

Places == Paths \cup {Plan!Remote, Plan!NoRef}
Fates == {"unowned", "unmapped_local_path", "duplicate", "owned"}
PlanTypes ==
  /\ planPhase \in {"mapping", "files", "rows", "records"}
  /\ emailOwner \in [Emails -> Plan!Owner \cup {Ambiguous}]
  /\ claims \subseteq Emails \X POwners /\ rules \subseteq Paths \X POwners /\ IsFiniteSet(rules)
  /\ planConflicts \in BOOLEAN
  /\ files \in [Paths -> [fate : Plan!FileFates, owner : Plan!Owner]]
  /\ rows \in Seq(Plan!Row) /\ winners \in [POwners -> Nat]
  /\ rowQuarantine \in [Plan!Reasons -> SUBSET Nat] /\ byRow \in [POwners -> SUBSET Nat]
  /\ planRecords \in Seq([table : {"file", "mail"}, fate : Fates, owner : Plan!Owner, ref : Places])

\* The mapping is read before the first file, the files before the first row or record.
InOrder ==
  /\ planPhase = "mapping" => \A p \in Paths : files[p].fate = "unseen"
  /\ planPhase \in {"mapping", "files"} => rows = <<>> /\ planRecords = <<>>

\* An address is a user's while no other user claims it.
ClaimsCounted ==
  \A e \in Emails :
    /\ emailOwner[e] \in POwners => <<e, emailOwner[e]>> \in claims
    /\ \A o \in POwners : <<e, o>> \in claims => emailOwner[e] \in {o, Ambiguous}

\* Every rule for the place of a file that goes to a user names that user.
FilesGo ==
  \A p \in Paths : files[p].fate = "owned" =>
    files[p].owner \in POwners
    /\ \A r \in rules : Plan!IsPrefix(r[1], p) => r[2] = files[p].owner

\* Rows are read, each of them goes somewhere, and nowhere else.
RowsOwned ==
  \A o \in POwners :
    /\ winners[o] # 0 => /\ winners[o] \in DOMAIN rows /\ rows[winners[o]].kind = "keyed"
                         /\ rows[winners[o]].email \in Emails
                         /\ emailOwner[rows[winners[o]].email] = o
    /\ \A i \in byRow[o] : /\ i \in DOMAIN rows /\ rows[i].kind = "plain"
                           /\ rows[i].email \in Emails /\ emailOwner[rows[i].email] = o
RowsApart ==
  \A q \in Plan!Reasons : \A i \in rowQuarantine[q] :
    /\ i \in DOMAIN rows
    /\ \A o \in POwners : i # winners[o] /\ i \notin byRow[o]
    /\ \A s \in Plan!Reasons : i \in rowQuarantine[s] => s = q
RowsSomewhere ==
  \A i \in DOMAIN rows : \/ \E o \in POwners : i = winners[o] \/ i \in byRow[o]
                         \/ \E q \in Plan!Reasons : i \in rowQuarantine[q]
RowsGo == RowsOwned /\ RowsApart /\ RowsSomewhere

\* A row set aside for another of its key yields to one that is no older.
LatestWins ==
  \A i \in rowQuarantine["duplicate_after_merge"] : \E o \in POwners :
    /\ rows[i].email \in Emails /\ emailOwner[rows[i].email] = o /\ winners[o] # 0
    /\ rows[winners[o]].stamp >= rows[i].stamp

\* A record leads to its owner's file, and no other of that owner to the same.
RecordsGo ==
  /\ \A i \in DOMAIN planRecords : planRecords[i].ref \in Paths =>
       /\ files[planRecords[i].ref].fate = "owned"
       /\ files[planRecords[i].ref].owner = planRecords[i].owner
  /\ \A i, j \in DOMAIN planRecords :
       /\ i # j /\ planRecords[i].table = "file" /\ planRecords[j].table = "file"
       /\ planRecords[i].ref # Plan!NoRef /\ planRecords[i].owner = planRecords[j].owner
       => planRecords[i].ref # planRecords[j].ref

PlanInv == PlanTypes /\ InOrder /\ ClaimsCounted /\ FilesGo /\ RowsGo /\ LatestWins /\ RecordsGo

-----------------------------------------------------------------------------
(* MigrationPlan: the steps                                                    *)

\* What becomes of a row: set aside, one of many, or against the row of its key so far.
SetAside(q, i) ==
  /\ q \in Plan!Reasons \ {"duplicate_after_merge"}
  /\ rowQuarantine' = [rowQuarantine EXCEPT ![q] = @ \cup {i}] /\ UNCHANGED <<winners, byRow>>
IsPlain(o, i) ==
  /\ byRow' = [byRow EXCEPT ![o] = @ \cup {i}] /\ UNCHANGED <<winners, rowQuarantine>>
  /\ rows'[i].kind = "plain"
Wins(o, i) ==
  /\ winners' = [winners EXCEPT ![o] = i] /\ UNCHANGED byRow /\ rows'[i].kind = "keyed"
  /\ winners[o] # 0 => rows'[i].stamp >= rows'[winners[o]].stamp
  /\ rowQuarantine' = [rowQuarantine EXCEPT !["duplicate_after_merge"] = @ \cup ({winners[o]} \ {0})]
Loses(o, i) ==
  /\ winners[o] # 0 /\ UNCHANGED <<winners, byRow>> /\ rows'[i].kind = "keyed"
  /\ rows'[winners[o]].stamp >= rows'[i].stamp
  /\ rowQuarantine' = [rowQuarantine EXCEPT !["duplicate_after_merge"] = @ \cup {i}]
TakesRow(row, i) ==
  /\ i = Len(rows) + 1 /\ i \in Nat /\ DOMAIN rows = 1 .. Len(rows) /\ i \notin DOMAIN rows
  /\ rows' \in Seq(Plan!Row) /\ DOMAIN rows' = DOMAIN rows \cup {i}
  /\ rows'[i] = row /\ \A j \in DOMAIN rows : rows'[j] = rows[j]
  /\ planPhase' = "rows" /\ UNCHANGED <<emailOwner, claims, rules, planConflicts, files, planRecords>>
  /\ \/ \E q \in Plan!Reasons : SetAside(q, i)
     \/ \E o \in POwners : /\ row.email \in Emails /\ emailOwner[row.email] = o
                           /\ IsPlain(o, i) \/ Wins(o, i) \/ Loses(o, i)

\* A row is taken in one of those ways.
LEMMA RowTaken ==
  ASSUME PlanAsm, PlanTypes, RowsGo, NEW row \in Plan!Row, Plan!PlanRow(row)
  PROVE  TakesRow(row, Len(rows) + 1)
<1> DEFINE i == Len(rows) + 1
           o == emailOwner[row.email]
           why == Plan!RowProblem(row)
<1>1. rows \in Seq(Plan!Row) /\ rows' = Append(rows, row)
  BY DEF PlanTypes, Plan!PlanRow
<1>2. /\ i \in Nat /\ DOMAIN rows = 1 .. Len(rows) /\ i \notin DOMAIN rows
      /\ rows' \in Seq(Plan!Row) /\ DOMAIN rows' = DOMAIN rows \cup {i}
      /\ rows'[i] = row /\ \A j \in DOMAIN rows : rows'[j] = rows[j]
  BY <1>1
<1>3. planPhase' = "rows" /\ UNCHANGED <<emailOwner, claims, rules, planConflicts, files, planRecords>>
  BY DEF Plan!PlanRow, Plan!mapVars
<1>4. row.kind \in {"keyed", "plain", "regenerate", "invalid", "foreign"} /\ row.email \in Emails \cup {None}
      /\ row.stamp \in Nat
  BY DEF Plan!Row, PlanAsm, Plan!PlanAssumption
<1>5. why # None => why \in Plan!Reasons \ {"duplicate_after_merge"}
  BY <1>4 DEF Plan!RowProblem, Plan!Reasons
<1>6. why = None => row.kind \in {"keyed", "plain"} /\ row.email \in Emails /\ o \in POwners
  <2> SUFFICES ASSUME why = None PROVE row.kind \in {"keyed", "plain"} /\ row.email \in Emails /\ o \in POwners
    OBVIOUS
  <2>1. row.kind \in {"keyed", "plain"}
    BY <1>4 DEF Plan!RowProblem, PlanAsm, Plan!PlanAssumption, Plan!Reasons
  <2>2. Plan!OwnerOfEmail(row.email) \notin {None, Ambiguous}
    BY <2>1 DEF Plan!RowProblem, PlanAsm, Plan!PlanAssumption, Plan!Reasons
  <2>3. row.email \in Emails /\ o \notin {None, Ambiguous}
    BY <1>4, <2>2 DEF Plan!OwnerOfEmail
  <2> QED BY <2>1, <2>3 DEF PlanTypes, Plan!Owner
<1>7. CASE why # None
  <2>1. SetAside(why, i)
    BY <1>5, <1>7 DEF Plan!PlanRow, SetAside
  <2> QED BY <1>2, <1>3, <1>5, <1>7, <2>1 DEF TakesRow
<1>8. CASE why = None /\ row.kind = "plain"
  <2>1. IsPlain(o, i)
    BY <1>2, <1>8 DEF Plan!PlanRow, IsPlain
  <2> QED BY <1>2, <1>3, <1>6, <1>8, <2>1 DEF TakesRow
<1>9. CASE why = None /\ row.kind = "keyed"
  <2>1. /\ winners' = [winners EXCEPT ![o] = Plan!Kept(winners[o], i)] /\ UNCHANGED byRow
        /\ rowQuarantine' = [rowQuarantine EXCEPT
             !["duplicate_after_merge"] = @ \cup ({i, winners[o]} \ {0, Plan!Kept(winners[o], i)})]
    BY <1>9 DEF Plan!PlanRow
  <2>2. o \in POwners /\ winners[o] \in Nat /\ (winners[o] # 0 => winners[o] \in DOMAIN rows)
    BY <1>6, <1>9 DEF PlanTypes, RowsGo, RowsOwned
  <2>3. winners[o] # i /\ i # 0
    BY <1>2, <2>2
  <2>4. rows'[i].kind = "keyed" /\ rows'[i].stamp \in Nat
    BY <1>2, <1>4, <1>9
  <2>5. CASE winners[o] = 0 \/ rows'[i].stamp >= rows'[winners[o]].stamp
    <3>1. Plan!Kept(winners[o], i) = i
      BY <2>5 DEF Plan!Kept
    <3>2. {i, winners[o]} \ {0, i} = {winners[o]} \ {0}
      BY <2>3
    <3>3. Wins(o, i)
      BY <2>1, <2>4, <2>5, <3>1, <3>2 DEF Wins
    <3> QED BY <1>2, <1>3, <1>6, <1>9, <3>3 DEF TakesRow
  <2>6. CASE winners[o] # 0 /\ ~(rows'[i].stamp >= rows'[winners[o]].stamp)
    <3>1. Plan!Kept(winners[o], i) = winners[o]
      BY <2>6 DEF Plan!Kept
    <3>2. {i, winners[o]} \ {0, winners[o]} = {i}
      BY <2>3
    <3>3. winners' = winners
      BY <2>1, <2>2, <3>1 DEF PlanTypes
    <3>4. rows'[winners[o]].stamp \in Nat
      <4>1. rows'[winners[o]] \in Plan!Row
        BY <1>1, <1>2, <2>2, <2>6
      <4> QED BY <4>1 DEF Plan!Row, PlanAsm, Plan!PlanAssumption
    <3>5. rows'[winners[o]].stamp >= rows'[i].stamp
      BY <2>4, <2>6, <3>4
    <3>6. rowQuarantine' = [rowQuarantine EXCEPT !["duplicate_after_merge"] = @ \cup {i}]
      BY <2>1, <3>1, <3>2
    <3>7. Loses(o, i)
      BY <2>1, <2>4, <2>6, <3>3, <3>5, <3>6 DEF Loses
    <3> QED BY <1>2, <1>3, <1>6, <1>9, <3>7 DEF TakesRow
  <2> QED BY <2>5, <2>6
<1> QED BY <1>6, <1>7, <1>8, <1>9

\* The record that is appended, and to what.
Appends(new) ==
  /\ planRecords' \in Seq([table : {"file", "mail"}, fate : Fates, owner : Plan!Owner, ref : Places])
  /\ DOMAIN planRecords' = DOMAIN planRecords \cup {Len(planRecords) + 1}
  /\ Len(planRecords) + 1 \notin DOMAIN planRecords
  /\ planRecords'[Len(planRecords) + 1] = new
  /\ \A j \in DOMAIN planRecords : planRecords'[j] = planRecords[j]
  /\ new.ref \in Paths => files[new.ref].fate = "owned" /\ files[new.ref].owner = new.owner
  /\ new.table = "file" /\ new.ref # Plan!NoRef => new.ref \notin Plan!Refs(new.owner)
  /\ planPhase' = "records"
  /\ UNCHANGED <<emailOwner, claims, rules, planConflicts, files, rows, winners, rowQuarantine, byRow>>

\* What Append does to the records.
LEMMA Appended ==
  ASSUME PlanTypes, NEW new \in [table : {"file", "mail"}, fate : Fates, owner : Plan!Owner, ref : Places],
         planRecords' = Append(planRecords, new)
  PROVE  /\ planRecords' \in Seq([table : {"file", "mail"}, fate : Fates, owner : Plan!Owner, ref : Places])
         /\ DOMAIN planRecords' = DOMAIN planRecords \cup {Len(planRecords) + 1}
         /\ Len(planRecords) + 1 \notin DOMAIN planRecords
         /\ planRecords'[Len(planRecords) + 1] = new
         /\ \A j \in DOMAIN planRecords : planRecords'[j] = planRecords[j]
<1> DEFINE R == [table : {"file", "mail"}, fate : Fates, owner : Plan!Owner, ref : Places]
<1>1. planRecords \in Seq(R)
  BY DEF PlanTypes
<1> HIDE DEF R
<1> QED BY <1>1 DEF R

\* A rewritten reference stays remote, leads to the owner's file or nowhere.
LEMMA Rewritten ==
  ASSUME PlanAsm, NEW ref \in Paths \cup {Plan!Remote}, NEW o
  PROVE  /\ Plan!Rewrite(ref, o) \in Places
         /\ Plan!Rewrite(ref, o) \in Paths =>
              files[Plan!Rewrite(ref, o)].fate = "owned" /\ files[Plan!Rewrite(ref, o)].owner = o
  BY DEF Plan!Rewrite, Places, PlanAsm, Plan!PlanAssumption

\* A file record is appended so.
LEMMA FileRecordPlanned ==
  ASSUME PlanAsm, PlanTypes, NEW ref \in Paths \cup {Plan!Remote}, NEW o \in Plan!Owner,
         Plan!PlanFileRecord(ref, o)
  PROVE  \E new \in [table : {"file", "mail"}, fate : Fates, owner : Plan!Owner, ref : Places] : Appends(new)
<1> DEFINE to == Plan!Rewrite(ref, o)
           fate == CASE o = None -> "unowned"
                     [] o # None /\ to = Plan!NoRef -> "unmapped_local_path"
                     [] o # None /\ to # Plan!NoRef /\ to \in Plan!Refs(o) -> "duplicate"
                     [] OTHER -> "owned"
           new == [table |-> "file", fate |-> fate, owner |-> IF fate = "owned" THEN o ELSE None,
                   ref |-> IF fate = "owned" THEN to ELSE Plan!NoRef]
<1>1. planRecords' = Append(planRecords, new)
  BY DEF Plan!PlanFileRecord
<1>2. fate \in Fates /\ (fate = "owned" => to \notin Plan!Refs(o))
  BY DEF Fates
<1>3. to \in Places /\ (to \in Paths => files[to].fate = "owned" /\ files[to].owner = o)
  BY Rewritten
<1>4. Plan!NoRef \in Places /\ Plan!NoRef \notin Paths /\ None \in Plan!Owner
  BY DEF Places, Plan!Owner, PlanAsm, Plan!PlanAssumption
<1> HIDE DEF to, fate
<1>5. new \in [table : {"file", "mail"}, fate : Fates, owner : Plan!Owner, ref : Places]
  BY <1>2, <1>3, <1>4
<1>6. /\ new.ref \in Paths => files[new.ref].fate = "owned" /\ files[new.ref].owner = new.owner
      /\ new.table = "file" /\ new.ref # Plan!NoRef => new.ref \notin Plan!Refs(new.owner)
  BY <1>2, <1>3, <1>4
<1>7. /\ planPhase' = "records"
      /\ UNCHANGED <<emailOwner, claims, rules, planConflicts, files, rows, winners, rowQuarantine, byRow>>
  BY DEF Plan!PlanFileRecord, Plan!mapVars, Plan!rowVars
<1> HIDE DEF new
<1>8. Appends(new)
  BY <1>1, <1>5, <1>6, <1>7, Appended DEF Appends
<1> QED BY <1>5, <1>8

\* A mail record is appended so.
LEMMA MailRecordPlanned ==
  ASSUME PlanAsm, PlanTypes, NEW ref \in Paths \cup {Plan!Remote}, NEW o \in Plan!Owner,
         Plan!PlanMailRecord(ref, o)
  PROVE  \E new \in [table : {"file", "mail"}, fate : Fates, owner : Plan!Owner, ref : Places] : Appends(new)
<1> DEFINE to == Plan!Rewrite(ref, o)
           new == [table |-> "mail", fate |-> IF o = None THEN "unowned" ELSE "owned", owner |-> o,
                   ref |-> IF o = None THEN Plan!NoRef ELSE to]
<1>1. planRecords' = Append(planRecords, new)
  BY DEF Plan!PlanMailRecord
<1>2. to \in Places /\ (to \in Paths => files[to].fate = "owned" /\ files[to].owner = o)
  BY Rewritten
<1>3. Plan!NoRef \in Places /\ Plan!NoRef \notin Paths
  BY DEF Places, PlanAsm, Plan!PlanAssumption
<1> HIDE DEF to
<1>4. new \in [table : {"file", "mail"}, fate : Fates, owner : Plan!Owner, ref : Places]
  BY <1>2, <1>3 DEF Fates
<1>5. /\ new.ref \in Paths => files[new.ref].fate = "owned" /\ files[new.ref].owner = new.owner
      /\ new.table # "file"
  BY <1>2, <1>3
<1>6. /\ planPhase' = "records"
      /\ UNCHANGED <<emailOwner, claims, rules, planConflicts, files, rows, winners, rowQuarantine, byRow>>
  BY DEF Plan!PlanMailRecord, Plan!mapVars, Plan!rowVars
<1> HIDE DEF new
<1>7. Appends(new)
  BY <1>1, <1>4, <1>5, <1>6, Appended DEF Appends
<1> QED BY <1>4, <1>7

\* What owner_of_path answers for a file.
LEMMA OwnerOfPathIs ==
  ASSUME PlanTypes, NEW p \in Paths
  PROVE  /\ Plan!OwnerOfPath(p) \in [fate : Plan!FileFates, owner : Plan!Owner]
         /\ Plan!OwnerOfPath(p).fate = "owned" =>
              /\ Plan!OwnerOfPath(p).owner \in POwners
              /\ \A r \in rules : Plan!IsPrefix(r[1], p) => r[2] = Plan!OwnerOfPath(p).owner
         /\ Plan!OwnerOfPath(p).fate # "unseen"
<1> DEFINE matching == {r \in rules : Plan!IsPrefix(r[1], p)}
           owners == {r[2] : r \in matching}
<1>1. owners \subseteq POwners /\ \A r \in rules : Plan!IsPrefix(r[1], p) => r[2] \in owners
  BY DEF PlanTypes
<1>2. IsFiniteSet(owners)
  <2>1. IsFiniteSet(matching)
    BY FS_Subset DEF PlanTypes
  <2> HIDE DEF matching
  <2>2. [r \in matching |-> r[2]] \in Surjection(matching, owners)
    BY DEF Surjection
  <2> QED BY <2>1, <2>2, FS_Surjection
<1> HIDE DEF matching
<1>3. Plan!OwnerOfPath(p) =
        CASE owners = {} -> [fate |-> "unowned", owner |-> None]
          [] Plan!Cardinality(owners) > 1 -> [fate |-> "ambiguous_owner", owner |-> None]
          [] OTHER -> [fate |-> "owned", owner |-> CHOOSE o \in owners : TRUE]
  BY DEF Plan!OwnerOfPath, matching
<1>4. Plan!Cardinality(owners) = Cardinality(owners)
  BY DEF Plan!Cardinality, Cardinality
<1> HIDE DEF owners
<1>5. CASE owners = {} \/ Cardinality(owners) > 1
  BY <1>3, <1>4, <1>5 DEF Plan!FileFates, Plan!Owner
<1>6. CASE owners # {} /\ ~(Cardinality(owners) > 1)
  <2>1. Cardinality(owners) \in Nat /\ Cardinality(owners) # 0
    BY <1>2, <1>6, FS_CardinalityType, FS_EmptySet
  <2>2. Cardinality(owners) = 1
    BY <1>6, <2>1
  <2>3. PICK o : owners = {o}
    BY <1>2, <2>2, FS_Singleton
  <2>4. Plan!OwnerOfPath(p) = [fate |-> "owned", owner |-> o]
    BY <1>3, <1>4, <1>6, <2>2, <2>3
  <2> QED BY <1>1, <2>3, <2>4 DEF Plan!FileFates, Plan!Owner
<1> QED BY <1>5, <1>6

\* Every step keeps the types.
LEMMA PlanTypeStep ==
  ASSUME PlanAsm, PlanTypes, RowsGo, [Plan!PlanNext]_Plan!assignVars
  PROVE  PlanTypes'
<1> USE DEF PlanTypes, Plan!mapVars, Plan!rowVars
<1>1. ASSUME NEW e \in Emails, NEW o \in POwners, Plan!ReadEntry(e, o) PROVE PlanTypes'
  BY <1>1, SMTT(30) DEF Plan!ReadEntry, Plan!Claimed, Plan!Owner
<1>2. ASSUME NEW p \in Paths, NEW e \in Emails, Plan!ReadRule(p, e) PROVE PlanTypes'
  <2>1. rules' = rules \cup {<<p, emailOwner[e]>>} /\ emailOwner[e] \in POwners
    BY <1>2 DEF Plan!ReadRule
  <2>2. IsFiniteSet(rules')
    BY <2>1, FS_AddElement
  <2> QED BY <1>2, <2>1, <2>2 DEF Plan!ReadRule
<1>3. ASSUME NEW p \in Paths, Plan!PlanFile(p) PROVE PlanTypes'
  <2>1. Plan!OwnerOfPath(p) \in [fate : Plan!FileFates, owner : Plan!Owner]
        /\ [fate |-> "set_aside", owner |-> None] \in [fate : Plan!FileFates, owner : Plan!Owner]
    BY OwnerOfPathIs DEF Plan!FileFates, Plan!Owner
  <2> QED BY <1>3, <2>1, SMTT(30) DEF Plan!PlanFile
<1>4. ASSUME NEW row \in Plan!Row, Plan!PlanRow(row) PROVE PlanTypes'
  <2> DEFINE i == Len(rows) + 1
  <2>1. TakesRow(row, i)
    BY <1>4, RowTaken
  <2> HIDE DEF i
  <2>2. UNCHANGED <<emailOwner, claims, rules, planConflicts, files, planRecords>>
        /\ planPhase' = "rows" /\ rows' \in Seq(Plan!Row) /\ i \in Nat
    BY <2>1 DEF TakesRow
  <2>3. /\ winners' \in [POwners -> Nat] /\ byRow' \in [POwners -> SUBSET Nat]
        /\ rowQuarantine' \in [Plan!Reasons -> SUBSET Nat]
    <3>1. "duplicate_after_merge" \in Plan!Reasons
      BY DEF Plan!Reasons
    <3>2. ASSUME NEW q \in Plan!Reasons, SetAside(q, i)
          PROVE  /\ winners' \in [POwners -> Nat] /\ byRow' \in [POwners -> SUBSET Nat]
                 /\ rowQuarantine' \in [Plan!Reasons -> SUBSET Nat]
      BY <2>2, <3>2 DEF SetAside
    <3>3. ASSUME NEW o \in POwners, IsPlain(o, i) \/ Wins(o, i) \/ Loses(o, i)
          PROVE  /\ winners' \in [POwners -> Nat] /\ byRow' \in [POwners -> SUBSET Nat]
                 /\ rowQuarantine' \in [Plan!Reasons -> SUBSET Nat]
      <4>1. winners' \in [POwners -> Nat]
        BY <2>2, <3>3 DEF IsPlain, Wins, Loses
      <4>2. byRow' \in [POwners -> SUBSET Nat]
        <5>1. byRow' = byRow \/ byRow' = [byRow EXCEPT ![o] = @ \cup {i}]
          BY <3>3 DEF IsPlain, Wins, Loses
        <5>2. {i} \in SUBSET Nat
          BY <2>2
        <5> QED BY <5>1, <5>2
      <4>3. \E x \in SUBSET Nat : rowQuarantine' = [rowQuarantine EXCEPT !["duplicate_after_merge"] = @ \cup x]
                                  \/ rowQuarantine' = rowQuarantine
        <5>1. winners[o] \in Nat
          OBVIOUS
        <5>2. {i} \in SUBSET Nat /\ {winners[o]} \ {0} \in SUBSET Nat
          BY <2>2, <5>1
        <5> QED BY <3>3, <5>2 DEF IsPlain, Wins, Loses
      <4>4. rowQuarantine' \in [Plan!Reasons -> SUBSET Nat]
        BY <3>1, <4>3
      <4> QED BY <4>1, <4>2, <4>4
    <3> QED BY <2>1, <3>2, <3>3 DEF TakesRow
  <2> QED BY <2>2, <2>3
<1>5. ASSUME NEW ref \in Paths \cup {Plan!Remote}, NEW o \in Plan!Owner, Plan!PlanFileRecord(ref, o) PROVE PlanTypes'
  <2>1. PICK new \in [table : {"file", "mail"}, fate : Fates, owner : Plan!Owner, ref : Places] : Appends(new)
    BY <1>5, FileRecordPlanned
  <2> QED BY <2>1 DEF Appends
<1>6. ASSUME NEW ref \in Paths \cup {Plan!Remote}, NEW o \in Plan!Owner, Plan!PlanMailRecord(ref, o) PROVE PlanTypes'
  <2>1. PICK new \in [table : {"file", "mail"}, fate : Fates, owner : Plan!Owner, ref : Places] : Appends(new)
    BY <1>6, MailRecordPlanned
  <2> QED BY <2>1 DEF Appends
<1>7. CASE UNCHANGED Plan!assignVars
  BY <1>7, SMTT(30) DEF Plan!assignVars
<1> HIDE DEF PlanTypes, Plan!mapVars, Plan!rowVars
<1> QED BY <1>1, <1>2, <1>3, <1>4, <1>5, <1>6, <1>7 DEF Plan!PlanNext

\* Every step comes in its order.
LEMMA OrderStep ==
  ASSUME PlanAsm, PlanTypes, RowsGo, InOrder, [Plan!PlanNext]_Plan!assignVars
  PROVE  InOrder'
<1> USE DEF InOrder, Plan!mapVars, Plan!rowVars
<1>1. ASSUME NEW e \in Emails, NEW o \in POwners, Plan!ReadEntry(e, o) PROVE InOrder'
  BY <1>1, SMTT(30) DEF Plan!ReadEntry
<1>2. ASSUME NEW p \in Paths, NEW e \in Emails, Plan!ReadRule(p, e) PROVE InOrder'
  BY <1>2, SMTT(30) DEF Plan!ReadRule
<1>3. ASSUME NEW p \in Paths, Plan!PlanFile(p) PROVE InOrder'
  BY <1>3 DEF Plan!PlanFile
<1>4. ASSUME NEW row \in Plan!Row, Plan!PlanRow(row) PROVE InOrder'
  <2> DEFINE i == Len(rows) + 1
  <2>1. TakesRow(row, i)
    BY <1>4, RowTaken
  <2> HIDE DEF i
  <2> QED BY <2>1 DEF TakesRow
<1>5. ASSUME NEW ref \in Paths \cup {Plan!Remote}, NEW o \in Plan!Owner, Plan!PlanFileRecord(ref, o) PROVE InOrder'
  <2>1. PICK new \in [table : {"file", "mail"}, fate : Fates, owner : Plan!Owner, ref : Places] : Appends(new)
    BY <1>5, FileRecordPlanned
  <2> QED BY <2>1 DEF Appends
<1>6. ASSUME NEW ref \in Paths \cup {Plan!Remote}, NEW o \in Plan!Owner, Plan!PlanMailRecord(ref, o) PROVE InOrder'
  <2>1. PICK new \in [table : {"file", "mail"}, fate : Fates, owner : Plan!Owner, ref : Places] : Appends(new)
    BY <1>6, MailRecordPlanned
  <2> QED BY <2>1 DEF Appends
<1>7. CASE UNCHANGED Plan!assignVars
  BY <1>7, SMTT(30) DEF Plan!assignVars
<1> HIDE DEF InOrder, Plan!mapVars, Plan!rowVars
<1> QED BY <1>1, <1>2, <1>3, <1>4, <1>5, <1>6, <1>7 DEF Plan!PlanNext

\* Every entry counts.
LEMMA ClaimsStep ==
  ASSUME PlanAsm, PlanTypes, RowsGo, ClaimsCounted, [Plan!PlanNext]_Plan!assignVars
  PROVE  ClaimsCounted'
<1> USE DEF ClaimsCounted, Plan!mapVars, Plan!rowVars
<1>1. ASSUME NEW e \in Emails, NEW o \in POwners, Plan!ReadEntry(e, o) PROVE ClaimsCounted'
  <2>1. claims' = claims \cup {<<e, o>>} /\ emailOwner' = [emailOwner EXCEPT ![e] = Plan!Claimed(e, o)]
    BY <1>1 DEF Plan!ReadEntry
  <2>2. emailOwner[e] \in Plan!Owner \cup {Ambiguous} /\ Ambiguous \notin POwners /\ None \notin POwners
    BY DEF PlanTypes, PlanAsm, Plan!PlanAssumption, Plan!Owner
  <2>3. emailOwner'[e] = IF emailOwner[e] \in {None, o} THEN o ELSE Ambiguous
    BY <2>1 DEF PlanTypes, Plan!Claimed
  <2>4. \A f \in Emails \ {e} : emailOwner'[f] = emailOwner[f]
    BY <2>1 DEF PlanTypes
  <2>5. ASSUME NEW f \in Emails
        PROVE  /\ emailOwner'[f] \in POwners => <<f, emailOwner'[f]>> \in claims'
               /\ \A x \in POwners : <<f, x>> \in claims' => emailOwner'[f] \in {x, Ambiguous}
    <3>1. CASE f = e
      <4>1. \A x \in POwners : <<e, x>> \in claims' <=> (<<e, x>> \in claims \/ x = o)
        BY <2>1
      <4>2. None # Ambiguous
        BY DEF PlanAsm, Plan!PlanAssumption, Plan!Owner
      <4>3. \A x \in POwners : <<e, x>> \in claims => emailOwner[e] \in {x, Ambiguous}
        OBVIOUS
      <4>4. CASE emailOwner[e] \in {None, o}
        <5>1. emailOwner'[e] = o
          BY <2>3, <4>4
        <5>2. \A x \in POwners : <<e, x>> \in claims => x = o
          BY <2>2, <4>2, <4>3, <4>4
        <5> QED BY <3>1, <4>1, <5>1, <5>2
      <4>5. CASE emailOwner[e] \notin {None, o}
        <5>1. emailOwner'[e] = Ambiguous
          BY <2>3, <4>5
        <5> QED BY <2>2, <3>1, <5>1
      <4> QED BY <4>4, <4>5
    <3>2. CASE f # e
      BY <2>1, <2>4, <3>2
    <3> QED BY <3>1, <3>2
  <2> QED BY <2>5
<1>2. ASSUME NEW p \in Paths, NEW e \in Emails, Plan!ReadRule(p, e) PROVE ClaimsCounted'
  BY <1>2, SMTT(30) DEF Plan!ReadRule
<1>3. ASSUME NEW p \in Paths, Plan!PlanFile(p) PROVE ClaimsCounted'
  BY <1>3, SMTT(30) DEF Plan!PlanFile
<1>4. ASSUME NEW row \in Plan!Row, Plan!PlanRow(row) PROVE ClaimsCounted'
  <2> DEFINE i == Len(rows) + 1
  <2>1. TakesRow(row, i)
    BY <1>4, RowTaken
  <2> HIDE DEF i
  <2> QED BY <2>1 DEF TakesRow
<1>5. ASSUME NEW ref \in Paths \cup {Plan!Remote}, NEW o \in Plan!Owner, Plan!PlanFileRecord(ref, o) PROVE ClaimsCounted'
  <2>1. PICK new \in [table : {"file", "mail"}, fate : Fates, owner : Plan!Owner, ref : Places] : Appends(new)
    BY <1>5, FileRecordPlanned
  <2> QED BY <2>1 DEF Appends
<1>6. ASSUME NEW ref \in Paths \cup {Plan!Remote}, NEW o \in Plan!Owner, Plan!PlanMailRecord(ref, o) PROVE ClaimsCounted'
  <2>1. PICK new \in [table : {"file", "mail"}, fate : Fates, owner : Plan!Owner, ref : Places] : Appends(new)
    BY <1>6, MailRecordPlanned
  <2> QED BY <2>1 DEF Appends
<1>7. CASE UNCHANGED Plan!assignVars
  BY <1>7, SMTT(30) DEF Plan!assignVars
<1> HIDE DEF ClaimsCounted, Plan!mapVars, Plan!rowVars
<1> QED BY <1>1, <1>2, <1>3, <1>4, <1>5, <1>6, <1>7 DEF Plan!PlanNext

\* Every file goes where all its rules say.
LEMMA FilesStep ==
  ASSUME PlanAsm, PlanTypes, RowsGo, InOrder, FilesGo, [Plan!PlanNext]_Plan!assignVars
  PROVE  FilesGo'
<1> USE DEF FilesGo, Plan!mapVars, Plan!rowVars
<1>1. ASSUME NEW e \in Emails, NEW o \in POwners, Plan!ReadEntry(e, o) PROVE FilesGo'
  BY <1>1, SMTT(30) DEF Plan!ReadEntry
<1>2. ASSUME NEW p \in Paths, NEW e \in Emails, Plan!ReadRule(p, e) PROVE FilesGo'
  BY <1>2 DEF Plan!ReadRule, InOrder
<1>3. ASSUME NEW p \in Paths, Plan!PlanFile(p) PROVE FilesGo'
  <2>1. UNCHANGED rules /\ \/ files' = [files EXCEPT ![p] = [fate |-> "set_aside", owner |-> None]]
                            \/ files' = [files EXCEPT ![p] = Plan!OwnerOfPath(p)]
    BY <1>3 DEF Plan!PlanFile
  <2> DEFINE x == Plan!OwnerOfPath(p)
  <2>2. x.fate = "owned" => /\ x.owner \in POwners
                            /\ \A r \in rules : Plan!IsPrefix(r[1], p) => r[2] = x.owner
    BY OwnerOfPathIs
  <2> HIDE DEF x
  <2>3. \A f \in Paths : f # p => files'[f] = files[f]
    BY <2>1 DEF PlanTypes
  <2>4. files'[p] = [fate |-> "set_aside", owner |-> None] \/ files'[p] = x
    BY <2>1 DEF PlanTypes, x
  <2>5. ASSUME NEW f \in Paths, files'[f].fate = "owned"
        PROVE  files'[f].owner \in POwners
               /\ \A r \in rules : Plan!IsPrefix(r[1], f) => r[2] = files'[f].owner
    <3>1. CASE f = p
      BY <2>2, <2>4, <2>5, <3>1
    <3>2. CASE f # p
      BY <2>3, <2>5, <3>2
    <3> QED BY <3>1, <3>2
  <2> QED BY <2>1, <2>5
<1>4. ASSUME NEW row \in Plan!Row, Plan!PlanRow(row) PROVE FilesGo'
  <2> DEFINE i == Len(rows) + 1
  <2>1. TakesRow(row, i)
    BY <1>4, RowTaken
  <2> HIDE DEF i
  <2> QED BY <2>1 DEF TakesRow
<1>5. ASSUME NEW ref \in Paths \cup {Plan!Remote}, NEW o \in Plan!Owner, Plan!PlanFileRecord(ref, o) PROVE FilesGo'
  <2>1. PICK new \in [table : {"file", "mail"}, fate : Fates, owner : Plan!Owner, ref : Places] : Appends(new)
    BY <1>5, FileRecordPlanned
  <2> QED BY <2>1 DEF Appends
<1>6. ASSUME NEW ref \in Paths \cup {Plan!Remote}, NEW o \in Plan!Owner, Plan!PlanMailRecord(ref, o) PROVE FilesGo'
  <2>1. PICK new \in [table : {"file", "mail"}, fate : Fates, owner : Plan!Owner, ref : Places] : Appends(new)
    BY <1>6, MailRecordPlanned
  <2> QED BY <2>1 DEF Appends
<1>7. CASE UNCHANGED Plan!assignVars
  BY <1>7, SMTT(30) DEF Plan!assignVars
<1> HIDE DEF FilesGo, Plan!mapVars, Plan!rowVars
<1> QED BY <1>1, <1>2, <1>3, <1>4, <1>5, <1>6, <1>7 DEF Plan!PlanNext

\* Every row goes to one place.
LEMMA RowsStep ==
  ASSUME PlanAsm, PlanTypes, InOrder, RowsGo, [Plan!PlanNext]_Plan!assignVars
  PROVE  RowsGo'
<1> USE DEF RowsGo, RowsOwned, RowsApart, RowsSomewhere, Plan!mapVars, Plan!rowVars
<1>1. ASSUME NEW e \in Emails, NEW o \in POwners, Plan!ReadEntry(e, o) PROVE RowsGo'
  <2>1. rows = <<>> /\ UNCHANGED <<rows, winners, rowQuarantine, byRow>>
    BY <1>1 DEF Plan!ReadEntry, InOrder
  <2>2. DOMAIN rows = {}
    BY <2>1
  <2>3. (\A o1 \in POwners : winners[o1] = 0 /\ byRow[o1] = {}) /\ \A q \in Plan!Reasons : rowQuarantine[q] = {}
    BY <2>2
  <2> QED BY <2>1, <2>2, <2>3
<1>2. ASSUME NEW p \in Paths, NEW e \in Emails, Plan!ReadRule(p, e) PROVE RowsGo'
  BY <1>2, SMTT(30) DEF Plan!ReadRule
<1>3. ASSUME NEW p \in Paths, Plan!PlanFile(p) PROVE RowsGo'
  BY <1>3, SMTT(30) DEF Plan!PlanFile
<1>4. ASSUME NEW row \in Plan!Row, Plan!PlanRow(row) PROVE RowsGo'
  <2> DEFINE i == Len(rows) + 1
  <2>1. TakesRow(row, i)
    BY <1>4, RowTaken
  <2> HIDE DEF i
  <2>2. /\ DOMAIN rows' = DOMAIN rows \cup {i} /\ i \notin DOMAIN rows /\ rows'[i] = row
        /\ (\A j \in DOMAIN rows : rows'[j] = rows[j]) /\ emailOwner' = emailOwner
        /\ i # 0 /\ 0 \notin DOMAIN rows
    BY <2>1 DEF TakesRow, i
  <2>3. ASSUME NEW q \in Plan!Reasons, SetAside(q, i) PROVE RowsGo'
    BY <2>2, <2>3, SMTT(60) DEF SetAside, PlanTypes
  <2>4. ASSUME NEW o \in POwners, row.email \in Emails, emailOwner[row.email] = o, IsPlain(o, i) PROVE RowsGo'
    <3>1. RowsOwned'
      BY <2>2, <2>4, SMTT(60) DEF IsPlain, PlanTypes
    <3>2. RowsApart'
      BY <2>2, <2>4, SMTT(60) DEF IsPlain, PlanTypes, Plan!Reasons
    <3>3. RowsSomewhere'
      BY <2>2, <2>4, SMTT(60) DEF IsPlain, PlanTypes, Plan!Reasons
    <3> QED BY <3>1, <3>2, <3>3
  <2>5. ASSUME NEW o \in POwners, row.email \in Emails, emailOwner[row.email] = o, Wins(o, i) PROVE RowsGo'
    <3>1. RowsOwned'
      BY <2>2, <2>5, SMTT(60) DEF Wins, PlanTypes
    <3>2. RowsApart'
      BY <2>2, <2>5, SMTT(60) DEF Wins, PlanTypes, Plan!Reasons
    <3>3. RowsSomewhere'
      BY <2>2, <2>5, SMTT(60) DEF Wins, PlanTypes, Plan!Reasons
    <3> QED BY <3>1, <3>2, <3>3
  <2>6. ASSUME NEW o \in POwners, row.email \in Emails, emailOwner[row.email] = o, Loses(o, i) PROVE RowsGo'
    <3>1. RowsOwned'
      BY <2>2, <2>6, SMTT(60) DEF Loses, PlanTypes
    <3>2. RowsApart'
      BY <2>2, <2>6, SMTT(60) DEF Loses, PlanTypes, Plan!Reasons
    <3>3. RowsSomewhere'
      BY <2>2, <2>6, SMTT(60) DEF Loses, PlanTypes, Plan!Reasons
    <3> QED BY <3>1, <3>2, <3>3
  <2> QED BY <2>1, <2>3, <2>4, <2>5, <2>6 DEF TakesRow
<1>5. ASSUME NEW ref \in Paths \cup {Plan!Remote}, NEW o \in Plan!Owner, Plan!PlanFileRecord(ref, o) PROVE RowsGo'
  <2>1. PICK new \in [table : {"file", "mail"}, fate : Fates, owner : Plan!Owner, ref : Places] : Appends(new)
    BY <1>5, FileRecordPlanned
  <2> QED BY <2>1 DEF Appends
<1>6. ASSUME NEW ref \in Paths \cup {Plan!Remote}, NEW o \in Plan!Owner, Plan!PlanMailRecord(ref, o) PROVE RowsGo'
  <2>1. PICK new \in [table : {"file", "mail"}, fate : Fates, owner : Plan!Owner, ref : Places] : Appends(new)
    BY <1>6, MailRecordPlanned
  <2> QED BY <2>1 DEF Appends
<1>7. CASE UNCHANGED Plan!assignVars
  BY <1>7, SMTT(30) DEF Plan!assignVars
<1> HIDE DEF RowsGo, RowsOwned, RowsApart, RowsSomewhere, Plan!mapVars, Plan!rowVars
<1> QED BY <1>1, <1>2, <1>3, <1>4, <1>5, <1>6, <1>7 DEF Plan!PlanNext

\* Of rows with one key the latest stays.
LEMMA LatestStep ==
  ASSUME PlanAsm, PlanTypes, InOrder, RowsGo, LatestWins, [Plan!PlanNext]_Plan!assignVars
  PROVE  LatestWins'
<1> USE DEF LatestWins, Plan!mapVars, Plan!rowVars
<1>1. ASSUME NEW e \in Emails, NEW o \in POwners, Plan!ReadEntry(e, o) PROVE LatestWins'
  <2>1. rows = <<>> /\ UNCHANGED <<rows, winners, rowQuarantine, byRow>>
    BY <1>1 DEF Plan!ReadEntry, InOrder
  <2>2. rowQuarantine["duplicate_after_merge"] = {}
    BY <2>1 DEF RowsGo, RowsApart, Plan!Reasons
  <2> QED BY <2>1, <2>2
<1>2. ASSUME NEW p \in Paths, NEW e \in Emails, Plan!ReadRule(p, e) PROVE LatestWins'
  BY <1>2, SMTT(30) DEF Plan!ReadRule
<1>3. ASSUME NEW p \in Paths, Plan!PlanFile(p) PROVE LatestWins'
  BY <1>3, SMTT(30) DEF Plan!PlanFile
<1>4. ASSUME NEW row \in Plan!Row, Plan!PlanRow(row) PROVE LatestWins'
  <2> DEFINE i == Len(rows) + 1
  <2>1. TakesRow(row, i)
    BY <1>4, RowTaken
  <2> HIDE DEF i
  <2>2. /\ DOMAIN rows' = DOMAIN rows \cup {i} /\ i \notin DOMAIN rows /\ rows'[i] = row
        /\ (\A j \in DOMAIN rows : rows'[j] = rows[j]) /\ emailOwner' = emailOwner
        /\ i # 0 /\ 0 \notin DOMAIN rows /\ "duplicate_after_merge" \in Plan!Reasons
    BY <2>1 DEF TakesRow, i, Plan!Reasons
  <2>8. \A j \in DOMAIN rows' : rows'[j].stamp \in Nat
    <3>1. \A j \in DOMAIN rows' : rows'[j] \in Plan!Row
      <4>1. rows' \in Seq(Plan!Row)
        BY <2>1 DEF TakesRow
      <4> QED BY <4>1
    <3> QED BY <3>1 DEF Plan!Row, PlanAsm, Plan!PlanAssumption
  <2> DEFINE late == rowQuarantine["duplicate_after_merge"]
  <2>7. late \subseteq DOMAIN rows /\ \A o \in POwners : winners[o] # 0 => winners[o] \in DOMAIN rows
    BY <2>2 DEF RowsGo, RowsOwned, RowsApart, RowsSomewhere
  <2>3. ASSUME NEW q \in Plan!Reasons, SetAside(q, i) PROVE LatestWins'
    BY <2>2, <2>3, <2>7, <2>8, SMTT(60) DEF SetAside, PlanTypes
  <2>4. ASSUME NEW o \in POwners, row.email \in Emails, emailOwner[row.email] = o, IsPlain(o, i) PROVE LatestWins'
    BY <2>2, <2>4, <2>7, <2>8, SMTT(60) DEF IsPlain, PlanTypes
  <2>5. ASSUME NEW o \in POwners, row.email \in Emails, emailOwner[row.email] = o, Wins(o, i) PROVE LatestWins'
    BY <2>2, <2>5, <2>7, <2>8, SMTT(60) DEF Wins, PlanTypes, RowsGo, RowsOwned
  <2>6. ASSUME NEW o \in POwners, row.email \in Emails, emailOwner[row.email] = o, Loses(o, i) PROVE LatestWins'
    BY <2>2, <2>6, <2>7, <2>8, SMTT(60) DEF Loses, PlanTypes
  <2> QED BY <2>1, <2>3, <2>4, <2>5, <2>6 DEF TakesRow
<1>5. ASSUME NEW ref \in Paths \cup {Plan!Remote}, NEW o \in Plan!Owner, Plan!PlanFileRecord(ref, o) PROVE LatestWins'
  <2>1. PICK new \in [table : {"file", "mail"}, fate : Fates, owner : Plan!Owner, ref : Places] : Appends(new)
    BY <1>5, FileRecordPlanned
  <2> QED BY <2>1 DEF Appends
<1>6. ASSUME NEW ref \in Paths \cup {Plan!Remote}, NEW o \in Plan!Owner, Plan!PlanMailRecord(ref, o) PROVE LatestWins'
  <2>1. PICK new \in [table : {"file", "mail"}, fate : Fates, owner : Plan!Owner, ref : Places] : Appends(new)
    BY <1>6, MailRecordPlanned
  <2> QED BY <2>1 DEF Appends
<1>7. CASE UNCHANGED Plan!assignVars
  BY <1>7, SMTT(30) DEF Plan!assignVars
<1> HIDE DEF LatestWins, Plan!mapVars, Plan!rowVars
<1> QED BY <1>1, <1>2, <1>3, <1>4, <1>5, <1>6, <1>7 DEF Plan!PlanNext

\* Every record leads to its owner's file, or nowhere.
LEMMA RecordsStep ==
  ASSUME PlanAsm, PlanTypes, InOrder, RowsGo, RecordsGo, [Plan!PlanNext]_Plan!assignVars
  PROVE  RecordsGo'
<1> USE DEF RecordsGo, Plan!mapVars, Plan!rowVars
<1>1. ASSUME NEW e \in Emails, NEW o \in POwners, Plan!ReadEntry(e, o) PROVE RecordsGo'
  BY <1>1, SMTT(30) DEF Plan!ReadEntry
<1>2. ASSUME NEW p \in Paths, NEW e \in Emails, Plan!ReadRule(p, e) PROVE RecordsGo'
  BY <1>2, SMTT(30) DEF Plan!ReadRule
<1>3. ASSUME NEW p \in Paths, Plan!PlanFile(p) PROVE RecordsGo'
  BY <1>3 DEF Plan!PlanFile, InOrder
<1>4. ASSUME NEW row \in Plan!Row, Plan!PlanRow(row) PROVE RecordsGo'
  <2> DEFINE i == Len(rows) + 1
  <2>1. TakesRow(row, i)
    BY <1>4, RowTaken
  <2> HIDE DEF i
  <2> QED BY <2>1 DEF TakesRow
<1>5. ASSUME NEW ref \in Paths \cup {Plan!Remote}, NEW o \in Plan!Owner, Plan!PlanFileRecord(ref, o) PROVE RecordsGo'
  <2>1. PICK new \in [table : {"file", "mail"}, fate : Fates, owner : Plan!Owner, ref : Places] : Appends(new)
    BY <1>5, FileRecordPlanned
  <2> QED BY <2>1 DEF Appends, Plan!Refs
<1>6. ASSUME NEW ref \in Paths \cup {Plan!Remote}, NEW o \in Plan!Owner, Plan!PlanMailRecord(ref, o) PROVE RecordsGo'
  <2>1. PICK new \in [table : {"file", "mail"}, fate : Fates, owner : Plan!Owner, ref : Places] : Appends(new)
    BY <1>6, MailRecordPlanned
  <2> QED BY <2>1 DEF Appends, Plan!Refs
<1>7. CASE UNCHANGED Plan!assignVars
  BY <1>7, SMTT(30) DEF Plan!assignVars
<1> HIDE DEF RecordsGo, Plan!mapVars, Plan!rowVars
<1> QED BY <1>1, <1>2, <1>3, <1>4, <1>5, <1>6, <1>7 DEF Plan!PlanNext

\* A plan not begun satisfies the invariant.
LEMMA PlanStart == ASSUME PlanAsm, Plan!PlanInit PROVE PlanInv
<1> USE DEF Plan!PlanInit
<1>1. PlanTypes
  <2>1. rows \in Seq(Plan!Row)
        /\ planRecords \in Seq([table : {"file", "mail"}, fate : Fates, owner : Plan!Owner, ref : Places])
    OBVIOUS
  <2>2. None \in Plan!Owner /\ "unseen" \in Plan!FileFates
    BY DEF Plan!Owner, Plan!FileFates
  <2>3. files \in [Paths -> [fate : Plan!FileFates, owner : Plan!Owner]]
    BY <2>2
  <2> QED BY <2>1, <2>2, <2>3, FS_EmptySet DEF PlanTypes
<1>2. InOrder /\ ClaimsCounted /\ FilesGo
  BY DEF InOrder, ClaimsCounted, FilesGo, PlanAsm, Plan!PlanAssumption, Plan!Owner
<1>3. RowsGo /\ LatestWins /\ RecordsGo
  BY DEF RowsGo, RowsOwned, RowsApart, RowsSomewhere, LatestWins, RecordsGo, Plan!Reasons
<1> QED BY <1>1, <1>2, <1>3 DEF PlanInv

\* Every step keeps the invariant.
LEMMA PlanInvStep ==
  ASSUME PlanAsm, PlanInv, [Plan!PlanNext]_Plan!assignVars PROVE PlanInv'
<1>1. PlanTypes /\ InOrder /\ ClaimsCounted /\ FilesGo /\ RowsGo /\ LatestWins /\ RecordsGo
  BY DEF PlanInv
<1>2. PlanTypes' /\ InOrder' /\ ClaimsCounted'
  BY <1>1, PlanTypeStep, OrderStep, ClaimsStep
<1>3. FilesGo' /\ RowsGo' /\ LatestWins' /\ RecordsGo'
  BY <1>1, FilesStep, RowsStep, LatestStep, RecordsStep
<1> QED BY <1>2, <1>3 DEF PlanInv

\* The invariant implies that the manifest's counts add up.
LEMMA PlacedOnce == ASSUME PlanAsm, PlanInv PROVE Plan!EachRowOnce
<1> SUFFICES ASSUME NEW i \in DOMAIN rows
    PROVE  /\ Plan!Cardinality({o \in POwners : i \in Plan!RowsOf(o)})
                + Plan!Cardinality({q \in Plan!Reasons : i \in rowQuarantine[q]}) = 1
           /\ i \in rowQuarantine["duplicate_after_merge"] =>
                \E o \in POwners : /\ emailOwner[rows[i].email] = o /\ winners[o] # 0
                                   /\ rows[winners[o]].stamp >= rows[i].stamp
  BY DEF Plan!EachRowOnce
<1> DEFINE getting == {o \in POwners : i \in Plan!RowsOf(o)}
           reasons == {q \in Plan!Reasons : i \in rowQuarantine[q]}
<1>1. rows \in Seq(Plan!Row) /\ RowsGo /\ LatestWins
  BY DEF PlanInv, PlanTypes
<1>2. i # 0
  BY <1>1
<1>3. \A o \in POwners : i \in Plan!RowsOf(o) <=> i = winners[o] \/ i \in byRow[o]
  BY <1>2 DEF Plan!RowsOf
<1>4. \A o \in getting : emailOwner[rows[i].email] = o
  BY <1>1, <1>2, <1>3 DEF RowsGo, RowsOwned, RowsApart, RowsSomewhere
<1>5. Plan!Cardinality(getting) = Cardinality(getting) /\ Plan!Cardinality(reasons) = Cardinality(reasons)
  BY DEF Plan!Cardinality, Cardinality
<1>6. CASE \E o \in POwners : i = winners[o] \/ i \in byRow[o]
  <2>1. PICK o \in POwners : i = winners[o] \/ i \in byRow[o]
    BY <1>6
  <2>2. getting = {o}
    BY <1>3, <1>4, <2>1
  <2>3. reasons = {}
    BY <1>1, <2>1 DEF RowsGo, RowsOwned, RowsApart, RowsSomewhere
  <2> HIDE DEF getting, reasons
  <2>4. Cardinality(getting) = 1 /\ Cardinality(reasons) = 0
    BY <2>2, <2>3, FS_Singleton, FS_EmptySet
  <2> QED BY <1>1, <1>5, <2>4 DEF LatestWins, getting, reasons
<1>7. CASE \E q \in Plan!Reasons : i \in rowQuarantine[q]
  <2>1. PICK q \in Plan!Reasons : i \in rowQuarantine[q]
    BY <1>7
  <2>2. reasons = {q}
    BY <1>1, <2>1 DEF RowsGo, RowsOwned, RowsApart, RowsSomewhere
  <2>3. getting = {}
    BY <1>1, <1>3, <2>1 DEF RowsGo, RowsOwned, RowsApart, RowsSomewhere
  <2> HIDE DEF getting, reasons
  <2>4. Cardinality(getting) = 0 /\ Cardinality(reasons) = 1
    BY <2>2, <2>3, FS_Singleton, FS_EmptySet
  <2> QED BY <1>1, <1>5, <2>4 DEF LatestWins, getting, reasons
<1> QED BY <1>1, <1>6, <1>7 DEF RowsGo, RowsOwned, RowsApart, RowsSomewhere

\* The invariant implies the types and that nobody gets what another may own.
LEMMA PlanSafe == ASSUME PlanAsm, PlanInv PROVE Plan!PlanTypeOK /\ Plan!NobodyGetsAnothers
<1>1. Plan!PlanTypeOK
  <2> DEFINE R == [table : {"file", "mail"}, fate : Fates, owner : Plan!Owner, ref : Places]
  <2>1. planRecords \in Seq(R)
    BY DEF PlanInv, PlanTypes
  <2>2. \A x \in R : x.ref \in Places
    OBVIOUS
  <2> HIDE DEF R
  <2>3. \A i \in DOMAIN planRecords : planRecords[i].ref \in Places
    BY <2>1, <2>2
  <2> QED BY <2>3 DEF PlanInv, PlanTypes, Places, Plan!PlanTypeOK
<1>2. ASSUME NEW o \in POwners, NEW i \in Plan!RowsOf(o)
      PROVE  {c \in claims : c[1] = rows[i].email} = {<<rows[i].email, o>>}
  <2>1. rows[i].email \in Emails /\ emailOwner[rows[i].email] = o
    BY <1>2 DEF PlanInv, RowsGo, RowsOwned, Plan!RowsOf
  <2>2. <<rows[i].email, o>> \in claims
    BY <2>1 DEF PlanInv, ClaimsCounted
  <2>3. \A c \in claims : c[1] = rows[i].email => c = <<rows[i].email, o>>
    <3> SUFFICES ASSUME NEW c \in claims, c[1] = rows[i].email PROVE c = <<rows[i].email, o>>
      OBVIOUS
    <3>1. c = <<c[1], c[2]>> /\ c[2] \in POwners
      BY DEF PlanInv, PlanTypes
    <3>2. emailOwner[c[1]] \in {c[2], Ambiguous} /\ o # Ambiguous
      BY <2>1, <3>1 DEF PlanInv, ClaimsCounted, PlanAsm, Plan!PlanAssumption, Plan!Owner
    <3> QED BY <2>1, <3>1, <3>2
  <2> QED BY <2>2, <2>3
<1>3. \A p \in Paths : files[p].fate = "owned" =>
        \A r \in rules : Plan!IsPrefix(r[1], p) => r[2] = files[p].owner
  BY DEF PlanInv, FilesGo
<1>4. \A i \in DOMAIN planRecords :
        planRecords[i].ref \in Paths => files[planRecords[i].ref].owner = planRecords[i].owner
  BY DEF PlanInv, RecordsGo
<1>5. \A i, j \in DOMAIN planRecords :
        /\ i # j /\ planRecords[i].table = "file" /\ planRecords[j].table = "file"
        /\ planRecords[i].ref # Plan!NoRef /\ planRecords[i].owner = planRecords[j].owner
        => planRecords[i].ref # planRecords[j].ref
  BY DEF PlanInv, RecordsGo
<1> QED BY <1>1, <1>2, <1>3, <1>4, <1>5 DEF Plan!NobodyGetsAnothers

-----------------------------------------------------------------------------
(* The migration and its plan                                                  *)

\* The inductive invariant of the migration holds in every reachable state.
THEOREM MoveInvariance == Move!MigrationSpec => []MoveInv
<1>1. Move!MigrationInit => MoveInv
  BY MoveStart, ServerAssumption DEF MoveAsm
<1>2. ASSUME MoveInv, [Move!MigrationNext]_Move!migrationVars PROVE MoveInv'
  <2>1. MoveAsm
    BY ServerAssumption DEF MoveAsm
  <2> QED BY <1>2, <2>1, MoveInvStep
<1> QED BY <1>1, <1>2, PTL DEF Move!MigrationSpec

\* However often apply and activate are killed and run again, no part is in a
\* store twice.
THEOREM NothingMovedTwice == Move!MigrationSpec => []Move!NothingTwice
<1>1. MoveInv => Move!NothingTwice
  BY MoveSafe, ServerAssumption DEF MoveAsm
<1> QED BY <1>1, MoveInvariance, PTL

\* An activation is recorded as complete only when each user's stores hold each
\* planned part exactly once, from that run, and the plan was taken from the data as
\* this activation found it.
THEOREM ActivationsComplete == Move!MigrationSpec => [][Move!CompletesAsPlanned]_Move!migrationVars
<1>1. MoveInv /\ [Move!MigrationNext]_Move!migrationVars => [Move!CompletesAsPlanned]_Move!migrationVars
  BY CompletesStep, ServerAssumption DEF MoveAsm
<1> QED BY <1>1, MoveInvariance, PTL DEF Move!MigrationSpec

\* What a user wrote in mode 1 is never removed or replaced by the tool.
THEOREM OwnDataStays == Move!MigrationSpec => [][Move!OwnDataKept]_Move!migrationVars
<1>1. MoveInv /\ [Move!MigrationNext]_Move!migrationVars => [Move!OwnDataKept]_Move!migrationVars
  BY OwnKeptStep, ServerAssumption DEF MoveAsm
<1> QED BY <1>1, MoveInvariance, PTL DEF Move!MigrationSpec

\* The inductive invariant of the plan holds in every reachable state.
THEOREM PlanInvariance == Plan!PlanSpec => []PlanInv
<1>1. Plan!PlanInit => PlanInv
  BY PlanStart, ServerAssumption DEF PlanAsm
<1>2. ASSUME PlanInv, [Plan!PlanNext]_Plan!assignVars PROVE PlanInv'
  <2>1. PlanAsm
    BY ServerAssumption DEF PlanAsm
  <2> QED BY <1>2, <2>1, PlanInvStep
<1> QED BY <1>1, <1>2, PTL DEF Plan!PlanSpec

\* Every row the plan has read is in one user's store or in one quarantine, and a
\* duplicate yields to a row of its user that is no older.
THEOREM RowsGoOnce == Plan!PlanSpec => []Plan!EachRowOnce
<1>1. PlanInv => Plan!EachRowOnce
  BY PlacedOnce, ServerAssumption DEF PlanAsm
<1> QED BY <1>1, PlanInvariance, PTL

\* No row of an address two users claim, no file under two users' rules and no
\* record of another's file is given to anyone, and no file twice.
THEOREM NobodyGetsTheirs == Plan!PlanSpec => []Plan!NobodyGetsAnothers
<1>1. PlanInv => Plan!NobodyGetsAnothers
  BY PlanSafe, ServerAssumption DEF PlanAsm
<1> QED BY <1>1, PlanInvariance, PTL

=============================================================================
