----------------------------- MODULE ServerProofs -----------------------------
(* What holds of a server process and its data root, for any number of users,     *)
(* requests, processes and services: the start of processes (Startup), users'     *)
(* data keys (UserKeys) and tool calls (ToolCall), each with its inductive        *)
(* invariant, and Server, which is one of these or the migration at a time.       *)
EXTENDS MigrationProofs

-----------------------------------------------------------------------------
(* Startup: the invariants                                                     *)

BootAsm == Boot!BootAssumption

Upto(k) == {Services[i] : i \in 1 .. k}
IsServer(p) == KindOf[p] \in {"http", "stdio"}

\* What a process remembers are services.
BootTypes ==
  /\ Boot!BootTypeOK
  /\ ready \in [Starters -> SUBSET Upto(Boot!N)] /\ failed \in [Starters -> SUBSET Upto(Boot!N)]
  /\ closed \in [Starters -> SUBSET Upto(Boot!N)]

\* Which kind of process gets where.
BootKinds ==
  \A p \in Starters :
    /\ bootPc[p] = "check" => KindOf[p] # "cli"
    /\ bootPc[p] \in {"start", "stop", "pool"} => IsServer(p)
    /\ bootPc[p] = "serve" => IsServer(p) \/ KindOf[p] = "gateway"

\* The services are started in their order, each once, and closed in the opposite one.
BootOrder ==
  \A p \in Starters :
    /\ bootPc[p] \in {"check", "look", "create", "write", "read", "prepare"} =>
         at[p] = 1 /\ ready[p] = {} /\ failed[p] = {}
    /\ bootPc[p] = "start" => at[p] \in 1 .. Boot!N + 1 /\ ready[p] \cup failed[p] = Upto(at[p] - 1)
    /\ bootPc[p] \in {"serve", "stop", "pool", "done"} /\ IsServer(p) =>
         ready[p] \cup failed[p] = Upto(Boot!N)
    /\ bootPc[p] = "stop" =>
         at[p] \in 0 .. Boot!N /\ \A i \in 1 .. Boot!N : i > at[p] => Services[i] \in closed[p]
    /\ bootPc[p] \in {"pool", "done"} /\ IsServer(p) => Upto(Boot!N) \subseteq closed[p]

\* A process in multi-user mode past the look at its environment has none of the flaws.
Looked == {"look", "create", "write", "read", "prepare", "start", "serve", "stop", "pool"}
BootChecked ==
  \A p \in Starters : Boot!Multi(p) =>
    /\ bootPc[p] \in Looked \cup {"check"} => "root" \notin env[p].flaws
    /\ bootPc[p] \in Looked /\ KindOf[p] # "cli" => Boot!Problems(p) = {}
    /\ bootPc[p] \in {"prepare", "start", "serve", "stop", "pool"} => bootId[p] # Boot!NoId
    /\ ready[p] \cap Legacy = {}

\* The marker is not written while one process writes it, and nobody goes by it yet.
MarkerWriter ==
  \A p \in Starters : bootPc[p] = "write" =>
    marker = Boot!Partial /\ \A q \in Starters : bootPc[q] = "write" => q = p

BootInv == BootTypes /\ BootKinds /\ BootOrder /\ BootChecked /\ MarkerWriter /\ Boot!OneDeployment

-----------------------------------------------------------------------------
(* Startup: the steps                                                          *)

\* The steps of a process.
OfStarter(p) ==
  \/ Boot!Boot(p) \/ Boot!ValidateStartup(p) \/ Boot!LookForMarker(p) \/ Boot!CreateMarker(p)
  \/ Boot!WriteMarker(p) \/ Boot!ReadMarker(p) \/ Boot!Prepare(p) \/ Boot!StartService(p)
  \/ Boot!Started(p) \/ Boot!StopServing(p) \/ Boot!CloseService(p) \/ Boot!ClosePool(p)
  \/ Boot!Crash(p)

\* A step is a process's, or the migration tool's.
LEMMA BootNextIsOne ==
  [Boot!BootNext]_Boot!bootVars =>
    (\E p \in Starters : OfStarter(p)) \/ Boot!FreezeLegacy \/ UNCHANGED Boot!bootVars
  BY Zenon DEF Boot!BootNext, OfStarter

\* What the assumptions say of the services and the environments.
LEMMA BootFacts ==
  ASSUME BootAsm
  PROVE  /\ \A p \in Starters : KindOf[p] \in {"http", "stdio", "gateway", "cli"}
         /\ Boot!N \in Nat /\ MaxIds \in Nat /\ Boot!ToSet(Services) = Upto(Boot!N)
         /\ \A k \in 1 .. Boot!N : /\ Services[k] \in Upto(Boot!N) /\ Services[k] \notin Upto(k - 1)
                                   /\ Upto(k) = Upto(k - 1) \cup {Services[k]}
         /\ Upto(0) = {}
         /\ (CHOOSE e \in Environments : TRUE) \in Environments
         /\ \A e \in Environments : e.mode \in {"single", "multi", "bad"} /\ e.flaws \subseteq Boot!EnvFlaws
<1> USE DEF BootAsm, Boot!BootAssumption
<1>1. Boot!N \in Nat /\ DOMAIN Services = 1 .. Boot!N
  BY DEF Boot!N
<1>2. Boot!ToSet(Services) = Upto(Boot!N)
  BY <1>1 DEF Boot!ToSet, Upto
<1>3. ASSUME NEW k \in 1 .. Boot!N
      PROVE  /\ Services[k] \in Upto(Boot!N) /\ Services[k] \notin Upto(k - 1)
             /\ Upto(k) = Upto(k - 1) \cup {Services[k]}
  <2>1. Services[k] \in Upto(Boot!N)
    BY DEF Upto
  <2>2. Services[k] \notin Upto(k - 1)
    BY <1>1 DEF Upto
  <2>3. 1 .. k = (1 .. (k - 1)) \cup {k}
    BY <1>1
  <2> QED BY <2>1, <2>2, <2>3 DEF Upto
<1>4. Upto(0) = {}
  BY DEF Upto
<1>5. (CHOOSE e \in Environments : TRUE) \in Environments
  OBVIOUS
<1>6. \A e \in Environments : e.mode \in {"single", "multi", "bad"} /\ e.flaws \subseteq Boot!EnvFlaws
  OBVIOUS
<1>7. \A p \in Starters : KindOf[p] \in {"http", "stdio", "gateway", "cli"}
  OBVIOUS
<1> QED BY <1>1, <1>2, <1>3, <1>4, <1>5, <1>6, <1>7

\* Every step keeps the types.
LEMMA BootTypeStep ==
  ASSUME BootAsm, BootTypes, BootOrder, [Boot!BootNext]_Boot!bootVars
  PROVE  BootTypes'
<1> USE DEF BootTypes, BootOrder, Boot!BootTypeOK, Boot!BootPcs, Boot!NoId, Boot!Absent, Boot!Partial, Boot!Foreign, Boot!IsId, Boot!Goto, Boot!Disk, Boot!Lifecycle
<1>1. ASSUME NEW p \in Starters, OfStarter(p) PROVE BootTypes'
  <2>1. CASE Boot!Boot(p)
    BY <2>1, BootFacts, SMTT(30) DEF Boot!Boot, Boot!Blank
  <2>2. CASE Boot!ValidateStartup(p)
    BY <2>2, SMTT(30) DEF Boot!ValidateStartup
  <2>3. CASE Boot!LookForMarker(p)
    BY <2>3, SMTT(30) DEF Boot!LookForMarker
  <2>4. CASE Boot!CreateMarker(p)
    BY <2>4, BootFacts, SMTT(30) DEF Boot!CreateMarker
  <2>5. CASE Boot!WriteMarker(p)
    BY <2>5, BootFacts, SMTT(30) DEF Boot!WriteMarker
  <2>6. CASE Boot!ReadMarker(p)
    BY <2>6, SMTT(30) DEF Boot!ReadMarker
  <2>7. CASE Boot!Prepare(p)
    BY <2>7, SMTT(30) DEF Boot!Prepare
  <2>8. CASE Boot!StartService(p)
    BY <2>8, BootFacts, SMTT(30) DEF Boot!StartService
  <2>9. CASE Boot!Started(p)
    BY <2>9, SMTT(30) DEF Boot!Started
  <2>10. CASE Boot!StopServing(p)
    BY <2>10, BootFacts, SMTT(30) DEF Boot!StopServing
  <2>11. CASE Boot!CloseService(p)
    BY <2>11, BootFacts, SMTT(30) DEF Boot!CloseService, Boot!Multi
  <2>12. CASE Boot!ClosePool(p)
    BY <2>12, SMTT(30) DEF Boot!ClosePool
  <2>13. CASE Boot!Crash(p)
    BY <2>13, BootFacts, SMTT(30) DEF Boot!Crash, Boot!Blank
  <2> QED BY <1>1, <2>1, <2>2, <2>3, <2>4, <2>5, <2>6, <2>7, <2>8, <2>9, <2>10, <2>11, <2>12, <2>13 DEF OfStarter
<1>2. CASE Boot!FreezeLegacy
  BY <1>2, SMTT(30) DEF Boot!FreezeLegacy
<1>3. CASE UNCHANGED Boot!bootVars
  BY <1>3, SMTT(30) DEF Boot!bootVars
<1> QED BY <1>1, <1>2, <1>3, BootNextIsOne

\* Every step leaves each kind of process where it belongs.
LEMMA BootKindStep ==
  ASSUME BootAsm, BootTypes, BootKinds, [Boot!BootNext]_Boot!bootVars
  PROVE  BootKinds'
<1> USE DEF BootTypes, BootKinds, Boot!BootTypeOK, IsServer, Boot!Goto, Boot!Disk, Boot!Lifecycle
<1>1. ASSUME NEW p \in Starters, OfStarter(p) PROVE BootKinds'
  <2>1. CASE Boot!Boot(p)
    BY <2>1, BootFacts, SMTT(30) DEF Boot!Boot, Boot!Blank
  <2>2. CASE Boot!ValidateStartup(p)
    BY <2>2, SMTT(30) DEF Boot!ValidateStartup
  <2>3. CASE Boot!LookForMarker(p)
    BY <2>3, SMTT(30) DEF Boot!LookForMarker
  <2>4. CASE Boot!CreateMarker(p)
    BY <2>4, SMTT(30) DEF Boot!CreateMarker
  <2>5. CASE Boot!WriteMarker(p)
    BY <2>5, SMTT(30) DEF Boot!WriteMarker
  <2>6. CASE Boot!ReadMarker(p)
    BY <2>6, SMTT(30) DEF Boot!ReadMarker
  <2>7. CASE Boot!Prepare(p)
    BY <2>7, BootFacts, SMTT(30) DEF Boot!Prepare
  <2>8. CASE Boot!StartService(p)
    BY <2>8, SMTT(30) DEF Boot!StartService
  <2>9. CASE Boot!Started(p)
    BY <2>9, SMTT(30) DEF Boot!Started
  <2>10. CASE Boot!StopServing(p)
    BY <2>10, SMTT(30) DEF Boot!StopServing
  <2>11. CASE Boot!CloseService(p)
    BY <2>11, SMTT(30) DEF Boot!CloseService, Boot!Multi
  <2>12. CASE Boot!ClosePool(p)
    BY <2>12, SMTT(30) DEF Boot!ClosePool
  <2>13. CASE Boot!Crash(p)
    BY <2>13, SMTT(30) DEF Boot!Crash, Boot!Blank
  <2> QED BY <1>1, <2>1, <2>2, <2>3, <2>4, <2>5, <2>6, <2>7, <2>8, <2>9, <2>10, <2>11, <2>12, <2>13 DEF OfStarter
<1>2. CASE Boot!FreezeLegacy
  BY <1>2, SMTT(30) DEF Boot!FreezeLegacy
<1>3. CASE UNCHANGED Boot!bootVars
  BY <1>3, SMTT(30) DEF Boot!bootVars
<1> QED BY <1>1, <1>2, <1>3, BootNextIsOne

\* Every step keeps to the order of the services.
LEMMA BootOrderStep ==
  ASSUME BootAsm, BootTypes, BootKinds, BootOrder, [Boot!BootNext]_Boot!bootVars
  PROVE  BootOrder'
<1> USE DEF BootTypes, BootKinds, BootOrder, Boot!BootTypeOK, IsServer, Boot!Goto, Boot!Disk, Boot!Lifecycle
<1>1. ASSUME NEW p \in Starters, OfStarter(p) PROVE BootOrder'
  <2>1. CASE Boot!Boot(p)
    BY <2>1, BootFacts, SMTT(30) DEF Boot!Boot, Boot!Blank
  <2>2. CASE Boot!ValidateStartup(p)
    BY <2>2, SMTT(30) DEF Boot!ValidateStartup
  <2>3. CASE Boot!LookForMarker(p)
    BY <2>3, SMTT(30) DEF Boot!LookForMarker
  <2>4. CASE Boot!CreateMarker(p)
    BY <2>4, SMTT(30) DEF Boot!CreateMarker
  <2>5. CASE Boot!WriteMarker(p)
    BY <2>5, SMTT(30) DEF Boot!WriteMarker
  <2>6. CASE Boot!ReadMarker(p)
    BY <2>6, SMTT(30) DEF Boot!ReadMarker
  <2>7. CASE Boot!Prepare(p)
    BY <2>7, BootFacts, SMTT(30) DEF Boot!Prepare
  <2>8. CASE Boot!StartService(p)
    BY <2>8, BootFacts, SMTT(30) DEF Boot!StartService
  <2>9. CASE Boot!Started(p)
    BY <2>9, BootFacts, SMTT(30) DEF Boot!Started
  <2>10. CASE Boot!StopServing(p)
    BY <2>10, BootFacts, SMTT(30) DEF Boot!StopServing
  <2>11. CASE Boot!CloseService(p)
    <3>1. bootPc[p] = "stop" /\ IsServer(p) /\ UNCHANGED <<ready, failed>>
      BY <2>11 DEF Boot!CloseService
    <3>2. CASE at[p] = 0
      <4>1. Upto(Boot!N) \subseteq closed[p]
        BY <3>1, <3>2, BootFacts DEF Upto
      <4>2. /\ bootPc' = [bootPc EXCEPT ![p] = bootPc'[p]] /\ bootPc'[p] \in {"pool", "done"}
            /\ UNCHANGED <<closed, at>>
        BY <2>11, <3>2, SMTT(30) DEF Boot!CloseService
      <4> QED BY <3>1, <4>1, <4>2, SMTT(30)
    <3>3. CASE at[p] # 0
      <4>1. /\ at' = [at EXCEPT ![p] = @ - 1] /\ UNCHANGED bootPc
            /\ closed' = [closed EXCEPT ![p] = @ \cup {Services[at[p]]}]
        BY <2>11, <3>3 DEF Boot!CloseService
      <4>2. at[p] \in 1 .. Boot!N /\ at'[p] = at[p] - 1 /\ closed'[p] = closed[p] \cup {Services[at[p]]}
        BY <3>1, <3>3, <4>1, BootFacts, SMTT(30)
      <4>3. \A i \in 1 .. Boot!N : i > at'[p] => Services[i] \in closed'[p]
        <5> SUFFICES ASSUME NEW i \in 1 .. Boot!N, i > at'[p] PROVE Services[i] \in closed'[p]
          OBVIOUS
        <5>1. CASE i = at[p]
          BY <4>2, <5>1
        <5>2. CASE i # at[p]
          <6>1. i > at[p] /\ closed[p] \subseteq closed'[p]
            <7>1. at[p] \in Nat /\ i \in Nat /\ i > at[p] - 1
              BY <4>2, BootFacts
            <7>2. i > at[p]
              BY <5>2, <7>1
            <7> QED BY <4>2, <7>2
          <6>2. Services[i] \in closed[p]
            BY <3>1, <6>1
          <6> QED BY <6>1, <6>2
        <5> QED BY <5>1, <5>2
      <4>4. \A q \in Starters \ {p} : closed'[q] = closed[q] /\ at'[q] = at[q]
        BY <4>1
      <4>5. at'[p] \in 0 .. Boot!N
        BY <4>2, BootFacts
      <4>6. bootPc' = bootPc
        BY <4>1
      <4> QED BY <3>1, <4>3, <4>4, <4>5, <4>6, ZenonT(60)
    <3> QED BY <3>2, <3>3
  <2>12. CASE Boot!ClosePool(p)
    BY <2>12, SMTT(30) DEF Boot!ClosePool
  <2>13. CASE Boot!Crash(p)
    BY <2>13, SMTT(30) DEF Boot!Crash, Boot!Blank
  <2> QED BY <1>1, <2>1, <2>2, <2>3, <2>4, <2>5, <2>6, <2>7, <2>8, <2>9, <2>10, <2>11, <2>12, <2>13 DEF OfStarter
<1>2. CASE Boot!FreezeLegacy
  BY <1>2, SMTT(30) DEF Boot!FreezeLegacy
<1>3. CASE UNCHANGED Boot!bootVars
  BY <1>3, SMTT(30) DEF Boot!bootVars
<1> QED BY <1>1, <1>2, <1>3, BootNextIsOne

\* Every step leaves what the checks found true.
LEMMA BootCheckStep ==
  ASSUME BootAsm, BootTypes, BootKinds, BootChecked, [Boot!BootNext]_Boot!bootVars
  PROVE  BootChecked'
<1> USE DEF BootTypes, BootKinds, BootChecked, Boot!BootTypeOK, IsServer, Looked, Boot!Multi, Boot!Problems, Boot!MayOpen, Boot!NoId, Boot!IsId, Boot!Goto, Boot!Disk, Boot!Lifecycle
<1>1. ASSUME NEW p \in Starters, OfStarter(p) PROVE BootChecked'
  <2>1. CASE Boot!Boot(p)
    BY <2>1, SMTT(30) DEF Boot!Boot, Boot!Blank
  <2>2. CASE Boot!ValidateStartup(p)
    BY <2>2, BootFacts, SMTT(30) DEF Boot!ValidateStartup
  <2>3. CASE Boot!LookForMarker(p)
    BY <2>3, SMTT(30) DEF Boot!LookForMarker
  <2>4. CASE Boot!CreateMarker(p)
    BY <2>4, SMTT(30) DEF Boot!CreateMarker
  <2>5. CASE Boot!WriteMarker(p)
    BY <2>5, SMTT(30) DEF Boot!WriteMarker
  <2>6. CASE Boot!ReadMarker(p)
    BY <2>6, SMTT(30) DEF Boot!ReadMarker
  <2>7. CASE Boot!Prepare(p)
    BY <2>7, SMTT(30) DEF Boot!Prepare
  <2>8. CASE Boot!StartService(p)
    BY <2>8, SMTT(30) DEF Boot!StartService
  <2>9. CASE Boot!Started(p)
    BY <2>9, SMTT(30) DEF Boot!Started
  <2>10. CASE Boot!StopServing(p)
    BY <2>10, SMTT(30) DEF Boot!StopServing
  <2>11. CASE Boot!CloseService(p)
    BY <2>11, SMTT(30) DEF Boot!CloseService, Boot!Multi
  <2>12. CASE Boot!ClosePool(p)
    BY <2>12, SMTT(30) DEF Boot!ClosePool
  <2>13. CASE Boot!Crash(p)
    BY <2>13, SMTT(30) DEF Boot!Crash, Boot!Blank
  <2> QED BY <1>1, <2>1, <2>2, <2>3, <2>4, <2>5, <2>6, <2>7, <2>8, <2>9, <2>10, <2>11, <2>12, <2>13 DEF OfStarter
<1>2. CASE Boot!FreezeLegacy
  BY <1>2, SMTT(30) DEF Boot!FreezeLegacy
<1>3. CASE UNCHANGED Boot!bootVars
  BY <1>3, SMTT(30) DEF Boot!bootVars
<1> QED BY <1>1, <1>2, <1>3, BootNextIsOne

\* Every step leaves a marker that is being written to its writer.
LEMMA MarkerStep ==
  ASSUME BootAsm, BootTypes, MarkerWriter, [Boot!BootNext]_Boot!bootVars
  PROVE  MarkerWriter'
<1> USE DEF BootTypes, MarkerWriter, Boot!BootTypeOK, Boot!Absent, Boot!Partial, Boot!Goto, Boot!Disk, Boot!Lifecycle
<1>1. ASSUME NEW p \in Starters, OfStarter(p) PROVE MarkerWriter'
  <2>1. CASE Boot!Boot(p)
    BY <2>1, SMTT(30) DEF Boot!Boot, Boot!Blank
  <2>2. CASE Boot!ValidateStartup(p)
    BY <2>2, SMTT(30) DEF Boot!ValidateStartup
  <2>3. CASE Boot!LookForMarker(p)
    BY <2>3, SMTT(30) DEF Boot!LookForMarker
  <2>4. CASE Boot!CreateMarker(p)
    BY <2>4, SMTT(30) DEF Boot!CreateMarker
  <2>5. CASE Boot!WriteMarker(p)
    BY <2>5, SMTT(30) DEF Boot!WriteMarker
  <2>6. CASE Boot!ReadMarker(p)
    BY <2>6, SMTT(30) DEF Boot!ReadMarker
  <2>7. CASE Boot!Prepare(p)
    BY <2>7, SMTT(30) DEF Boot!Prepare
  <2>8. CASE Boot!StartService(p)
    BY <2>8, SMTT(30) DEF Boot!StartService
  <2>9. CASE Boot!Started(p)
    BY <2>9, SMTT(30) DEF Boot!Started
  <2>10. CASE Boot!StopServing(p)
    BY <2>10, SMTT(30) DEF Boot!StopServing
  <2>11. CASE Boot!CloseService(p)
    BY <2>11, SMTT(30) DEF Boot!CloseService, Boot!Multi
  <2>12. CASE Boot!ClosePool(p)
    BY <2>12, SMTT(30) DEF Boot!ClosePool
  <2>13. CASE Boot!Crash(p)
    BY <2>13, SMTT(30) DEF Boot!Crash, Boot!Blank
  <2> QED BY <1>1, <2>1, <2>2, <2>3, <2>4, <2>5, <2>6, <2>7, <2>8, <2>9, <2>10, <2>11, <2>12, <2>13 DEF OfStarter
<1>2. CASE Boot!FreezeLegacy
  BY <1>2, SMTT(30) DEF Boot!FreezeLegacy
<1>3. CASE UNCHANGED Boot!bootVars
  BY <1>3, SMTT(30) DEF Boot!bootVars
<1> QED BY <1>1, <1>2, <1>3, BootNextIsOne

\* Every step leaves the marker that processes go by.
LEMMA DeploymentStep ==
  ASSUME BootAsm, BootTypes, MarkerWriter, Boot!OneDeployment, [Boot!BootNext]_Boot!bootVars
  PROVE  Boot!OneDeployment'
<1> USE DEF BootTypes, MarkerWriter, Boot!OneDeployment, Boot!BootTypeOK, Boot!NoId, Boot!Absent, Boot!Partial, Boot!IsId, Boot!Goto, Boot!Disk, Boot!Lifecycle
<1>1. ASSUME NEW p \in Starters, OfStarter(p) PROVE Boot!OneDeployment'
  <2>1. CASE Boot!Boot(p)
    BY <2>1, SMTT(30) DEF Boot!Boot, Boot!Blank
  <2>2. CASE Boot!ValidateStartup(p)
    BY <2>2, SMTT(30) DEF Boot!ValidateStartup
  <2>3. CASE Boot!LookForMarker(p)
    BY <2>3, SMTT(30) DEF Boot!LookForMarker
  <2>4. CASE Boot!CreateMarker(p)
    BY <2>4, SMTT(30) DEF Boot!CreateMarker
  <2>5. CASE Boot!WriteMarker(p)
    BY <2>5, SMTT(30) DEF Boot!WriteMarker
  <2>6. CASE Boot!ReadMarker(p)
    BY <2>6, SMTT(30) DEF Boot!ReadMarker
  <2>7. CASE Boot!Prepare(p)
    BY <2>7, SMTT(30) DEF Boot!Prepare
  <2>8. CASE Boot!StartService(p)
    BY <2>8, SMTT(30) DEF Boot!StartService
  <2>9. CASE Boot!Started(p)
    BY <2>9, SMTT(30) DEF Boot!Started
  <2>10. CASE Boot!StopServing(p)
    BY <2>10, SMTT(30) DEF Boot!StopServing
  <2>11. CASE Boot!CloseService(p)
    BY <2>11, SMTT(30) DEF Boot!CloseService, Boot!Multi
  <2>12. CASE Boot!ClosePool(p)
    BY <2>12, SMTT(30) DEF Boot!ClosePool
  <2>13. CASE Boot!Crash(p)
    BY <2>13, SMTT(30) DEF Boot!Crash, Boot!Blank
  <2> QED BY <1>1, <2>1, <2>2, <2>3, <2>4, <2>5, <2>6, <2>7, <2>8, <2>9, <2>10, <2>11, <2>12, <2>13 DEF OfStarter
<1>2. CASE Boot!FreezeLegacy
  BY <1>2, SMTT(30) DEF Boot!FreezeLegacy
<1>3. CASE UNCHANGED Boot!bootVars
  BY <1>3, SMTT(30) DEF Boot!bootVars
<1> QED BY <1>1, <1>2, <1>3, BootNextIsOne

\* Processes that have not started satisfy the invariant.
LEMMA BootStart == ASSUME BootAsm, Boot!BootInit PROVE BootInv
<1> USE DEF Boot!BootInit
<1>1. BootTypes
  BY BootFacts, SMTT(30) DEF BootTypes, Boot!BootTypeOK, BootAsm, Boot!BootAssumption, Boot!BootPcs,
       Boot!NoId, Boot!Absent, Boot!Foreign
<1>2. BootKinds /\ BootOrder /\ MarkerWriter /\ Boot!OneDeployment
  BY DEF BootKinds, BootOrder, IsServer, MarkerWriter, Boot!OneDeployment
<1>3. BootChecked
  BY DEF BootChecked, Looked
<1> QED BY <1>1, <1>2, <1>3 DEF BootInv

\* Every step keeps the invariant.
LEMMA BootInvStep == ASSUME BootAsm, BootInv, [Boot!BootNext]_Boot!bootVars PROVE BootInv'
<1>1. BootTypes /\ BootKinds /\ BootOrder /\ BootChecked /\ MarkerWriter /\ Boot!OneDeployment
  BY DEF BootInv
<1>2. BootTypes' /\ BootKinds' /\ BootOrder'
  BY <1>1, BootTypeStep, BootKindStep, BootOrderStep
<1>3. BootChecked' /\ MarkerWriter' /\ Boot!OneDeployment'
  BY <1>1, BootCheckStep, MarkerStep, DeploymentStep
<1> QED BY <1>2, <1>3 DEF BootInv

\* The invariant implies what the run checks.
LEMMA BootSafe == ASSUME BootAsm, BootInv PROVE Boot!ServesOnlySafely /\ Boot!HealthIsTrue
<1>1. Boot!ServesOnlySafely
  <2> SUFFICES ASSUME NEW p \in Starters, bootPc[p] \in {"start", "serve", "stop", "pool"}, Boot!Multi(p)
               PROVE  /\ KindOf[p] # "stdio" /\ bootId[p] # Boot!NoId
                      /\ env[p].flaws \cap {"root", "conflict", "validation", "settings", "kek"} = {}
                      /\ ready[p] \cap Legacy = {}
    BY DEF Boot!ServesOnlySafely
  <2>1. KindOf[p] # "cli"
    BY DEF BootInv, BootKinds, IsServer
  <2>2. "root" \notin env[p].flaws /\ Boot!Problems(p) = {} /\ bootId[p] # Boot!NoId /\ ready[p] \cap Legacy = {}
    BY <2>1 DEF BootInv, BootChecked, Looked
  <2> QED BY <2>2 DEF Boot!Problems
<1>2. Boot!HealthIsTrue
  <2> SUFFICES ASSUME NEW p \in Starters, IsServer(p)
               PROVE  /\ Boot!Health(p) => ready[p] = Boot!ToSet(Services)
                      /\ bootPc[p] = "done" => ready[p] \subseteq closed[p]
    BY DEF Boot!HealthIsTrue, IsServer
  <2>1. Boot!Health(p) => ready[p] = Boot!ToSet(Services)
    <3>1. bootPc[p] = "serve" => ready[p] \cup failed[p] = Upto(Boot!N)
      BY DEF BootInv, BootOrder
    <3>2. Boot!ToSet(Services) = Upto(Boot!N)
      BY BootFacts
    <3> QED BY <3>1, <3>2 DEF Boot!Health
  <2>2. bootPc[p] = "done" => ready[p] \subseteq closed[p]
    BY DEF BootInv, BootOrder
  <2> QED BY <2>1, <2>2
<1> QED BY <1>1, <1>2

\* The inductive invariant holds in every reachable state.
THEOREM BootInvariance == Boot!BootSpec => []BootInv
<1>1. Boot!BootInit => BootInv
  BY BootStart, ServerAssumption DEF BootAsm
<1>2. ASSUME BootInv, [Boot!BootNext]_Boot!bootVars PROVE BootInv'
  <2>1. BootAsm
    BY ServerAssumption DEF BootAsm
  <2> QED BY <1>2, <2>1, BootInvStep
<1> QED BY <1>1, <1>2, PTL DEF Boot!BootSpec

\* What the processes are and know has its type.
THEOREM BootTypeCorrect == Boot!BootSpec => []Boot!BootTypeOK
<1>1. BootInv => Boot!BootTypeOK
  BY DEF BootInv, BootTypes
<1> QED BY <1>1, BootInvariance, PTL

\* However many processes start at the same moment on an empty data root, and whenever
\* they are killed, those that know a deployment id know the one on the disk.
THEOREM MarkerAgreed == Boot!BootSpec => []Boot!OneDeployment
<1>1. BootInv => Boot!OneDeployment
  BY DEF BootInv
<1> QED BY <1>1, BootInvariance, PTL

\* In multi-user mode nothing serves past a check, whatever its environment was before.
THEOREM ServesSafely == Boot!BootSpec => []Boot!ServesOnlySafely
<1>1. BootInv => Boot!ServesOnlySafely
  BY BootSafe, ServerAssumption DEF BootAsm
<1> QED BY <1>1, BootInvariance, PTL

\* A healthy server has all of its services up, one that ended has closed each of them.
THEOREM HealthTold == Boot!BootSpec => []Boot!HealthIsTrue
<1>1. BootInv => Boot!HealthIsTrue
  BY BootSafe, ServerAssumption DEF BootAsm
<1> QED BY <1>1, BootInvariance, PTL

-----------------------------------------------------------------------------
(* UserKeys: the invariants                                                    *)

KeyAsm == Keys!KeyAssumption

KeyTypes ==
  /\ Keys!KeyTypeOK
  /\ cache \in [KeyProcs -> SUBSET (KeyUsers \X Keys!Files \X Keys!Deks)]

\* A file a process could open: of the user, of this data root, under the process's KEK.
OpensFor(p, u, file) == file.owner = u /\ file.deployment = Here /\ file.kek = kek[p]

\* A cached key is the one of its file, which the process opened for the user.
CacheTrue ==
  \A p \in KeyProcs : \A e \in cache[p] : e[3] = e[2].dek /\ OpensFor(p, e[1], e[2])

\* Only registered users have records or moved files, and of those whose files nobody
\* moved, only the ones with a key have records.
KeysKept ==
  /\ touched \subseteq known
  /\ \A u \in KeyUsers : tokens[u] # NoKey =>
       u \in known /\ (wrapped[u] # NoKey \/ u \in touched)

\* Where nobody moved files, key and record are the user's own and a pair.
OwnPair ==
  \A u \in KeyUsers \ touched :
    /\ wrapped[u] # NoKey => wrapped[u].owner = u /\ wrapped[u].deployment = Here
    /\ tokens[u] # NoKey => tokens[u].record.dek = wrapped[u].dek /\ tokens[u].record.owner = u
                            /\ tokens[u].record.deployment = Here
                            /\ tokens[u].record.version = tokens[u].version

KeyInv == KeyTypes /\ CacheTrue /\ KeysKept /\ OwnPair /\ Keys!OpensWhereItBelongs

-----------------------------------------------------------------------------
(* UserKeys: the steps                                                         *)

\* The cache never answers otherwise than the file would.
LEMMA LoadDekIs ==
  ASSUME KeyAsm, KeyTypes, CacheTrue, NEW p \in KeyProcs, NEW u \in KeyUsers
  PROVE  Keys!LoadDek(p, u) = IF wrapped[u] # NoKey /\ OpensFor(p, u, wrapped[u])
                              THEN wrapped[u].dek ELSE NoKey
<1>1. CASE wrapped[u] = NoKey
  BY <1>1 DEF Keys!LoadDek
<1>2. CASE wrapped[u] # NoKey /\ Keys!Cached(p, u) = {}
  BY <1>2 DEF Keys!LoadDek, Keys!Unwrap, OpensFor
<1>3. CASE wrapped[u] # NoKey /\ Keys!Cached(p, u) # {}
  <2> DEFINE e == CHOOSE x \in Keys!Cached(p, u) : TRUE
  <2>1. e \in cache[p] /\ e[1] = u /\ e[2] = wrapped[u]
    BY <1>3 DEF Keys!Cached
  <2>2. e[3] = wrapped[u].dek /\ OpensFor(p, u, wrapped[u])
    BY <2>1 DEF CacheTrue
  <2> QED BY <1>3, <2>2 DEF Keys!LoadDek
<1> QED BY <1>1, <1>2, <1>3

\* What a step caches is the key of the file as the process opened it.
LEMMA RememberKeeps ==
  ASSUME KeyTypes, CacheTrue, NEW p \in KeyProcs, NEW u \in KeyUsers, NEW dek,
         Keys!Remember(p, u, dek), kek' = kek,
         dek = NoKey \/ (/\ wrapped'[u] \in Keys!Files /\ OpensFor(p, u, wrapped'[u])
                         /\ dek = wrapped'[u].dek)
  PROVE  cache' \in [KeyProcs -> SUBSET (KeyUsers \X Keys!Files \X Keys!Deks)] /\ CacheTrue'
<1>1. CASE dek = NoKey
  BY <1>1 DEF Keys!Remember, KeyTypes, CacheTrue, OpensFor
<1>2. CASE dek # NoKey
  <2> DEFINE entry == <<u, wrapped'[u], dek>>
  <2>1. PICK kept \in SUBSET cache[p] : cache' = [cache EXCEPT ![p] = kept \cup {entry}]
    BY <1>2 DEF Keys!Remember
  <2>2. entry \in KeyUsers \X Keys!Files \X Keys!Deks
    BY <1>2 DEF Keys!Files
  <2>3. cache' \in [KeyProcs -> SUBSET (KeyUsers \X Keys!Files \X Keys!Deks)]
    BY <2>1, <2>2 DEF KeyTypes
  <2>4. CacheTrue'
    BY <1>2, <2>1 DEF KeyTypes, CacheTrue, OpensFor
  <2> QED BY <2>3, <2>4
<1> QED BY <1>1, <1>2

\* The steps that look into the key file: what they load, and what they cache.
LEMMA KeyLoads ==
  ASSUME KeyAsm, KeyTypes, CacheTrue, NEW p \in KeyProcs, NEW u \in KeyUsers,
         wrapped' = wrapped, kek' = kek, Keys!Remember(p, u, Keys!LoadDek(p, u))
  PROVE  cache' \in [KeyProcs -> SUBSET (KeyUsers \X Keys!Files \X Keys!Deks)] /\ CacheTrue'
<1>1. wrapped[u] # NoKey => wrapped[u] \in Keys!Files
  BY DEF KeyTypes, Keys!KeyTypeOK
<1>2. Keys!LoadDek(p, u) = NoKey \/ (/\ wrapped'[u] \in Keys!Files /\ OpensFor(p, u, wrapped'[u])
                                     /\ Keys!LoadDek(p, u) = wrapped'[u].dek)
  BY <1>1, LoadDekIs
<1> QED BY <1>2, RememberKeeps

\* What was loaded is a data key.
LEMMA LoadDekTyped ==
  ASSUME KeyAsm, KeyTypes, CacheTrue, NEW p \in KeyProcs, NEW u \in KeyUsers
  PROVE  Keys!LoadDek(p, u) \in Keys!Deks \cup {NoKey}
  BY LoadDekIs DEF KeyTypes, Keys!KeyTypeOK, Keys!Files

\* A key is made for the user who registers, or the one that is there is loaded.
DekMade(p, u) ==
  /\ wrapped[u] = NoKey /\ made' = made + 1 /\ made < MaxDeks
  /\ wrapped' = [wrapped EXCEPT ![u] = [owner |-> u, deployment |-> Here,
                                        kek |-> kek[p], dek |-> made + 1]]
  /\ wrapped'[u] \in Keys!Files
  /\ creating' = [creating EXCEPT ![p].pc = "insert"]
DekLoaded(p, u) ==
  /\ wrapped[u] # NoKey /\ UNCHANGED <<made, wrapped>>
  /\ \/ creating' = [creating EXCEPT ![p] = NoKey]
     \/ creating' = [creating EXCEPT ![p].pc = "insert"]
Creates(p, u) ==
  /\ creating[p] # NoKey /\ u = creating[p].user /\ u \in KeyUsers
  /\ cache' \in [KeyProcs -> SUBSET (KeyUsers \X Keys!Files \X Keys!Deks)]
  /\ DekMade(p, u) \/ DekLoaded(p, u)
  /\ UNCHANGED <<kek, tokens, known, touched>> /\ Keys!NoRead

\* A new key is wrapped for its user, here, and cached as that.
LEMMA KeyMade ==
  ASSUME KeyAsm, KeyTypes, CacheTrue, NEW p \in KeyProcs, Keys!CreateDek(p)
  PROVE  Creates(p, creating[p].user) /\ CacheTrue'
<1> DEFINE u == creating[p].user
<1>1. creating[p] # NoKey /\ u \in KeyUsers
  BY DEF Keys!CreateDek, KeyTypes, Keys!KeyTypeOK
<1>2. UNCHANGED <<kek, tokens, known, touched>> /\ Keys!NoRead
  BY DEF Keys!CreateDek
<1>3. CASE /\ wrapped[u] = NoKey /\ made < MaxDeks /\ made' = made + 1
           /\ wrapped' = [wrapped EXCEPT ![u] = [owner |-> u, deployment |-> Here,
                                                 kek |-> kek[p], dek |-> made + 1]]
           /\ Keys!Remember(p, u, made + 1)
           /\ creating' = [creating EXCEPT ![p].pc = "insert"]
  <2>1. wrapped'[u] = [owner |-> u, deployment |-> Here, kek |-> kek[p], dek |-> made + 1]
    BY <1>1, <1>3 DEF KeyTypes, Keys!KeyTypeOK
  <2>2. wrapped'[u] \in Keys!Files
    BY <1>1, <1>3, <2>1 DEF KeyAsm, Keys!KeyAssumption, KeyTypes, Keys!KeyTypeOK, Keys!Files, Keys!Deks
  <2>3. OpensFor(p, u, wrapped'[u]) /\ wrapped'[u].dek = made + 1
    BY <2>1 DEF OpensFor
  <2>4. cache' \in [KeyProcs -> SUBSET (KeyUsers \X Keys!Files \X Keys!Deks)] /\ CacheTrue'
    BY <1>1, <1>2, <1>3, <2>2, <2>3, RememberKeeps
  <2> QED BY <1>1, <1>2, <1>3, <2>2, <2>4 DEF Creates, DekMade
<1>4. CASE /\ wrapped[u] # NoKey /\ UNCHANGED <<made, wrapped>>
           /\ creating' = [creating EXCEPT ![p] = IF Keys!LoadDek(p, u) = NoKey THEN NoKey
                                                  ELSE [@ EXCEPT !.pc = "insert"]]
           /\ Keys!Remember(p, u, Keys!LoadDek(p, u))
  <2>1. cache' \in [KeyProcs -> SUBSET (KeyUsers \X Keys!Files \X Keys!Deks)] /\ CacheTrue'
    BY <1>1, <1>2, <1>4, KeyLoads
  <2>2. \/ creating' = [creating EXCEPT ![p] = NoKey]
        \/ creating' = [creating EXCEPT ![p].pc = "insert"]
    BY <1>4
  <2> QED BY <1>1, <1>2, <1>4, <2>1, <2>2 DEF Creates, DekLoaded
<1> QED BY <1>3, <1>4 DEF Keys!CreateDek

\* Every step keeps the types.
LEMMA KeyTypeStep ==
  ASSUME KeyAsm, KeyTypes, CacheTrue, [Keys!KeyNext]_Keys!keyVars
  PROVE  KeyTypes'
<1> USE DEF KeyAsm, Keys!KeyAssumption, KeyTypes, Keys!KeyTypeOK
<1>1. ASSUME NEW p \in KeyProcs, NEW u \in KeyUsers, Keys!BeginRegister(p, u) PROVE KeyTypes'
  BY <1>1, SMTT(30) DEF Keys!BeginRegister, Keys!NoRead
<1>2. ASSUME NEW p \in KeyProcs, NEW u \in KeyUsers, Keys!SealTokens(p, u) PROVE KeyTypes'
  <2>1. Keys!LoadDek(p, u) \in Keys!Deks
    BY <1>2, LoadDekTyped DEF Keys!SealTokens
  <2>2. cache' \in [KeyProcs -> SUBSET (KeyUsers \X Keys!Files \X Keys!Deks)]
    BY <1>2, KeyLoads DEF Keys!SealTokens
  <2>3. tokens'[u] \in Keys!Rows
    BY <1>2, <2>1, SMTT(30) DEF Keys!SealTokens, Keys!Rows, Keys!Records
  <2>4. tokens' \in [KeyUsers -> Keys!Rows \cup {NoKey}]
    BY <1>2, <2>3, SMTT(30) DEF Keys!SealTokens
  <2> QED BY <1>2, <2>2, <2>4 DEF Keys!SealTokens
<1>3. ASSUME NEW p \in KeyProcs, NEW u \in KeyUsers, Keys!OpenTokens(p, u) PROVE KeyTypes'
  <2>1. cache' \in [KeyProcs -> SUBSET (KeyUsers \X Keys!Files \X Keys!Deks)]
    BY <1>3, KeyLoads DEF Keys!OpenTokens
  <2> QED BY <1>3, <2>1 DEF Keys!OpenTokens
<1>4. ASSUME NEW p \in KeyProcs, NEW u \in KeyUsers, Keys!DeleteUserKeys(p, u) PROVE KeyTypes'
  BY <1>4, SMTT(30) DEF Keys!DeleteUserKeys, Keys!NoRead
<1>5. ASSUME NEW p \in KeyProcs, Keys!CreateDek(p) PROVE KeyTypes'
  <2> DEFINE u == creating[p].user
  <2>1. Creates(p, u)
    BY <1>5, KeyMade
  <2>2. CASE DekMade(p, u)
    BY <2>1, <2>2, SMTT(30) DEF Creates, DekMade
  <2>3. CASE DekLoaded(p, u)
    BY <2>1, <2>3, SMTT(30) DEF Creates, DekLoaded
  <2> QED BY <2>1, <2>2, <2>3 DEF Creates
<1>6. ASSUME NEW p \in KeyProcs, Keys!InsertUser(p) PROVE KeyTypes'
  BY <1>6, SMTT(30) DEF Keys!InsertUser, Keys!NoRead
<1>7. ASSUME NEW p \in KeyProcs, Keys!RestartProcess(p) PROVE KeyTypes'
  BY <1>7, SMTT(30) DEF Keys!RestartProcess, Keys!NoRead
<1>8. ASSUME NEW u \in KeyUsers, Keys!Misplace(u) PROVE KeyTypes'
  <2>1. wrapped' \in [KeyUsers -> Keys!Files \cup {NoKey}]
    BY <1>8, SMTT(30) DEF Keys!Misplace, Keys!Files
  <2>2. tokens' \in [KeyUsers -> Keys!Rows \cup {NoKey}]
    BY <1>8, SMTT(30) DEF Keys!Misplace
  <2> QED BY <1>8, <2>1, <2>2 DEF Keys!Misplace
<1>9. CASE UNCHANGED Keys!keyVars
  BY <1>9, SMTT(30) DEF Keys!keyVars
<1> QED BY <1>1, <1>2, <1>3, <1>4, <1>5, <1>6, <1>7, <1>8, <1>9 DEF Keys!KeyNext

\* Every step keeps the caches true.
LEMMA CacheStep ==
  ASSUME KeyAsm, KeyTypes, CacheTrue, [Keys!KeyNext]_Keys!keyVars
  PROVE  CacheTrue'
<1> USE DEF KeyAsm, Keys!KeyAssumption, KeyTypes, Keys!KeyTypeOK, CacheTrue, OpensFor
<1>1. ASSUME NEW p \in KeyProcs, NEW u \in KeyUsers, Keys!BeginRegister(p, u) PROVE CacheTrue'
  BY <1>1, SMTT(30) DEF Keys!BeginRegister, Keys!NoRead
<1>2. ASSUME NEW p \in KeyProcs, NEW u \in KeyUsers, Keys!SealTokens(p, u) PROVE CacheTrue'
  BY <1>2, KeyLoads DEF Keys!SealTokens
<1>3. ASSUME NEW p \in KeyProcs, NEW u \in KeyUsers, Keys!OpenTokens(p, u) PROVE CacheTrue'
  BY <1>3, KeyLoads DEF Keys!OpenTokens
<1>4. ASSUME NEW p \in KeyProcs, NEW u \in KeyUsers, Keys!DeleteUserKeys(p, u) PROVE CacheTrue'
  BY <1>4, SMTT(30) DEF Keys!DeleteUserKeys, Keys!NoRead
<1>5. ASSUME NEW p \in KeyProcs, Keys!CreateDek(p) PROVE CacheTrue'
  BY <1>5, KeyMade
<1>6. ASSUME NEW p \in KeyProcs, Keys!InsertUser(p) PROVE CacheTrue'
  BY <1>6, SMTT(30) DEF Keys!InsertUser, Keys!NoRead
<1>7. ASSUME NEW p \in KeyProcs, Keys!RestartProcess(p) PROVE CacheTrue'
  BY <1>7, SMTT(30) DEF Keys!RestartProcess, Keys!NoRead
<1>8. ASSUME NEW u \in KeyUsers, Keys!Misplace(u) PROVE CacheTrue'
  BY <1>8, SMTT(30) DEF Keys!Misplace, Keys!NoRead
<1>9. CASE UNCHANGED Keys!keyVars
  BY <1>9, SMTT(30) DEF Keys!keyVars
<1> QED BY <1>1, <1>2, <1>3, <1>4, <1>5, <1>6, <1>7, <1>8, <1>9 DEF Keys!KeyNext

\* Every step leaves those who have records their keys.
LEMMA KeptStep ==
  ASSUME KeyAsm, KeyTypes, CacheTrue, KeysKept, [Keys!KeyNext]_Keys!keyVars
  PROVE  KeysKept'
<1> USE DEF KeyAsm, Keys!KeyAssumption, KeyTypes, Keys!KeyTypeOK, KeysKept
<1>1. ASSUME NEW p \in KeyProcs, NEW u \in KeyUsers, Keys!BeginRegister(p, u) PROVE KeysKept'
  BY <1>1, SMTT(30) DEF Keys!BeginRegister, Keys!NoRead
<1>2. ASSUME NEW p \in KeyProcs, NEW u \in KeyUsers, Keys!SealTokens(p, u) PROVE KeysKept'
  <2>1. wrapped[u] # NoKey
    BY <1>2 DEF Keys!SealTokens, Keys!LoadDek
  <2> QED BY <1>2, <2>1, SMTT(30) DEF Keys!SealTokens, Keys!NoRead
<1>3. ASSUME NEW p \in KeyProcs, NEW u \in KeyUsers, Keys!OpenTokens(p, u) PROVE KeysKept'
  BY <1>3, SMTT(30) DEF Keys!OpenTokens, Keys!NoRead
<1>4. ASSUME NEW p \in KeyProcs, NEW u \in KeyUsers, Keys!DeleteUserKeys(p, u) PROVE KeysKept'
  BY <1>4, SMTT(30) DEF Keys!DeleteUserKeys, Keys!NoRead
<1>5. ASSUME NEW p \in KeyProcs, Keys!CreateDek(p) PROVE KeysKept'
  <2> DEFINE u == creating[p].user
  <2>1. Creates(p, u)
    BY <1>5, KeyMade
  <2>2. CASE DekMade(p, u)
    BY <2>1, <2>2, SMTT(30) DEF Creates, DekMade
  <2>3. CASE DekLoaded(p, u)
    BY <2>1, <2>3, SMTT(30) DEF Creates, DekLoaded
  <2> QED BY <2>1, <2>2, <2>3 DEF Creates
<1>6. ASSUME NEW p \in KeyProcs, Keys!InsertUser(p) PROVE KeysKept'
  BY <1>6, SMTT(30) DEF Keys!InsertUser, Keys!NoRead
<1>7. ASSUME NEW p \in KeyProcs, Keys!RestartProcess(p) PROVE KeysKept'
  BY <1>7, SMTT(30) DEF Keys!RestartProcess, Keys!NoRead
<1>8. ASSUME NEW u \in KeyUsers, Keys!Misplace(u) PROVE KeysKept'
  <2>1. u \in known /\ UNCHANGED <<known, creating>> /\ touched' = touched \cup {u}
    BY <1>8 DEF Keys!Misplace
  <2>2. \A v \in KeyUsers \ {u} : wrapped'[v] = wrapped[v]
    BY <1>8, SMTT(30) DEF Keys!Misplace
  <2>3. \A v \in KeyUsers : tokens'[v] # NoKey => tokens[v] # NoKey \/ v = u
    BY <1>8 DEF Keys!Misplace
  <2> QED BY <2>1, <2>2, <2>3
<1>9. CASE UNCHANGED Keys!keyVars
  BY <1>9, SMTT(30) DEF Keys!keyVars
<1> QED BY <1>1, <1>2, <1>3, <1>4, <1>5, <1>6, <1>7, <1>8, <1>9 DEF Keys!KeyNext

\* Every step leaves keys and records pairs.
LEMMA PairStep ==
  ASSUME KeyAsm, KeyTypes, CacheTrue, KeysKept, OwnPair, [Keys!KeyNext]_Keys!keyVars
  PROVE  OwnPair'
<1> USE DEF KeyAsm, Keys!KeyAssumption, KeyTypes, Keys!KeyTypeOK, KeysKept, OwnPair
<1>1. ASSUME NEW p \in KeyProcs, NEW u \in KeyUsers, Keys!BeginRegister(p, u) PROVE OwnPair'
  BY <1>1, SMTT(30) DEF Keys!BeginRegister, Keys!NoRead
<1>2. ASSUME NEW p \in KeyProcs, NEW u \in KeyUsers, Keys!SealTokens(p, u) PROVE OwnPair'
  <2>1. Keys!LoadDek(p, u) = wrapped[u].dek
    BY <1>2, LoadDekIs DEF Keys!SealTokens
  <2> QED BY <1>2, <2>1, SMTT(30) DEF Keys!SealTokens
<1>3. ASSUME NEW p \in KeyProcs, NEW u \in KeyUsers, Keys!OpenTokens(p, u) PROVE OwnPair'
  BY <1>3, SMTT(30) DEF Keys!OpenTokens, Keys!NoRead
<1>4. ASSUME NEW p \in KeyProcs, NEW u \in KeyUsers, Keys!DeleteUserKeys(p, u) PROVE OwnPair'
  BY <1>4, SMTT(30) DEF Keys!DeleteUserKeys, Keys!NoRead
<1>5. ASSUME NEW p \in KeyProcs, Keys!CreateDek(p) PROVE OwnPair'
  <2> DEFINE u == creating[p].user
  <2>1. Creates(p, u)
    BY <1>5, KeyMade
  <2>2. CASE DekMade(p, u)
    BY <2>1, <2>2, SMTT(30) DEF Creates, DekMade
  <2>3. CASE DekLoaded(p, u)
    BY <2>1, <2>3, SMTT(30) DEF Creates, DekLoaded
  <2> QED BY <2>1, <2>2, <2>3 DEF Creates
<1>6. ASSUME NEW p \in KeyProcs, Keys!InsertUser(p) PROVE OwnPair'
  BY <1>6, SMTT(30) DEF Keys!InsertUser, Keys!NoRead
<1>7. ASSUME NEW p \in KeyProcs, Keys!RestartProcess(p) PROVE OwnPair'
  BY <1>7, SMTT(30) DEF Keys!RestartProcess, Keys!NoRead
<1>8. ASSUME NEW u \in KeyUsers, Keys!Misplace(u) PROVE OwnPair'
  BY <1>8, SMTT(30) DEF Keys!Misplace, Keys!NoRead
<1>9. CASE UNCHANGED Keys!keyVars
  BY <1>9, SMTT(30) DEF Keys!keyVars
<1> QED BY <1>1, <1>2, <1>3, <1>4, <1>5, <1>6, <1>7, <1>8, <1>9 DEF Keys!KeyNext

\* Every read opens what belongs to its place.
LEMMA OpenStep ==
  ASSUME KeyAsm, KeyTypes, CacheTrue, KeysKept, OwnPair, Keys!OpensWhereItBelongs, [Keys!KeyNext]_Keys!keyVars
  PROVE  Keys!OpensWhereItBelongs'
<1> USE DEF KeyAsm, Keys!KeyAssumption, Keys!OpensWhereItBelongs
<1>1. ASSUME NEW p \in KeyProcs, NEW u \in KeyUsers, Keys!BeginRegister(p, u) PROVE Keys!OpensWhereItBelongs'
  BY <1>1, SMTT(30) DEF Keys!BeginRegister, Keys!NoRead
<1>2. ASSUME NEW p \in KeyProcs, NEW u \in KeyUsers, Keys!SealTokens(p, u) PROVE Keys!OpensWhereItBelongs'
  BY <1>2, SMTT(30) DEF Keys!SealTokens, Keys!NoRead
<1>3. ASSUME NEW p \in KeyProcs, NEW u \in KeyUsers, Keys!OpenTokens(p, u) PROVE Keys!OpensWhereItBelongs'
  <2> DEFINE dek == Keys!LoadDek(p, u)
  <2>1. opened' = [user |-> u, by |-> p, done |-> dek # NoKey /\ Keys!Opens(dek, u, tokens[u]),
                   row |-> tokens[u], file |-> wrapped[u], kek |-> kek[p]]
    BY <1>3 DEF Keys!OpenTokens
  <2>2. dek = IF wrapped[u] # NoKey /\ OpensFor(p, u, wrapped[u]) THEN wrapped[u].dek ELSE NoKey
    BY LoadDekIs
  <2>3. ASSUME dek # NoKey, Keys!Opens(dek, u, tokens[u])
        PROVE  /\ tokens[u].record.owner = u /\ tokens[u].record.version = tokens[u].version
               /\ wrapped[u].deployment = Here /\ wrapped[u].owner = u
    BY <2>2, <2>3 DEF Keys!Opens, OpensFor
  <2>4. ASSUME u \in known \ touched, wrapped[u].kek = kek[p]
        PROVE  dek # NoKey /\ Keys!Opens(dek, u, tokens[u])
    <3>1. tokens[u] # NoKey
      BY <1>3 DEF Keys!OpenTokens
    <3>2. wrapped[u] # NoKey /\ OpensFor(p, u, wrapped[u])
      BY <2>4, <3>1 DEF KeysKept, OwnPair, OpensFor
    <3>3. wrapped[u].dek # NoKey
      BY <3>2 DEF KeyTypes, Keys!KeyTypeOK, Keys!Files
    <3> QED BY <2>2, <2>4, <3>1, <3>2, <3>3 DEF Keys!Opens, OwnPair
  <2>5. known' = known /\ touched' = touched
    BY <1>3 DEF Keys!OpenTokens
  <2> QED BY <2>1, <2>3, <2>4, <2>5
<1>4. ASSUME NEW p \in KeyProcs, NEW u \in KeyUsers, Keys!DeleteUserKeys(p, u) PROVE Keys!OpensWhereItBelongs'
  BY <1>4, SMTT(30) DEF Keys!DeleteUserKeys, Keys!NoRead
<1>5. ASSUME NEW p \in KeyProcs, Keys!CreateDek(p) PROVE Keys!OpensWhereItBelongs'
  BY <1>5, SMTT(30) DEF Keys!CreateDek, Keys!NoRead
<1>6. ASSUME NEW p \in KeyProcs, Keys!InsertUser(p) PROVE Keys!OpensWhereItBelongs'
  BY <1>6, SMTT(30) DEF Keys!InsertUser, Keys!NoRead
<1>7. ASSUME NEW p \in KeyProcs, Keys!RestartProcess(p) PROVE Keys!OpensWhereItBelongs'
  BY <1>7, SMTT(30) DEF Keys!RestartProcess, Keys!NoRead
<1>8. ASSUME NEW u \in KeyUsers, Keys!Misplace(u) PROVE Keys!OpensWhereItBelongs'
  BY <1>8, SMTT(30) DEF Keys!Misplace, Keys!NoRead
<1>9. CASE UNCHANGED Keys!keyVars
  BY <1>9, SMTT(30) DEF Keys!keyVars
<1> QED BY <1>1, <1>2, <1>3, <1>4, <1>5, <1>6, <1>7, <1>8, <1>9 DEF Keys!KeyNext

\* Processes without keys satisfy the invariant.
LEMMA KeyStart == ASSUME KeyAsm, Keys!KeyInit PROVE KeyInv
<1> USE DEF KeyAsm, Keys!KeyAssumption, Keys!KeyInit
<1>1. KeyTypes /\ CacheTrue
  BY DEF KeyTypes, Keys!KeyTypeOK, CacheTrue
<1>2. KeysKept /\ OwnPair /\ Keys!OpensWhereItBelongs
  BY DEF KeysKept, OwnPair, Keys!OpensWhereItBelongs
<1> QED BY <1>1, <1>2 DEF KeyInv

\* Every step keeps the invariant.
LEMMA KeyInvStep == ASSUME KeyAsm, KeyInv, [Keys!KeyNext]_Keys!keyVars PROVE KeyInv'
<1>1. KeyTypes /\ CacheTrue /\ KeysKept /\ OwnPair /\ Keys!OpensWhereItBelongs
  BY DEF KeyInv
<1>2. KeyTypes' /\ CacheTrue' /\ KeysKept'
  BY <1>1, KeyTypeStep, CacheStep, KeptStep
<1>3. OwnPair' /\ Keys!OpensWhereItBelongs'
  BY <1>1, PairStep, OpenStep
<1> QED BY <1>2, <1>3 DEF KeyInv

\* The invariant implies what the run checks.
LEMMA KeySafe == ASSUME KeyInv PROVE Keys!RecordsFitTheKey /\ Keys!OpensWhereItBelongs
<1>1. \A u \in known : u \in KeyUsers
  BY DEF KeyInv, KeyTypes, Keys!KeyTypeOK
<1> QED BY <1>1 DEF KeyInv, KeysKept, OwnPair, Keys!RecordsFitTheKey

\* The inductive invariant holds in every reachable state.
THEOREM KeyInvariance == Keys!KeySpec => []KeyInv
<1>1. Keys!KeyInit => KeyInv
  BY KeyStart, ServerAssumption DEF KeyAsm
<1>2. ASSUME KeyInv, [Keys!KeyNext]_Keys!keyVars PROVE KeyInv'
  <2>1. KeyAsm
    BY ServerAssumption DEF KeyAsm
  <2> QED BY <1>2, <2>1, KeyInvStep
<1> QED BY <1>1, <1>2, PTL DEF Keys!KeySpec

\* Keys, files, caches and records have their types.
THEOREM KeyTypeCorrect == Keys!KeySpec => []Keys!KeyTypeOK
<1>1. KeyInv => Keys!KeyTypeOK
  BY DEF KeyInv, KeyTypes
<1> QED BY <1>1, KeyInvariance, PTL

\* The record of a user whose files nobody moved was sealed with the key in the user's
\* directory, whatever registrations and deletions race in however many processes.
THEOREM RecordsArePairs == Keys!KeySpec => []Keys!RecordsFitTheKey
<1>1. KeyInv => Keys!RecordsFitTheKey
  BY KeySafe
<1> QED BY <1>1, KeyInvariance, PTL

\* A record opens exactly where it belongs, whatever an operator copies over it.
THEOREM OpensAtHome == Keys!KeySpec => []Keys!OpensWhereItBelongs
<1>1. KeyInv => Keys!OpensWhereItBelongs
  BY KeySafe
<1> QED BY <1>1, KeyInvariance, PTL

-----------------------------------------------------------------------------
(* ToolCall: the invariants                                                    *)

CallAsm == Calls!CallAssumption

\* The values of everything but the log have their types.
CallValues ==
  /\ policy \in {"unread", "single", "multi"}
  /\ standing \in [Users -> Calls!Standings]
  /\ flaws \in [Requests -> SUBSET Calls!Flaws]
  /\ callPc \in [Requests -> Calls!Waiting \cup {"idle", "done", "single"}]
  /\ acting \in [Requests -> Users \cup {Nobody}]
  /\ service \in [Requests -> Users \cup {Nobody}]
  /\ answer \in [Requests -> Calls!Answers]

CallTypes == CallValues /\ records \in [Requests -> Seq(Calls!Record)]

\* No request before the mode is read, and those of one mode only after it.
PolicyRead ==
  \A r \in Requests : /\ policy = "unread" => callPc[r] = "idle"
                      /\ policy = "single" => callPc[r] \in {"idle", "single", "done"}
                      /\ policy = "multi" => callPc[r] # "single"

\* Whose identity and whose service a task has, by where it is.
Bound ==
  \A r \in Requests :
    /\ callPc[r] \in {"idle", "authenticating", "dispatched", "done"} =>
         acting[r] = Nobody /\ service[r] = Nobody
    /\ callPc[r] \in {"checking", "leasing", "connecting", "confirming"} =>
         acting[r] = UserOf[r] /\ service[r] = Nobody
    /\ callPc[r] = "rechecking" => acting[r] = UserOf[r] /\ service[r] = UserOf[r]
    /\ callPc[r] = "handling" => acting[r] = UserOf[r] /\ service[r] \in {Nobody, UserOf[r]}
    /\ callPc[r] = "single" => service[r] = Nobody

\* The record of a key that was taken.
Taken == Calls!Rec("auth.bearer", "success", "none")
\* What a tool call may end with.
CallEnds == Calls!Codes \cup {"ok", "cancelled"}

\* How a request that is over was logged and answered.
Ended(log, a) ==
  \/ log = <<>> /\ a \in {"bad_host", "request_too_large", "cancelled"}
  \/ /\ a \in {"unauthenticated", "account_inactive", "forbidden_scope", "internal_error"}
     /\ \E outcome \in {"failure", "denied"} : log = <<Calls!Rec("auth.bearer", outcome, a)>>
  \/ log = <<Taken>> /\ a \in {"method_not_allowed", "session_not_supported", "cancelled"}
  \/ a \in CallEnds /\ log = <<Taken>> \o Calls!CallRecords(a)

\* What was logged of a request, by where its task is.
LoggedSoFar ==
  \A r \in Requests :
    /\ callPc[r] \in {"idle", "authenticating"} => records[r] = <<>> /\ answer[r] = "none"
    /\ callPc[r] \in Calls!Waiting \ {"authenticating"} => records[r] = <<Taken>> /\ answer[r] = "none"
    /\ callPc[r] = "done" /\ policy = "multi" => Ended(records[r], answer[r])

CallInv == CallTypes /\ PolicyRead /\ Bound /\ LoggedSoFar

-----------------------------------------------------------------------------
(* ToolCall: the steps                                                         *)

\* The check that fails first is one of those made.
LEMMA FirstIs ==
  ASSUME NEW n \in 1 .. 7, NEW order, Len(order) = n, NEW f, Calls!Flawed(order, f)
  PROVE  Calls!First(order, f) \in 1 .. n
<1> DEFINE I == {i \in 1 .. Len(order) : order[i] \in f}
<1>1. Calls!First(order, f) = IF I # {} THEN Calls!Min(I) ELSE 0
  BY DEF Calls!First, Calls!SelectInSeq
<1>2. I # {} /\ I \subseteq 1 .. n
  BY <1>1 DEF Calls!Flawed
<1>3. \E x \in I : \A y \in I : x <= y
  <2> HIDE DEF I
  <2>1. CASE 1 \in I
    BY <1>2, <2>1
  <2>2. CASE 1 \notin I /\ 2 \in I
    BY <1>2, <2>2
  <2>3. CASE {1, 2} \cap I = {} /\ 3 \in I
    BY <1>2, <2>3
  <2>4. CASE {1, 2, 3} \cap I = {} /\ 4 \in I
    BY <1>2, <2>4
  <2>5. CASE {1, 2, 3, 4} \cap I = {} /\ 5 \in I
    BY <1>2, <2>5
  <2>6. CASE {1, 2, 3, 4, 5} \cap I = {} /\ 6 \in I
    BY <1>2, <2>6
  <2>7. CASE {1, 2, 3, 4, 5, 6} \cap I = {}
    <3>1. I \subseteq {7}
      BY <1>2, <2>7
    <3>2. I = {7}
      BY <1>2, <3>1
    <3> QED BY <3>2
  <2> QED BY <2>1, <2>2, <2>3, <2>4, <2>5, <2>6, <2>7
<1>4. Calls!Min(I) \in I
  BY <1>3 DEF Calls!Min
<1> QED BY <1>1, <1>2, <1>4

\* What the checks answer with.
LEMMA CodesAre ==
  ASSUME NEW f
  PROVE  /\ Calls!Flawed(Calls!GateChecks, f) =>
              Calls!CodeOf(Calls!GateChecks, f) \in {"bad_host", "request_too_large", "unauthenticated"}
         /\ Calls!Flawed(Calls!PolicyChecks, f) =>
              Calls!CodeOf(Calls!PolicyChecks, f) \in {"method_not_allowed", "session_not_supported"}
         /\ Calls!Flawed(Calls!CallChecks, f) =>
              Calls!CodeOf(Calls!CallChecks, f) \in
                {"unknown_tool", "invalid_arguments", "invalid_user_email", "graph_not_connected",
                 "identity_mismatch", "unexpected_argument"}
<1>1. ASSUME Calls!Flawed(Calls!GateChecks, f)
      PROVE  Calls!CodeOf(Calls!GateChecks, f) \in {"bad_host", "request_too_large", "unauthenticated"}
  <2>1. Len(Calls!GateChecks) = 3
    BY DEF Calls!GateChecks
  <2>2. Calls!First(Calls!GateChecks, f) \in 1 .. 3
    BY <1>1, <2>1, FirstIs
  <2> QED BY <2>2 DEF Calls!CodeOf, Calls!GateChecks, Calls!FlawCode
<1>2. ASSUME Calls!Flawed(Calls!PolicyChecks, f)
      PROVE  Calls!CodeOf(Calls!PolicyChecks, f) \in {"method_not_allowed", "session_not_supported"}
  <2>1. Len(Calls!PolicyChecks) = 2
    BY DEF Calls!PolicyChecks
  <2>2. Calls!First(Calls!PolicyChecks, f) \in 1 .. 2
    BY <1>2, <2>1, FirstIs
  <2> QED BY <2>2 DEF Calls!CodeOf, Calls!PolicyChecks, Calls!FlawCode
<1>3. ASSUME Calls!Flawed(Calls!CallChecks, f)
      PROVE  Calls!CodeOf(Calls!CallChecks, f) \in
                {"unknown_tool", "invalid_arguments", "invalid_user_email", "graph_not_connected",
                 "identity_mismatch", "unexpected_argument"}
  <2>1. Len(Calls!CallChecks) = 7
    BY DEF Calls!CallChecks
  <2>2. Calls!First(Calls!CallChecks, f) \in 1 .. 7
    BY <1>3, <2>1, FirstIs
  <2> QED BY <2>2 DEF Calls!CodeOf, Calls!CallChecks, Calls!FlawCode
<1> QED BY <1>1, <1>2, <1>3

\* Every record the audit log gets is one, and a call's is of a call.
LEMMA RecordsAre ==
  /\ Taken \in Calls!Record
  /\ \A outcome \in {"success", "failure", "denied"}, code \in Calls!Codes \cup {"none", "cancelled"} :
       Calls!Rec("auth.bearer", outcome, code) \in Calls!Record
  /\ \A code \in CallEnds : /\ Calls!CallRecord(code) \in Calls!Record
                            /\ Calls!CallRecord(code).event = "tool.call"
                            /\ Calls!CallRecords(code) \in Seq(Calls!Record)
<1>1. /\ Taken \in Calls!Record
      /\ \A outcome \in {"success", "failure", "denied"}, code \in Calls!Codes \cup {"none", "cancelled"} :
           Calls!Rec("auth.bearer", outcome, code) \in Calls!Record
  BY DEF Taken, Calls!Rec, Calls!Record
<1>2. ASSUME NEW code \in CallEnds
      PROVE  Calls!CallRecord(code) \in Calls!Record /\ Calls!CallRecord(code).event = "tool.call"
  <2>1. CASE code \in {"ok", "cancelled"}
    <3>1. \/ Calls!CallRecord(code) = Calls!Rec("tool.call", "success", "none")
          \/ Calls!CallRecord(code) = Calls!Rec("tool.call", "failure", "cancelled")
      <4>1. CASE code = "ok"
        BY <4>1 DEF Calls!CallRecord, Calls!DeniedCodes
      <4>2. CASE code = "cancelled"
        BY <4>2 DEF Calls!CallRecord, Calls!DeniedCodes
      <4> QED BY <2>1, <4>1, <4>2
    <3> QED BY <3>1 DEF Calls!Rec, Calls!Record
  <2>2. CASE code \in Calls!Codes
    <3>1. code # "ok" /\ code # "cancelled"
      BY <2>2 DEF Calls!Codes
    <3>2. Calls!CallRecord(code) = Calls!Rec("tool.call", "denied", code)
          \/ Calls!CallRecord(code) = Calls!Rec("tool.call", "failure", code)
      BY <3>1 DEF Calls!CallRecord
    <3> QED BY <2>2, <3>2 DEF Calls!Rec, Calls!Record
  <2> QED BY <2>1, <2>2 DEF CallEnds
<1>3. ASSUME NEW code \in CallEnds PROVE Calls!CallRecords(code) \in Seq(Calls!Record)
  <2>1. "identity_mismatch" \in Calls!Codes
    BY DEF Calls!Codes
  <2>2. Calls!Rec("auth.identity_mismatch", "denied", "identity_mismatch") \in Calls!Record
    BY <2>1 DEF Calls!Rec, Calls!Record
  <2>3. <<Calls!CallRecord(code)>> \in Seq(Calls!Record)
    BY <1>2
  <2> QED BY <2>2, <2>3 DEF Calls!CallRecords
<1> QED BY <1>1, <1>2, <1>3

\* What the assumptions on the constants say of one request.
LEMMA CallFacts ==
  ASSUME CallAsm, NEW r \in Requests
  PROVE  /\ UserOf[r] \in Users /\ UserOf[r] # Nobody
         /\ FlawsOf[r] \subseteq SUBSET Calls!Flaws
BY DEF CallAsm, Calls!CallAssumption

\* Mode 0 chooses a user, or nobody.
LEMMA ChosenIs ==
  ASSUME CallAsm, NEW e \in Users \cup {Nobody}
  PROVE  Calls!Chosen(e) \in Users \cup {Nobody}
<1>1. CASE e # Nobody
  BY <1>1 DEF Calls!Chosen
<1>2. CASE e = Nobody /\ EnvDefault # Nobody
  BY <1>2 DEF Calls!Chosen, CallAsm, Calls!CallAssumption
<1>3. CASE e = Nobody /\ EnvDefault = Nobody
  <2>1. Calls!Chosen(e) = IF Known = <<>> THEN Nobody ELSE Known[1]
    BY <1>3 DEF Calls!Chosen
  <2>2. Known \in Seq(Users)
    BY DEF CallAsm, Calls!CallAssumption
  <2> QED BY <2>1, <2>2
<1> QED BY <1>1, <1>2, <1>3

\* The registry refuses with one of three codes.
LEMMA VerdictIs ==
  ASSUME NEW r
  PROVE  Calls!RegistryVerdict(r) \in {"unauthenticated", "account_inactive", "forbidden_scope"}
BY DEF Calls!RegistryVerdict

\* Request r is over; its log tells of its answer, and no other request has changed.
Over(r) ==
  /\ callPc' = [callPc EXCEPT ![r] = "done"]
  /\ Ended(records'[r], answer'[r])
  /\ records' \in [Requests -> Seq(Calls!Record)]
  /\ \A q \in Requests \ {r} : answer'[q] = answer[q] /\ records'[q] = records[q]

\* A tool call that ends leaves such a log.
LEMMA FinishLogs ==
  ASSUME CallTypes, NEW r \in Requests, NEW code \in CallEnds, records[r] = <<Taken>>,
         Calls!Finish(r, code)
  PROVE  Over(r)
<1>1. Calls!CallRecords(code) \in Seq(Calls!Record) /\ Taken \in Calls!Record
  BY RecordsAre
<1>2. records' = [records EXCEPT ![r] = <<Taken>> \o Calls!CallRecords(code)]
  BY DEF Calls!Finish, Calls!Logged
<1>3. <<Taken>> \o Calls!CallRecords(code) \in Seq(Calls!Record)
  BY <1>1
<1>4. answer' = [answer EXCEPT ![r] = code] /\ callPc' = [callPc EXCEPT ![r] = "done"]
  BY DEF Calls!Finish
<1>5. records'[r] = <<Taken>> \o Calls!CallRecords(code) /\ answer'[r] = code
  BY <1>2, <1>4 DEF CallTypes, CallValues
<1> QED BY <1>2, <1>3, <1>4, <1>5, Zenon DEF Over, Ended, CallTypes, CallValues

\* So does a request that never becomes a call.
LEMMA RefuseLogs ==
  ASSUME CallTypes, NEW r \in Requests, NEW code, NEW recs, records[r] \o recs \in Seq(Calls!Record),
         Ended(records[r] \o recs, code), Calls!Refuse(r, code, recs)
  PROVE  Over(r)
<1>1. /\ records' = [records EXCEPT ![r] = records[r] \o recs]
      /\ answer' = [answer EXCEPT ![r] = code] /\ callPc' = [callPc EXCEPT ![r] = "done"]
  BY DEF Calls!Refuse, Calls!Logged
<1>2. records'[r] = records[r] \o recs /\ answer'[r] = code
  BY <1>1 DEF CallTypes, CallValues
<1> QED BY <1>1, <1>2, Zenon DEF Over, CallTypes, CallValues

\* Every step leaves the values of their types (the log has a lemma of its own).
LEMMA CallTypeStep ==
  ASSUME CallAsm, CallTypes, [Calls!Next]_Calls!callVars
  PROVE  CallValues'
<1> USE DEF CallTypes, Calls!Waiting, Calls!Codes, Calls!Answers, CallValues, Calls!Go
<1>1. ASSUME NEW r \in Requests, Calls!Step(r) PROVE CallValues'
  <2>1. CASE Calls!Receive(r)
    <3>1. PICK f \in FlawsOf[r] :
             /\ flaws' = [flaws EXCEPT ![r] = f]
             /\ \/ /\ Calls!Flawed(Calls!GateChecks, f)
                   /\ \E recs : Calls!Refuse(r, Calls!CodeOf(Calls!GateChecks, f), recs)
                \/ Calls!Go(r, "authenticating")
      BY <2>1, Zenon DEF Calls!Receive
    <3>2. f \in SUBSET Calls!Flaws
      BY CallFacts
    <3>3. UNCHANGED <<policy, standing, acting, service>>
      BY <2>1, <3>1 DEF Calls!Receive, Calls!Refuse
    <3>4. \E a \in Calls!Answers, pc \in {"done", "authenticating"} :
            answer' = [answer EXCEPT ![r] = a] /\ callPc' = [callPc EXCEPT ![r] = pc]
      BY <3>1, CodesAre, SMTT(30) DEF Calls!Refuse
    <3> QED BY <3>1, <3>2, <3>3, <3>4
  <2>2. CASE Calls!Admit(r)
    <3>1. UNCHANGED <<policy, standing, flaws, acting, service>>
      BY <2>2 DEF Calls!Admit, Calls!Refuse
    <3>2. \E a \in Calls!Answers, pc \in {"done", "dispatched"} :
            answer' = [answer EXCEPT ![r] = a] /\ callPc' = [callPc EXCEPT ![r] = pc]
      <4>1. CASE Calls!Flawed(Calls!PolicyChecks, flaws[r])
        BY <2>2, <4>1, CodesAre, SMTT(30) DEF Calls!Admit, Calls!Refuse
      <4>2. CASE ~Calls!Flawed(Calls!PolicyChecks, flaws[r])
        BY <2>2, <4>2, SMTT(30) DEF Calls!Admit
      <4> QED BY <4>1, <4>2
    <3> QED BY <3>1, <3>2
  <2>3. CASE Calls!Reject(r)
    BY <2>3, VerdictIs, SMTT(30) DEF Calls!Reject, Calls!Refuse
  <2>4. CASE Calls!RegistryFails(r)
    BY <2>4, SMTT(30) DEF Calls!RegistryFails, Calls!Refuse
  <2>5. CASE Calls!Dispatch(r)
    <3>1. PICK left : IF Calls!Resolve(r, left) = Nobody THEN Calls!Finish(r, "missing_principal")
                      ELSE /\ acting' = [acting EXCEPT ![r] = Calls!Resolve(r, left)]
                           /\ callPc' = [callPc EXCEPT ![r] = "checking"]
                           /\ UNCHANGED <<service, answer, records>>
      BY <2>5 DEF Calls!Dispatch
    <3>2. Calls!Resolve(r, left) \in {UserOf[r], Nobody}
      BY DEF Calls!Resolve
    <3>3. UNCHANGED <<policy, standing, flaws>>
      BY <2>5 DEF Calls!Dispatch
    <3>4. CASE Calls!Finish(r, "missing_principal")
      BY <3>3, <3>4 DEF Calls!Finish
    <3>5. CASE /\ acting' = [acting EXCEPT ![r] = UserOf[r]]
               /\ callPc' = [callPc EXCEPT ![r] = "checking"]
               /\ UNCHANGED <<service, answer, records>>
      BY <2>5, <3>3, <3>5, CallFacts DEF Calls!Dispatch
    <3> QED BY <3>1, <3>2, <3>4, <3>5
  <2>6. CASE Calls!CheckRefuses(r)
    BY <2>6, SMTT(30) DEF Calls!CheckRefuses, Calls!Finish
  <2>7. CASE Calls!CheckFails(r)
    BY <2>7, SMTT(30) DEF Calls!CheckFails, Calls!Finish
  <2>8. CASE Calls!CheckArguments(r)
    <3>1. UNCHANGED <<policy, standing, flaws>>
      BY <2>8 DEF Calls!CheckArguments
    <3>2. \/ Calls!Go(r, "leasing") \/ Calls!Go(r, "connecting")
          \/ \E code \in Calls!Answers : Calls!Finish(r, code)
      BY <2>8, CodesAre, Zenon DEF Calls!CheckArguments
    <3>3. CASE Calls!Go(r, "leasing") \/ Calls!Go(r, "connecting")
      BY <3>1, <3>3
    <3>4. CASE \E code \in Calls!Answers : Calls!Finish(r, code)
      BY <3>1, <3>4 DEF Calls!Finish
    <3> QED BY <3>2, <3>3, <3>4
  <2>9. CASE Calls!NoService(r)
    BY <2>9, SMTT(30) DEF Calls!NoService
  <2>10. CASE Calls!Lease(r)
    BY <2>10, SMTT(30) DEF Calls!Lease
  <2>11. CASE Calls!LeaseFails(r)
    BY <2>11, SMTT(30) DEF Calls!LeaseFails, Calls!Finish
  <2>12. CASE Calls!Recheck(r)
    BY <2>12, SMTT(30) DEF Calls!Recheck
  <2>13. CASE Calls!HandlerReturns(r)
    BY <2>13, SMTT(30) DEF Calls!HandlerReturns
  <2>14. CASE Calls!HandlerFails(r)
    BY <2>14, SMTT(30) DEF Calls!HandlerFails, Calls!Finish, Calls!Sanitized
  <2>15. CASE Calls!NotConnected(r)
    BY <2>15, SMTT(30) DEF Calls!NotConnected
  <2>16. CASE Calls!AnswerNotConnected(r)
    BY <2>16, SMTT(30) DEF Calls!AnswerNotConnected, Calls!Finish
  <2>17. CASE Calls!Deliver(r)
    BY <2>17, SMTT(30) DEF Calls!Deliver, Calls!Finish, Calls!Sanitized
  <2>18. CASE Calls!Cancel(r)
    <3>1. UNCHANGED <<policy, standing, flaws>>
      BY <2>18 DEF Calls!Cancel
    <3>2. CASE Calls!Refuse(r, "cancelled", <<>>)
      BY <3>1, <3>2 DEF Calls!Refuse
    <3>3. CASE Calls!Finish(r, "cancelled")
      BY <3>1, <3>3 DEF Calls!Finish
    <3> QED BY <2>18, <3>2, <3>3 DEF Calls!Cancel
  <2>19. CASE Calls!CallSingle(r)
    <3>1. PICK f \in FlawsOf[r], explicit \in {Nobody, UserOf[r]} :
             /\ flaws' = [flaws EXCEPT ![r] = f]
             /\ acting' = [acting EXCEPT ![r] = Calls!Chosen(explicit)]
             /\ callPc' = [callPc EXCEPT ![r] = "single"]
             /\ answer' = [answer EXCEPT ![r] =
                  IF "tool" \in f THEN "unknown_tool"
                  ELSE IF "invalid" \in f THEN "invalid_arguments"
                  ELSE IF Calls!Chosen(explicit) = Nobody THEN "no_authenticated_user"
                  ELSE "none"]
      BY <2>19 DEF Calls!CallSingle
    <3>2. PICK a : /\ answer' = [answer EXCEPT ![r] = a]
                   /\ a \in {"unknown_tool", "invalid_arguments", "no_authenticated_user", "none"}
      <4>1. CASE "tool" \in f
        BY <3>1, <4>1
      <4>2. CASE "tool" \notin f /\ "invalid" \in f
        BY <3>1, <4>2
      <4>3. CASE "tool" \notin f /\ "invalid" \notin f /\ Calls!Chosen(explicit) = Nobody
        BY <3>1, <4>3
      <4>4. CASE "tool" \notin f /\ "invalid" \notin f /\ Calls!Chosen(explicit) # Nobody
        BY <3>1, <4>4
      <4> QED BY <4>1, <4>2, <4>3, <4>4
    <3>3. Calls!Chosen(explicit) \in Users \cup {Nobody} /\ f \in SUBSET Calls!Flaws
      BY CallFacts, ChosenIs
    <3>4. UNCHANGED <<policy, standing, service, records>>
      BY <2>19 DEF Calls!CallSingle
    <3> QED BY <3>1, <3>2, <3>3, <3>4
  <2>20. CASE Calls!AnswerSingle(r)
    <3>1. PICK a : a \in Calls!Answers /\ answer' = [answer EXCEPT ![r] = a]
      <4>1. CASE answer[r] = "none"
        BY <2>20, <4>1 DEF Calls!AnswerSingle
      <4>2. CASE answer[r] # "none"
        BY <2>20, <4>2 DEF Calls!AnswerSingle
      <4> QED BY <4>1, <4>2
    <3>2. /\ callPc' = [callPc EXCEPT ![r] = "done"] /\ acting' = [acting EXCEPT ![r] = Nobody]
          /\ UNCHANGED <<policy, standing, flaws, service>>
      BY <2>20 DEF Calls!AnswerSingle
    <3> QED BY <3>1, <3>2
  <2> HIDE DEF CallTypes, Calls!Waiting, Calls!Codes, Calls!Answers, CallValues, Calls!Go
  <2> QED
    BY <1>1, <2>1, <2>2, <2>3, <2>4, <2>5, <2>6, <2>7, <2>8, <2>9, <2>10, <2>11,
       <2>12, <2>13, <2>14, <2>15, <2>16, <2>17, <2>18, <2>19, <2>20 DEF Calls!Step
<1>2. CASE Calls!ReadPolicy
  BY <1>2, SMTT(30) DEF Calls!ReadPolicy
<1>3. ASSUME NEW u \in Users, Calls!Change(u) PROVE CallValues'
  BY <1>3, SMTT(30) DEF Calls!Change
<1>4. CASE UNCHANGED Calls!callVars
  BY <1>4, SMTT(30) DEF Calls!callVars
<1> HIDE DEF CallTypes, Calls!Waiting, Calls!Codes, Calls!Answers, CallValues, Calls!Go
<1> QED BY <1>1, <1>2, <1>3, <1>4 DEF Calls!Next

\* Every step leaves requests to their mode.
LEMMA PolicyStep ==
  ASSUME CallAsm, CallTypes, PolicyRead, [Calls!Next]_Calls!callVars
  PROVE  PolicyRead'
<1> USE DEF CallTypes, CallValues, PolicyRead, Calls!Waiting, Calls!Go
<1>1. ASSUME NEW r \in Requests, Calls!Step(r) PROVE PolicyRead'
  <2>1. CASE Calls!Receive(r)
    BY <2>1, SMTT(30) DEF Calls!Receive, Calls!Refuse
  <2>2. CASE Calls!Admit(r)
    BY <2>2, SMTT(30) DEF Calls!Admit, Calls!Refuse
  <2>3. CASE Calls!Reject(r)
    BY <2>3, SMTT(30) DEF Calls!Reject, Calls!Refuse
  <2>4. CASE Calls!RegistryFails(r)
    BY <2>4, SMTT(30) DEF Calls!RegistryFails, Calls!Refuse
  <2>5. CASE Calls!Dispatch(r)
    <3>1. callPc[r] = "dispatched" /\ policy' = policy
      BY <2>5 DEF Calls!Dispatch
    <3>2. \/ callPc' = [callPc EXCEPT ![r] = "done"]
          \/ callPc' = [callPc EXCEPT ![r] = "checking"]
      BY <2>5, Zenon DEF Calls!Dispatch, Calls!Finish
    <3> QED BY <3>1, <3>2
  <2>6. CASE Calls!CheckRefuses(r)
    BY <2>6, SMTT(30) DEF Calls!CheckRefuses, Calls!Finish
  <2>7. CASE Calls!CheckFails(r)
    BY <2>7, SMTT(30) DEF Calls!CheckFails, Calls!Finish
  <2>8. CASE Calls!CheckArguments(r)
    BY <2>8, SMTT(30) DEF Calls!CheckArguments, Calls!Finish
  <2>9. CASE Calls!NoService(r)
    BY <2>9, SMTT(30) DEF Calls!NoService
  <2>10. CASE Calls!Lease(r)
    BY <2>10, SMTT(30) DEF Calls!Lease
  <2>11. CASE Calls!LeaseFails(r)
    BY <2>11, SMTT(30) DEF Calls!LeaseFails, Calls!Finish
  <2>12. CASE Calls!Recheck(r)
    BY <2>12, SMTT(30) DEF Calls!Recheck
  <2>13. CASE Calls!HandlerReturns(r)
    BY <2>13, SMTT(30) DEF Calls!HandlerReturns
  <2>14. CASE Calls!HandlerFails(r)
    BY <2>14, SMTT(30) DEF Calls!HandlerFails, Calls!Finish, Calls!Sanitized
  <2>15. CASE Calls!NotConnected(r)
    BY <2>15, SMTT(30) DEF Calls!NotConnected
  <2>16. CASE Calls!AnswerNotConnected(r)
    BY <2>16, SMTT(30) DEF Calls!AnswerNotConnected, Calls!Finish
  <2>17. CASE Calls!Deliver(r)
    BY <2>17, SMTT(30) DEF Calls!Deliver, Calls!Finish, Calls!Sanitized
  <2>18. CASE Calls!Cancel(r)
    BY <2>18, SMTT(30) DEF Calls!Cancel, Calls!Refuse, Calls!Finish
  <2>19. CASE Calls!CallSingle(r)
    BY <2>19, SMTT(30) DEF Calls!CallSingle
  <2>20. CASE Calls!AnswerSingle(r)
    BY <2>20, SMTT(30) DEF Calls!AnswerSingle
  <2> HIDE DEF CallTypes, CallValues, PolicyRead, Calls!Waiting, Calls!Go
  <2> QED
    BY <1>1, <2>1, <2>2, <2>3, <2>4, <2>5, <2>6, <2>7, <2>8, <2>9, <2>10, <2>11,
       <2>12, <2>13, <2>14, <2>15, <2>16, <2>17, <2>18, <2>19, <2>20 DEF Calls!Step
<1>2. CASE Calls!ReadPolicy
  BY <1>2, SMTT(30) DEF Calls!ReadPolicy
<1>3. ASSUME NEW u \in Users, Calls!Change(u) PROVE PolicyRead'
  BY <1>3, SMTT(30) DEF Calls!Change
<1>4. CASE UNCHANGED Calls!callVars
  BY <1>4, SMTT(30) DEF Calls!callVars
<1> HIDE DEF CallTypes, CallValues, PolicyRead, Calls!Waiting, Calls!Go
<1> QED BY <1>1, <1>2, <1>3, <1>4 DEF Calls!Next

\* Every step leaves a task the identity and the service it should have.
LEMMA BoundStep ==
  ASSUME CallAsm, CallTypes, PolicyRead, Bound, [Calls!Next]_Calls!callVars
  PROVE  Bound'
<1> USE DEF CallTypes, CallValues, PolicyRead, Bound, Calls!Waiting, Calls!Go
<1>1. ASSUME NEW r \in Requests, Calls!Step(r) PROVE Bound'
  <2>1. CASE Calls!Receive(r)
    BY <2>1, SMTT(30) DEF Calls!Receive, Calls!Refuse
  <2>2. CASE Calls!Admit(r)
    BY <2>2, SMTT(30) DEF Calls!Admit, Calls!Refuse
  <2>3. CASE Calls!Reject(r)
    BY <2>3, SMTT(30) DEF Calls!Reject, Calls!Refuse
  <2>4. CASE Calls!RegistryFails(r)
    BY <2>4, SMTT(30) DEF Calls!RegistryFails, Calls!Refuse
  <2>5. CASE Calls!Dispatch(r)
    <3>1. PICK left : IF Calls!Resolve(r, left) = Nobody THEN Calls!Finish(r, "missing_principal")
                      ELSE /\ acting' = [acting EXCEPT ![r] = Calls!Resolve(r, left)]
                           /\ callPc' = [callPc EXCEPT ![r] = "checking"]
                           /\ UNCHANGED <<service, answer, records>>
      BY <2>5 DEF Calls!Dispatch
    <3>2. Calls!Resolve(r, left) \in {UserOf[r], Nobody}
      BY DEF Calls!Resolve
    <3>3. UNCHANGED <<policy, standing, flaws>>
      BY <2>5 DEF Calls!Dispatch
    <3>4. CASE Calls!Finish(r, "missing_principal")
      BY <3>3, <3>4 DEF Calls!Finish
    <3>5. CASE /\ acting' = [acting EXCEPT ![r] = UserOf[r]]
               /\ callPc' = [callPc EXCEPT ![r] = "checking"]
               /\ UNCHANGED <<service, answer, records>>
      BY <2>5, <3>3, <3>5, CallFacts DEF Calls!Dispatch
    <3> QED BY <3>1, <3>2, <3>4, <3>5
  <2>6. CASE Calls!CheckRefuses(r)
    BY <2>6, SMTT(30) DEF Calls!CheckRefuses, Calls!Finish
  <2>7. CASE Calls!CheckFails(r)
    BY <2>7, SMTT(30) DEF Calls!CheckFails, Calls!Finish
  <2>8. CASE Calls!CheckArguments(r)
    BY <2>8, SMTT(30) DEF Calls!CheckArguments, Calls!Finish
  <2>9. CASE Calls!NoService(r)
    BY <2>9, SMTT(30) DEF Calls!NoService
  <2>10. CASE Calls!Lease(r)
    BY <2>10, CallFacts, SMTT(30) DEF Calls!Lease
  <2>11. CASE Calls!LeaseFails(r)
    BY <2>11, SMTT(30) DEF Calls!LeaseFails, Calls!Finish
  <2>12. CASE Calls!Recheck(r)
    BY <2>12, SMTT(30) DEF Calls!Recheck
  <2>13. CASE Calls!HandlerReturns(r)
    BY <2>13, SMTT(30) DEF Calls!HandlerReturns
  <2>14. CASE Calls!HandlerFails(r)
    BY <2>14, SMTT(30) DEF Calls!HandlerFails, Calls!Finish, Calls!Sanitized
  <2>15. CASE Calls!NotConnected(r)
    BY <2>15, SMTT(30) DEF Calls!NotConnected
  <2>16. CASE Calls!AnswerNotConnected(r)
    BY <2>16, SMTT(30) DEF Calls!AnswerNotConnected, Calls!Finish
  <2>17. CASE Calls!Deliver(r)
    BY <2>17, SMTT(30) DEF Calls!Deliver, Calls!Finish, Calls!Sanitized
  <2>18. CASE Calls!Cancel(r)
    BY <2>18, SMTT(30) DEF Calls!Cancel, Calls!Refuse, Calls!Finish
  <2>19. CASE Calls!CallSingle(r)
    <3>1. PICK a : acting' = [acting EXCEPT ![r] = a]
      BY <2>19 DEF Calls!CallSingle
    <3>2. callPc' = [callPc EXCEPT ![r] = "single"] /\ service' = service /\ callPc[r] = "idle"
      BY <2>19 DEF Calls!CallSingle
    <3> QED BY <3>1, <3>2
  <2>20. CASE Calls!AnswerSingle(r)
    BY <2>20, SMTT(30) DEF Calls!AnswerSingle
  <2> HIDE DEF CallTypes, CallValues, PolicyRead, Bound, Calls!Waiting, Calls!Go
  <2> QED
    BY <1>1, <2>1, <2>2, <2>3, <2>4, <2>5, <2>6, <2>7, <2>8, <2>9, <2>10, <2>11,
       <2>12, <2>13, <2>14, <2>15, <2>16, <2>17, <2>18, <2>19, <2>20 DEF Calls!Step
<1>2. CASE Calls!ReadPolicy
  BY <1>2, SMTT(30) DEF Calls!ReadPolicy
<1>3. ASSUME NEW u \in Users, Calls!Change(u) PROVE Bound'
  BY <1>3, SMTT(30) DEF Calls!Change
<1>4. CASE UNCHANGED Calls!callVars
  BY <1>4, SMTT(30) DEF Calls!callVars
<1> HIDE DEF CallTypes, CallValues, PolicyRead, Bound, Calls!Waiting, Calls!Go
<1> QED BY <1>1, <1>2, <1>3, <1>4 DEF Calls!Next

\* Every step leaves a log that tells of the answer, and of what its task has come to.
LEMMA LoggedStep ==
  ASSUME CallAsm, CallTypes, PolicyRead, LoggedSoFar, [Calls!Next]_Calls!callVars
  PROVE  LoggedSoFar' /\ records' \in [Requests -> Seq(Calls!Record)]
<1> USE DEF CallTypes, CallValues, PolicyRead, LoggedSoFar, Calls!Waiting, Calls!Go
<1>1. ASSUME NEW r \in Requests, Calls!Step(r) PROVE LoggedSoFar' /\ records' \in [Requests -> Seq(Calls!Record)]
  <2>1. CASE Calls!Receive(r)
    <3>1. callPc[r] = "idle" /\ policy' = policy
      BY <2>1 DEF Calls!Receive
    <3>2. PICK f \in FlawsOf[r] :
             IF Calls!Flawed(Calls!GateChecks, f)
             THEN Calls!Refuse(r, Calls!CodeOf(Calls!GateChecks, f),
                       IF Calls!CodeOf(Calls!GateChecks, f) = "unauthenticated"
                       THEN <<Calls!Rec("auth.bearer", "failure", "unauthenticated")>> ELSE <<>>)
             ELSE Calls!Go(r, "authenticating")
      BY <2>1 DEF Calls!Receive
    <3>3. CASE Calls!Flawed(Calls!GateChecks, f)
      <4> DEFINE code == Calls!CodeOf(Calls!GateChecks, f)
      <4>1. code \in {"bad_host", "request_too_large", "unauthenticated"}
        BY <3>3, CodesAre
      <4>2. CASE code = "unauthenticated"
        <5> DEFINE log == <<Calls!Rec("auth.bearer", "failure", "unauthenticated")>>
        <5>1. Calls!Refuse(r, "unauthenticated", log)
          BY <3>2, <3>3, <4>2, Zenon
        <5>2. log \in Seq(Calls!Record)
          BY RecordsAre DEF Calls!Codes
        <5>4. Ended(log, "unauthenticated")
          BY Zenon DEF Ended
        <5> HIDE DEF log
        <5>3. records[r] \o log = log
          BY <3>1, <5>2
        <5>5. Over(r)
          BY <5>1, <5>2, <5>3, <5>4, RefuseLogs, Zenon
        <5> QED BY <3>1, <5>5 DEF Over
      <4>3. CASE code # "unauthenticated"
        <5>1. Calls!Refuse(r, code, <<>>)
          BY <3>2, <3>3, <4>3, Zenon
        <5>2. records[r] \o <<>> = <<>>
          BY <3>1
        <5>3. Ended(<<>>, code)
          BY <4>1, <4>3 DEF Ended
        <5>4. Over(r)
          <6> HIDE DEF code
          <6>1. records[r] \o <<>> \in Seq(Calls!Record)
            BY <5>2
          <6> QED BY <5>1, <5>2, <5>3, <6>1, RefuseLogs, Zenon
        <5> QED BY <3>1, <5>4 DEF Over
      <4> QED BY <4>2, <4>3
    <3>4. CASE Calls!Go(r, "authenticating")
      BY <3>1, <3>4
    <3> QED BY <3>2, <3>3, <3>4
  <2>2. CASE Calls!Admit(r)
    <3>1. callPc[r] = "authenticating" /\ records[r] = <<>> /\ policy' = policy
      BY <2>2 DEF Calls!Admit
    <3>2. Taken \in Calls!Record /\ <<>> \o <<Taken>> = <<Taken>>
      BY RecordsAre
    <3>3. CASE Calls!Flawed(Calls!PolicyChecks, flaws[r])
      <4> DEFINE code == Calls!CodeOf(Calls!PolicyChecks, flaws[r])
      <4>1. code \in {"method_not_allowed", "session_not_supported"}
        BY <3>3, CodesAre
      <4>2. Calls!Refuse(r, code, <<Taken>>)
        BY <2>2, <3>3, Zenon DEF Calls!Admit, Taken
      <4>3. Over(r)
        <5> HIDE DEF code
        <5>1. Ended(<<Taken>>, code)
          BY <4>1 DEF Ended
        <5>2. records[r] \o <<Taken>> = <<Taken>> /\ <<Taken>> \in Seq(Calls!Record)
          BY <3>1, <3>2
        <5> QED BY <4>2, <5>1, <5>2, RefuseLogs, Zenon
      <4> QED BY <3>1, <4>3 DEF Over
    <3>4. CASE ~Calls!Flawed(Calls!PolicyChecks, flaws[r])
      <4>1. /\ callPc' = [callPc EXCEPT ![r] = "dispatched"] /\ answer' = answer
            /\ records' = [records EXCEPT ![r] = records[r] \o <<Taken>>]
        BY <2>2, <3>4, Zenon DEF Calls!Admit, Calls!Logged, Taken
      <4>2. records' = [records EXCEPT ![r] = <<Taken>>]
        BY <3>1, <3>2, <4>1
      <4>3. <<Taken>> \in Seq(Calls!Record)
        BY <3>2
      <4> HIDE DEF Taken
      <4> QED BY <3>1, <4>1, <4>2, <4>3, SMTT(30)
    <3> QED BY <3>3, <3>4
  <2>3. CASE Calls!Reject(r)
    <3>1. callPc[r] = "authenticating" /\ records[r] = <<>> /\ policy' = policy
      BY <2>3 DEF Calls!Reject
    <3>2. PICK code \in {"unauthenticated", "account_inactive", "forbidden_scope"},
               outcome \in {"failure", "denied"} :
             Calls!Refuse(r, code, <<Calls!Rec("auth.bearer", outcome, code)>>)
      BY <2>3, VerdictIs, Zenon DEF Calls!Reject
    <3>3. <<Calls!Rec("auth.bearer", outcome, code)>> \in Seq(Calls!Record)
      BY RecordsAre DEF Calls!Codes
    <3>4. Ended(<<Calls!Rec("auth.bearer", outcome, code)>>, code)
      BY Zenon DEF Ended
    <3>5. Over(r)
      <4> DEFINE log == <<Calls!Rec("auth.bearer", outcome, code)>>
      <4> HIDE DEF log
      <4>1. records[r] \o log = log
        BY <3>1, <3>3 DEF log
      <4> QED BY <3>2, <3>3, <3>4, <4>1, RefuseLogs, Zenon DEF log
    <3> QED BY <3>1, <3>5 DEF Over
  <2>4. CASE Calls!RegistryFails(r)
    <3>1. callPc[r] = "authenticating" /\ records[r] = <<>> /\ policy' = policy
      BY <2>4 DEF Calls!RegistryFails
    <3>2. PICK code \in {"internal_error"}, outcome \in {"failure"} :
             Calls!Refuse(r, code, <<Calls!Rec("auth.bearer", outcome, code)>>)
      BY <2>4, Zenon DEF Calls!RegistryFails
    <3>3. <<Calls!Rec("auth.bearer", outcome, code)>> \in Seq(Calls!Record)
      BY RecordsAre DEF Calls!Codes
    <3>4. Ended(<<Calls!Rec("auth.bearer", outcome, code)>>, code)
      BY Zenon DEF Ended
    <3>5. Over(r)
      <4> DEFINE log == <<Calls!Rec("auth.bearer", outcome, code)>>
      <4> HIDE DEF log
      <4>1. records[r] \o log = log
        BY <3>1, <3>3 DEF log
      <4> QED BY <3>2, <3>3, <3>4, <4>1, RefuseLogs, Zenon DEF log
    <3> QED BY <3>1, <3>5 DEF Over
  <2>5. CASE Calls!Dispatch(r)
    <3>1. callPc[r] = "dispatched" /\ policy' = policy /\ records[r] = <<Taken>>
      BY <2>5 DEF Calls!Dispatch
    <3>2. \/ Calls!Finish(r, "missing_principal")
          \/ callPc' = [callPc EXCEPT ![r] = "checking"] /\ answer' = answer /\ records' = records
      BY <2>5, Zenon DEF Calls!Dispatch
    <3>3. CASE Calls!Finish(r, "missing_principal")
      <4>1. Over(r)
        BY <3>1, <3>3, FinishLogs DEF CallEnds, Calls!Codes
      <4> QED BY <3>1, <4>1 DEF Over
    <3>4. CASE callPc' = [callPc EXCEPT ![r] = "checking"] /\ answer' = answer /\ records' = records
      BY <3>1, <3>4
    <3> QED BY <3>2, <3>3, <3>4
  <2>6. CASE Calls!CheckRefuses(r)
    <3>1. PICK code \in {"account_inactive"} : Calls!Finish(r, code)
      BY <2>6, Zenon DEF Calls!CheckRefuses
    <3>2. code \in CallEnds
      BY <3>1 DEF CallEnds, Calls!Codes
    <3>3. callPc[r] \in Calls!Waiting \ {"authenticating"} /\ policy' = policy
      BY <2>6 DEF Calls!CheckRefuses
    <3>4. Over(r)
      BY <3>1, <3>2, <3>3, FinishLogs
    <3> QED BY <3>3, <3>4 DEF Over
  <2>7. CASE Calls!CheckFails(r)
    <3>1. PICK code \in {"internal_error"} : Calls!Finish(r, code)
      BY <2>7, Zenon DEF Calls!CheckFails
    <3>2. code \in CallEnds
      BY <3>1 DEF CallEnds, Calls!Codes
    <3>3. callPc[r] \in Calls!Waiting \ {"authenticating"} /\ policy' = policy
      BY <2>7 DEF Calls!CheckFails
    <3>4. Over(r)
      BY <3>1, <3>2, <3>3, FinishLogs
    <3> QED BY <3>3, <3>4 DEF Over
  <2>8. CASE Calls!CheckArguments(r)
    <3>1. callPc[r] = "checking" /\ policy' = policy /\ records[r] = <<Taken>>
      BY <2>8 DEF Calls!CheckArguments
    <3>2. \/ Calls!Go(r, "leasing") \/ Calls!Go(r, "connecting")
          \/ /\ Calls!Flawed(Calls!CallChecks, flaws[r])
             /\ Calls!Finish(r, Calls!CodeOf(Calls!CallChecks, flaws[r]))
      BY <2>8, Zenon DEF Calls!CheckArguments
    <3>3. CASE Calls!Go(r, "leasing") \/ Calls!Go(r, "connecting")
      BY <3>1, <3>3
    <3>4. CASE /\ Calls!Flawed(Calls!CallChecks, flaws[r])
               /\ Calls!Finish(r, Calls!CodeOf(Calls!CallChecks, flaws[r]))
      <4>1. Calls!CodeOf(Calls!CallChecks, flaws[r]) \in CallEnds
        BY <3>4, CodesAre DEF CallEnds, Calls!Codes
      <4>2. Over(r)
        BY <3>1, <3>4, <4>1, FinishLogs
      <4> QED BY <3>1, <4>2 DEF Over
    <3> QED BY <3>2, <3>3, <3>4
  <2>9. CASE Calls!NoService(r)
    BY <2>9, SMTT(30) DEF Calls!NoService
  <2>10. CASE Calls!Lease(r)
    BY <2>10, SMTT(30) DEF Calls!Lease
  <2>11. CASE Calls!LeaseFails(r)
    <3>1. PICK code \in {"overloaded", "account_inactive", "internal_error"} : Calls!Finish(r, code)
      BY <2>11, Zenon DEF Calls!LeaseFails
    <3>2. code \in CallEnds
      BY <3>1 DEF CallEnds, Calls!Codes
    <3>3. callPc[r] \in Calls!Waiting \ {"authenticating"} /\ policy' = policy
      BY <2>11 DEF Calls!LeaseFails
    <3>4. Over(r)
      BY <3>1, <3>2, <3>3, FinishLogs
    <3> QED BY <3>3, <3>4 DEF Over
  <2>12. CASE Calls!Recheck(r)
    BY <2>12, SMTT(30) DEF Calls!Recheck
  <2>13. CASE Calls!HandlerReturns(r)
    BY <2>13, SMTT(30) DEF Calls!HandlerReturns
  <2>14. CASE Calls!HandlerFails(r)
    <3>1. PICK code \in {"domain_error", "tool_error", "internal_error"} : Calls!Finish(r, code)
      BY <2>14, SMTT(30) DEF Calls!HandlerFails, Calls!Sanitized
    <3>2. code \in CallEnds
      BY <3>1 DEF CallEnds, Calls!Codes
    <3>3. callPc[r] \in Calls!Waiting \ {"authenticating"} /\ policy' = policy
      BY <2>14 DEF Calls!HandlerFails
    <3>4. Over(r)
      BY <3>1, <3>2, <3>3, FinishLogs
    <3> QED BY <3>3, <3>4 DEF Over
  <2>15. CASE Calls!NotConnected(r)
    BY <2>15, SMTT(30) DEF Calls!NotConnected
  <2>16. CASE Calls!AnswerNotConnected(r)
    <3>1. PICK code \in {"graph_not_connected"} : Calls!Finish(r, code)
      BY <2>16, Zenon DEF Calls!AnswerNotConnected
    <3>2. code \in CallEnds
      BY <3>1 DEF CallEnds, Calls!Codes
    <3>3. callPc[r] \in Calls!Waiting \ {"authenticating"} /\ policy' = policy
      BY <2>16 DEF Calls!AnswerNotConnected
    <3>4. Over(r)
      BY <3>1, <3>2, <3>3, FinishLogs
    <3> QED BY <3>3, <3>4 DEF Over
  <2>17. CASE Calls!Deliver(r)
    <3>1. PICK code \in {"ok", "domain_error", "tool_error"} : Calls!Finish(r, code)
      BY <2>17, SMTT(30) DEF Calls!Deliver, Calls!Sanitized
    <3>2. code \in CallEnds
      BY <3>1 DEF CallEnds, Calls!Codes
    <3>3. callPc[r] \in Calls!Waiting \ {"authenticating"} /\ policy' = policy
      BY <2>17 DEF Calls!Deliver
    <3>4. Over(r)
      BY <3>1, <3>2, <3>3, FinishLogs
    <3> QED BY <3>3, <3>4 DEF Over
  <2>18. CASE Calls!Cancel(r)
    <3>1. callPc[r] \in Calls!Waiting /\ policy' = policy
      BY <2>18 DEF Calls!Cancel
    <3>2. CASE callPc[r] \in {"authenticating", "dispatched"}
      <4>1. Calls!Refuse(r, "cancelled", <<>>)
        BY <2>18, <3>2 DEF Calls!Cancel
      <4>2. records[r] \o <<>> = records[r] /\ records[r] \in Seq(Calls!Record)
        OBVIOUS
      <4>3. records[r] \in {<<>>, <<Taken>>}
        BY <3>2
      <4>4. Ended(records[r], "cancelled")
        BY <4>3 DEF Ended
      <4>5. Over(r)
        BY <4>1, <4>2, <4>4, RefuseLogs
      <4> QED BY <3>1, <4>5 DEF Over
    <3>3. CASE callPc[r] \notin {"authenticating", "dispatched"}
      <4>1. Calls!Finish(r, "cancelled") /\ records[r] = <<Taken>>
        BY <2>18, <3>1, <3>3 DEF Calls!Cancel
      <4>2. Over(r)
        BY <4>1, FinishLogs DEF CallEnds
      <4> QED BY <3>1, <4>2 DEF Over
    <3> QED BY <3>2, <3>3
  <2>19. CASE Calls!CallSingle(r)
    <3>1. callPc' = [callPc EXCEPT ![r] = "single"] /\ policy' = policy /\ policy = "single"
      BY <2>19 DEF Calls!CallSingle
    <3>2. records' = records /\ \A q \in Requests \ {r} : answer'[q] = answer[q]
      BY <2>19 DEF Calls!CallSingle
    <3> QED BY <3>1, <3>2
  <2>20. CASE Calls!AnswerSingle(r)
    <3>1. callPc' = [callPc EXCEPT ![r] = "done"] /\ policy' = policy /\ policy = "single"
      BY <2>20 DEF Calls!AnswerSingle
    <3>2. records' = records /\ \A q \in Requests \ {r} : answer'[q] = answer[q]
      BY <2>20 DEF Calls!AnswerSingle
    <3> QED BY <3>1, <3>2
  <2> HIDE DEF CallTypes, CallValues, PolicyRead, LoggedSoFar, Calls!Waiting, Calls!Go
  <2> QED
    BY <1>1, <2>1, <2>2, <2>3, <2>4, <2>5, <2>6, <2>7, <2>8, <2>9, <2>10, <2>11,
       <2>12, <2>13, <2>14, <2>15, <2>16, <2>17, <2>18, <2>19, <2>20 DEF Calls!Step
<1>2. CASE Calls!ReadPolicy
  BY <1>2, SMTT(30) DEF Calls!ReadPolicy
<1>3. ASSUME NEW u \in Users, Calls!Change(u) PROVE LoggedSoFar' /\ records' \in [Requests -> Seq(Calls!Record)]
  BY <1>3, SMTT(30) DEF Calls!Change
<1>4. CASE UNCHANGED Calls!callVars
  BY <1>4, SMTT(30) DEF Calls!callVars
<1> HIDE DEF CallTypes, CallValues, PolicyRead, LoggedSoFar, Calls!Waiting, Calls!Go
<1> QED BY <1>1, <1>2, <1>3, <1>4 DEF Calls!Next

-----------------------------------------------------------------------------
(* ToolCall: the invariant, and what it says                                   *)

\* Before the mode is read nothing was asked for, and every invariant holds.
LEMMA CallStart == ASSUME CallAsm, Calls!Init PROVE CallInv
<1> USE DEF Calls!Init
<1>1. CallTypes
  <2>1. <<>> \in Seq(Calls!Record)
    OBVIOUS
  <2>2. CallValues
    BY DEF CallValues, Calls!Standings, Calls!Answers, Calls!Waiting
  <2>3. records \in [Requests -> Seq(Calls!Record)]
    BY <2>1
  <2> QED BY <2>2, <2>3 DEF CallTypes
<1>2. PolicyRead /\ Bound /\ LoggedSoFar
  BY DEF PolicyRead, Bound, LoggedSoFar, Calls!Waiting
<1> QED BY <1>1, <1>2 DEF CallInv

\* Every step keeps them.
LEMMA CallInvStep ==
  ASSUME CallAsm, CallInv, [Calls!Next]_Calls!callVars
  PROVE  CallInv'
BY CallTypeStep, PolicyStep, BoundStep, LoggedStep DEF CallInv, CallTypes

\* Logs of two and of three records.
LEMMA ShortLogs ==
  ASSUME NEW a, NEW b, NEW c
  PROVE  <<a>> \o (<<b>> \o <<c>>) = <<a, b, c>> /\ <<a>> \o (<<b>> \o <<>>) = <<a, b>>
<1>1. <<a>> \in Seq({a, b, c}) /\ <<b>> \in Seq({a, b, c}) /\ <<c>> \in Seq({a, b, c})
  OBVIOUS
<1>2. ASSUME NEW x \in {a, b, c}, NEW y \in {a, b, c} PROVE <<x>> \o <<y>> = <<x, y>>
  <2> DEFINE s == <<x>> \o <<y>>
  <2>1. s \in Seq({a, b, c}) /\ Len(s) = 2 /\ s[1] = x /\ s[2] = y
    BY <1>2
  <2> HIDE DEF s
  <2>2. s = [i \in 1 .. 2 |-> s[i]]
    BY <2>1
  <2>3. s = <<x, y>>
    BY <2>1, <2>2
  <2> QED BY <2>3 DEF s
<1>3. <<b>> \o <<>> = <<b>>
  BY <1>1
<1>4. <<a>> \o <<b, c>> = <<a, b, c>>
  <2> DEFINE s == <<a>> \o <<b, c>>
  <2>1. <<b, c>> \in Seq({a, b, c}) /\ Len(<<b, c>>) = 2
    OBVIOUS
  <2>2. s \in Seq({a, b, c}) /\ Len(s) = 3 /\ s[1] = a /\ s[2] = b /\ s[3] = c
    BY <1>1, <2>1
  <2> HIDE DEF s
  <2>3. s = [i \in 1 .. 3 |-> s[i]]
    BY <2>2
  <2>4. s = <<a, b, c>>
    BY <2>2, <2>3
  <2> QED BY <2>4 DEF s
<1> QED BY <1>2, <1>3, <1>4, Zenon

\* Where no record of an event is and where exactly one is.
LEMMA OneOf ==
  ASSUME NEW r, NEW event, NEW i \in DOMAIN records[r], records[r][i].event = event,
         \A j \in DOMAIN records[r] : records[r][j].event = event => j = i
  PROVE  Calls!Of(r, event) = {i} /\ Calls!Cardinality(Calls!Of(r, event)) <= 1
<1>1. Calls!Of(r, event) = {i}
  BY DEF Calls!Of
<1>2. Cardinality({i}) = 1
  BY FS_Singleton
<1> QED BY <1>1, <1>2 DEF Calls!Cardinality, Cardinality

\* No record of an event.
LEMMA NoneOf ==
  ASSUME NEW r, NEW event, \A j \in DOMAIN records[r] : records[r][j].event # event
  PROVE  Calls!Of(r, event) = {} /\ Calls!Cardinality(Calls!Of(r, event)) <= 1
<1>1. Calls!Of(r, event) = {}
  BY DEF Calls!Of
<1>2. Cardinality({}) = 0
  BY FS_EmptySet
<1> QED BY <1>1, <1>2 DEF Calls!Cardinality, Cardinality

\* The log of a request that ended tells of its answer.
LEMMA LogTells ==
  ASSUME NEW r \in Requests, Ended(records[r], answer[r])
  PROVE  LET auth == Calls!Of(r, "auth.bearer")
             calls == Calls!Of(r, "tool.call")
         IN /\ answer[r] # "raw"
            /\ Calls!Cardinality(auth) <= 1 /\ Calls!Cardinality(calls) <= 1
            /\ auth = {} => answer[r] \in {"bad_host", "request_too_large", "cancelled"}
            /\ \A c \in calls :
                 /\ records[r][c] = Calls!CallRecord(answer[r])
                 /\ \E a \in auth : a < c /\ records[r][a].outcome = "success"
            /\ calls = {} => \A a \in auth :
                  \/ answer[r] = "cancelled"
                  \/ /\ records[r][a].outcome = "success"
                     /\ answer[r] \in {"method_not_allowed", "session_not_supported"}
                  \/ records[r][a].code = answer[r]
            /\ (answer[r] = "identity_mismatch") <=>
                 (Calls!Of(r, "auth.identity_mismatch") # {})
<1> DEFINE auth == Calls!Of(r, "auth.bearer")
<1> DEFINE calls == Calls!Of(r, "tool.call")
<1> DEFINE alien == Calls!Of(r, "auth.identity_mismatch")
<1>1. CASE records[r] = <<>> /\ answer[r] \in {"bad_host", "request_too_large", "cancelled"}
  <2>1. auth = {} /\ calls = {} /\ alien = {}
    BY <1>1 DEF Calls!Of
  <2>2. Calls!Cardinality(auth) <= 1 /\ Calls!Cardinality(calls) <= 1
    BY <1>1, NoneOf
  <2> HIDE DEF auth, calls, alien
  <2> QED BY <1>1, <2>1, <2>2 DEF auth, calls, alien
<1>2. CASE \E x : /\ records[r] = <<x>> /\ x.event = "auth.bearer"
                  /\ \/ x.code = answer[r] /\ answer[r] \notin {"identity_mismatch", "raw"}
                     \/ /\ x.outcome = "success"
                        /\ answer[r] \in {"method_not_allowed", "session_not_supported"}
                     \/ answer[r] = "cancelled"
  <2>1. PICK x : /\ records[r] = <<x>> /\ x.event = "auth.bearer"
                 /\ \/ x.code = answer[r] /\ answer[r] \notin {"identity_mismatch", "raw"}
                    \/ /\ x.outcome = "success"
                       /\ answer[r] \in {"method_not_allowed", "session_not_supported"}
                    \/ answer[r] = "cancelled"
    BY <1>2
  <2>2. DOMAIN records[r] = {1} /\ records[r][1] = x
    BY <2>1
  <2>3. auth = {1} /\ Calls!Cardinality(auth) <= 1
    BY <2>1, <2>2, OneOf
  <2>4. calls = {} /\ Calls!Cardinality(calls) <= 1
    BY <2>1, <2>2, NoneOf
  <2>5. alien = {}
    BY <2>1, <2>2, NoneOf
  <2> HIDE DEF auth, calls, alien
  <2> QED BY <2>1, <2>2, <2>3, <2>4, <2>5 DEF auth, calls, alien
<1>3. CASE answer[r] \in CallEnds /\ records[r] = <<Taken>> \o Calls!CallRecords(answer[r])
  <2> DEFINE rec == Calls!CallRecord(answer[r])
  <2> DEFINE mis == Calls!Rec("auth.identity_mismatch", "denied", answer[r])
  <2>1. rec.event = "tool.call" /\ rec \in Calls!Record
    BY <1>3, RecordsAre
  <2>2. Taken.event = "auth.bearer" /\ Taken.outcome = "success" /\ mis.event = "auth.identity_mismatch"
    BY DEF Taken, Calls!Rec
  <2>3. answer[r] # "raw"
    BY <1>3 DEF CallEnds, Calls!Codes
  <2>4. records[r] = IF answer[r] = "identity_mismatch" THEN <<Taken, rec, mis>> ELSE <<Taken, rec>>
    <3> DEFINE t == Taken
    <3>1. CASE answer[r] = "identity_mismatch"
      <4>1. Calls!CallRecords(answer[r]) = <<rec>> \o <<mis>>
        BY <3>1 DEF Calls!CallRecords
      <4> HIDE DEF rec, mis
      <4> QED BY <1>3, <3>1, <4>1, ShortLogs, Zenon
    <3>2. CASE answer[r] # "identity_mismatch"
      <4>1. Calls!CallRecords(answer[r]) = <<rec>> \o <<>>
        BY <3>2 DEF Calls!CallRecords
      <4> HIDE DEF rec, mis
      <4> QED BY <1>3, <3>2, <4>1, ShortLogs, Zenon
    <3> QED BY <3>1, <3>2
  <2> HIDE DEF rec, mis
  <2>5. /\ DOMAIN records[r] = IF answer[r] = "identity_mismatch" THEN {1, 2, 3} ELSE {1, 2}
        /\ records[r][1] = Taken /\ records[r][2] = rec
        /\ answer[r] = "identity_mismatch" => records[r][3] = mis
    BY <2>4
  <2>6. auth = {1} /\ Calls!Cardinality(auth) <= 1
    BY <2>1, <2>2, <2>5, OneOf, SMTT(30)
  <2>7. calls = {2} /\ Calls!Cardinality(calls) <= 1
    BY <2>1, <2>2, <2>5, OneOf, SMTT(30)
  <2>8. alien # {} <=> answer[r] = "identity_mismatch"
    <3>1. CASE answer[r] = "identity_mismatch"
      <4>1. 3 \in DOMAIN records[r] /\ records[r][3].event = "auth.identity_mismatch"
        BY <2>2, <2>5, <3>1
      <4> QED BY <3>1, <4>1 DEF Calls!Of
    <3>2. CASE answer[r] # "identity_mismatch"
      BY <2>1, <2>2, <2>5, <3>2, NoneOf
    <3> QED BY <3>1, <3>2
  <2> HIDE DEF auth, calls, alien
  <2> QED BY <2>2, <2>3, <2>5, <2>6, <2>7, <2>8 DEF auth, calls, alien, rec
<1>4. \/ records[r] = <<>> /\ answer[r] \in {"bad_host", "request_too_large", "cancelled"}
      \/ \E x : /\ records[r] = <<x>> /\ x.event = "auth.bearer"
                /\ \/ x.code = answer[r] /\ answer[r] \notin {"identity_mismatch", "raw"}
                   \/ /\ x.outcome = "success"
                      /\ answer[r] \in {"method_not_allowed", "session_not_supported"}
                   \/ answer[r] = "cancelled"
      \/ answer[r] \in CallEnds /\ records[r] = <<Taken>> \o Calls!CallRecords(answer[r])
  <2>1. ASSUME NEW outcome, records[r] = <<Calls!Rec("auth.bearer", outcome, answer[r])>>,
               answer[r] \in {"unauthenticated", "account_inactive", "forbidden_scope", "internal_error"}
        PROVE  \E x : /\ records[r] = <<x>> /\ x.event = "auth.bearer"
                      /\ x.code = answer[r] /\ answer[r] \notin {"identity_mismatch", "raw"}
    <3> DEFINE x == Calls!Rec("auth.bearer", outcome, answer[r])
    <3>1. x.event = "auth.bearer" /\ x.code = answer[r]
      BY DEF Calls!Rec
    <3>2. answer[r] \notin {"identity_mismatch", "raw"}
      BY <2>1
    <3> HIDE DEF x
    <3> QED BY <2>1, <3>1, <3>2 DEF x
  <2>2. Taken.event = "auth.bearer" /\ Taken.outcome = "success"
    BY DEF Taken, Calls!Rec
  <2> QED BY <2>1, <2>2, Zenon DEF Ended
<1> QED BY <1>1, <1>2, <1>3, <1>4

\* With the invariant every call acts for its caller, its log tells of its answer, and
\* all values have their types.
LEMMA CallSafe ==
  ASSUME CallAsm, CallInv
  PROVE  Calls!TypeOK /\ Calls!ActsForItsCaller /\ Calls!AuditTellsTheAnswer
<1>1. Calls!TypeOK
  BY DEF CallInv, CallTypes, CallValues, Calls!TypeOK
<1>2. Calls!ActsForItsCaller
  BY DEF CallInv, CallTypes, CallValues, PolicyRead, Bound, Calls!ActsForItsCaller, Calls!Waiting
<1>3. Calls!AuditTellsTheAnswer
  BY LogTells DEF CallInv, LoggedSoFar, Calls!AuditTellsTheAnswer
<1> QED BY <1>1, <1>2, <1>3

\* A handler with a service starts, and a result leaves, only while the account is active.
LEMMA RevokedStep ==
  ASSUME CallAsm, CallInv, [Calls!Next]_Calls!callVars
  PROVE  Calls!RevokedGetsNothing
<1> USE DEF CallInv, CallTypes, CallValues, PolicyRead, Bound, Calls!Waiting, Calls!RevokedGetsNothing, Calls!Go
<1>1. ASSUME NEW r \in Requests, Calls!Step(r) PROVE Calls!RevokedGetsNothing
  <2>1. CASE Calls!Receive(r)
    <3>1. PICK pc \in {"done", "authenticating"}, a \in {"bad_host", "request_too_large", "unauthenticated"} :
             /\ callPc' = [callPc EXCEPT ![r] = pc]
             /\ answer' = [answer EXCEPT ![r] = a] \/ UNCHANGED answer
      BY <2>1, CodesAre, Zenon DEF Calls!Receive, Calls!Refuse
    <3> QED BY <3>1
  <2>2. CASE Calls!Admit(r)
    <3>1. PICK pc \in {"done", "dispatched"}, a \in {"method_not_allowed", "session_not_supported"} :
             /\ callPc' = [callPc EXCEPT ![r] = pc]
             /\ answer' = [answer EXCEPT ![r] = a] \/ UNCHANGED answer
      BY <2>2, CodesAre, Zenon DEF Calls!Admit, Calls!Refuse
    <3> QED BY <3>1
  <2>3. CASE Calls!Reject(r)
    BY <2>3, VerdictIs, SMTT(30) DEF Calls!Reject, Calls!Refuse
  <2>4. CASE Calls!RegistryFails(r)
    BY <2>4, SMTT(30) DEF Calls!RegistryFails, Calls!Refuse
  <2>5. CASE Calls!Dispatch(r)
    <3>1. PICK pc \in {"done", "checking"} :
             /\ callPc' = [callPc EXCEPT ![r] = pc]
             /\ answer' = [answer EXCEPT ![r] = "missing_principal"] \/ UNCHANGED answer
      BY <2>5, Zenon DEF Calls!Dispatch, Calls!Finish
    <3> QED BY <3>1
  <2>6. CASE Calls!CheckRefuses(r)
    BY <2>6, SMTT(30) DEF Calls!CheckRefuses, Calls!Finish
  <2>7. CASE Calls!CheckFails(r)
    BY <2>7, SMTT(30) DEF Calls!CheckFails, Calls!Finish, Calls!Finish
  <2>8. CASE Calls!CheckArguments(r)
    <3>1. PICK pc \in {"done", "leasing", "connecting"},
              a \in {"unknown_tool", "invalid_arguments", "invalid_user_email", "graph_not_connected",
                     "identity_mismatch", "unexpected_argument"} :
             /\ callPc' = [callPc EXCEPT ![r] = pc]
             /\ answer' = [answer EXCEPT ![r] = a] \/ UNCHANGED answer
      BY <2>8, CodesAre, Zenon DEF Calls!CheckArguments, Calls!Finish
    <3> QED BY <3>1
  <2>9. CASE Calls!NoService(r)
    BY <2>9, SMTT(30) DEF Calls!NoService
  <2>10. CASE Calls!Lease(r)
    BY <2>10, SMTT(30) DEF Calls!Lease
  <2>11. CASE Calls!LeaseFails(r)
    BY <2>11, SMTT(30) DEF Calls!LeaseFails, Calls!Finish
  <2>12. CASE Calls!Recheck(r)
    BY <2>12, SMTT(30) DEF Calls!Recheck, Calls!Standing
  <2>13. CASE Calls!HandlerReturns(r)
    BY <2>13, SMTT(30) DEF Calls!HandlerReturns
  <2>14. CASE Calls!HandlerFails(r)
    <3>1. PICK code \in {"domain_error", "tool_error", "internal_error"} : Calls!Finish(r, code)
      BY <2>14, SMTT(30) DEF Calls!HandlerFails, Calls!Sanitized
    <3> QED BY <3>1 DEF Calls!Finish
  <2>15. CASE Calls!NotConnected(r)
    BY <2>15, SMTT(30) DEF Calls!NotConnected
  <2>16. CASE Calls!AnswerNotConnected(r)
    BY <2>16, SMTT(30) DEF Calls!AnswerNotConnected, Calls!Finish
  <2>17. CASE Calls!Deliver(r)
    BY <2>17, SMTT(30) DEF Calls!Deliver, Calls!Finish, Calls!Finish, Calls!Sanitized, Calls!Standing
  <2>18. CASE Calls!Cancel(r)
    BY <2>18, SMTT(30) DEF Calls!Cancel, Calls!Refuse, Calls!Finish
  <2>19. CASE Calls!CallSingle(r)
    BY <2>19, SMTT(30) DEF Calls!CallSingle
  <2>20. CASE Calls!AnswerSingle(r)
    BY <2>20, SMTT(30) DEF Calls!AnswerSingle
  <2> HIDE DEF CallInv, CallTypes, CallValues, PolicyRead, Bound, Calls!Waiting, Calls!RevokedGetsNothing, Calls!Go
  <2> QED
    BY <1>1, <2>1, <2>2, <2>3, <2>4, <2>5, <2>6, <2>7, <2>8, <2>9, <2>10, <2>11,
       <2>12, <2>13, <2>14, <2>15, <2>16, <2>17, <2>18, <2>19, <2>20 DEF Calls!Step
<1>2. CASE Calls!ReadPolicy
  BY <1>2, SMTT(30) DEF Calls!ReadPolicy
<1>3. ASSUME NEW u \in Users, Calls!Change(u) PROVE Calls!RevokedGetsNothing
  BY <1>3, SMTT(30) DEF Calls!Change
<1>4. CASE UNCHANGED Calls!callVars
  BY <1>4, SMTT(30) DEF Calls!callVars
<1> HIDE DEF CallInv, CallTypes, CallValues, PolicyRead, Bound, Calls!Waiting, Calls!RevokedGetsNothing, Calls!Go
<1> QED BY <1>1, <1>2, <1>3, <1>4 DEF Calls!Next

\* The inductive invariant of the tool calls holds in every reachable state.
THEOREM CallInvariance == Calls!Spec => []CallInv
<1>1. Calls!Init => CallInv
  BY CallStart, ServerAssumption DEF CallAsm
<1>2. ASSUME CallInv, [Calls!Next]_Calls!callVars PROVE CallInv'
  <2>1. CallAsm
    BY ServerAssumption DEF CallAsm
  <2> QED BY <1>2, <2>1, CallInvStep
<1> QED BY <1>1, <1>2, PTL DEF Calls!Spec

\* Whatever context the SDK runs a message in, a call acts for the user whose key
\* came with its request, and holds no other user's service.
THEOREM CallsActForTheirCallers == Calls!Spec => []Calls!ActsForItsCaller
<1>1. CallInv => Calls!ActsForItsCaller
  BY CallSafe, ServerAssumption DEF CallAsm
<1> QED BY <1>1, CallInvariance, PTL

\* A request's records are one of its authentication and at most one of its call,
\* with the code its caller got.
THEOREM LogsTellTheAnswer == Calls!Spec => []Calls!AuditTellsTheAnswer
<1>1. CallInv => Calls!AuditTellsTheAnswer
  BY CallSafe, ServerAssumption DEF CallAsm
<1> QED BY <1>1, CallInvariance, PTL

\* A handler with a service starts, and a result leaves, only while the account is
\* active.
THEOREM TheRevokedGetNothing == Calls!Spec => [][Calls!RevokedGetsNothing]_Calls!callVars
<1>1. CallInv /\ [Calls!Next]_Calls!callVars => [Calls!RevokedGetsNothing]_Calls!callVars
  BY RevokedStep, ServerAssumption DEF CallAsm
<1> QED BY <1>1, CallInvariance, PTL DEF Calls!Spec

-----------------------------------------------------------------------------
(* The server: one component at a time                                         *)

\* Each component's invariant, while the component is at work.
ServerInv ==
  /\ part = "calls" => CallInv
  /\ part = "keys" => KeyInv
  /\ part = "boot" => BootInv
  /\ part = "plan" => PlanInv
  /\ part = "move" => MoveInv

\* The assumption on the constants, component by component.
LEMMA Assumptions == CallAsm /\ KeyAsm /\ BootAsm /\ PlanAsm /\ MoveAsm
BY ServerAssumption DEF CallAsm, KeyAsm, BootAsm, PlanAsm, MoveAsm

\* A step is one of the component at work.
LEMMA OneAtATime ==
  ASSUME [Next]_vars
  PROVE  /\ part' = part
         /\ part = "calls" => [Calls!Next]_Calls!callVars
         /\ part = "keys" => [Keys!KeyNext]_Keys!keyVars
         /\ part = "boot" => [Boot!BootNext]_Boot!bootVars
         /\ part = "plan" => [Plan!PlanNext]_Plan!assignVars
         /\ part = "move" => [Move!MigrationNext]_Move!migrationVars
<1> USE DEF Next, CallStep, KeyStep, BootStep, PlanStep, MoveStep, vars
<1>1. part' = part
  OBVIOUS
<1>2. part = "calls" => [Calls!Next]_Calls!callVars
  BY DEF callVars, Calls!callVars
<1>3. part = "keys" => [Keys!KeyNext]_Keys!keyVars
  BY DEF keyVars, Keys!keyVars
<1>4. part = "boot" => [Boot!BootNext]_Boot!bootVars
  BY DEF bootVars, Boot!bootVars
<1>5. part = "plan" => [Plan!PlanNext]_Plan!assignVars
  <2> SUFFICES ASSUME part = "plan" PROVE [Plan!PlanNext]_Plan!assignVars
    OBVIOUS
  <2>1. PlanStep \/ UNCHANGED vars
    OBVIOUS
  <2>2. CASE UNCHANGED vars
    <3>1. UNCHANGED planVars
      BY <2>2
    <3>2. UNCHANGED Plan!assignVars
      BY <3>1 DEF planVars, Plan!assignVars, Plan!mapVars, Plan!rowVars
    <3> QED BY <3>2
  <2> QED BY <2>1, <2>2
<1>6. part = "move" => [Move!MigrationNext]_Move!migrationVars
  <2> SUFFICES ASSUME part = "move" PROVE [Move!MigrationNext]_Move!migrationVars
    OBVIOUS
  <2>1. MoveStep \/ UNCHANGED vars
    OBVIOUS
  <2>2. CASE UNCHANGED vars
    <3>1. UNCHANGED moveVars
      BY <2>2
    <3>2. UNCHANGED Move!migrationVars
      BY <3>1 DEF moveVars, Move!migrationVars, Move!legacyVars, Move!accountVars,
            Move!planVars, Move!applyVars
    <3> QED BY <3>2
  <2> QED BY <2>1, <2>2
<1> QED BY <1>1, <1>2, <1>3, <1>4, <1>5, <1>6

\* The inductive invariant of the server holds in every reachable state.
THEOREM ServerInvariance == Spec => []ServerInv
<1>1. Init => ServerInv
  <2> SUFFICES ASSUME Init PROVE ServerInv
    OBVIOUS
  <2>1. ASSUME part = "calls" PROVE CallInv
    BY <2>1, CallStart, Assumptions DEF Init
  <2>2. ASSUME part = "keys" PROVE KeyInv
    BY <2>2, KeyStart, Assumptions DEF Init
  <2>3. ASSUME part = "boot" PROVE BootInv
    BY <2>3, BootStart, Assumptions DEF Init
  <2>4. ASSUME part = "plan" PROVE PlanInv
    BY <2>4, PlanStart, Assumptions DEF Init
  <2>5. ASSUME part = "move" PROVE MoveInv
    BY <2>5, MoveStart, Assumptions DEF Init
  <2> QED BY <2>1, <2>2, <2>3, <2>4, <2>5 DEF ServerInv
<1>2. ASSUME ServerInv, [Next]_vars PROVE ServerInv'
  <2>1. ASSUME part = "calls" PROVE CallInv'
    BY <1>2, <2>1, OneAtATime, CallInvStep, Assumptions DEF ServerInv
  <2>2. ASSUME part = "keys" PROVE KeyInv'
    BY <1>2, <2>2, OneAtATime, KeyInvStep, Assumptions DEF ServerInv
  <2>3. ASSUME part = "boot" PROVE BootInv'
    BY <1>2, <2>3, OneAtATime, BootInvStep, Assumptions DEF ServerInv
  <2>4. ASSUME part = "plan" PROVE PlanInv'
    BY <1>2, <2>4, OneAtATime, PlanInvStep, Assumptions DEF ServerInv
  <2>5. ASSUME part = "move" PROVE MoveInv'
    BY <1>2, <2>5, OneAtATime, MoveInvStep, Assumptions DEF ServerInv
  <2> QED BY <1>2, OneAtATime, <2>1, <2>2, <2>3, <2>4, <2>5 DEF ServerInv
<1> QED BY <1>1, <1>2, PTL DEF Spec

\* Every variable of the component at work keeps its type.
THEOREM ServerTypeCorrect == Spec => []TypeOK
<1>1. ServerInv => TypeOK
  <2> SUFFICES ASSUME ServerInv PROVE TypeOK
    OBVIOUS
  <2>1. part = "calls" => Calls!TypeOK
    BY CallSafe, Assumptions DEF ServerInv
  <2>2. part = "keys" => Keys!KeyTypeOK
    BY DEF ServerInv, KeyInv, KeyTypes
  <2>3. part = "boot" => Boot!BootTypeOK
    BY DEF ServerInv, BootInv, BootTypes
  <2>4. part = "plan" => Plan!PlanTypeOK
    BY PlanSafe, Assumptions DEF ServerInv
  <2>5. part = "move" => Move!MigrationTypeOK
    BY MoveSafe DEF ServerInv
  <2> QED BY <2>1, <2>2, <2>3, <2>4, <2>5 DEF TypeOK
<1> QED BY <1>1, ServerInvariance, PTL

\* Processes that start at once on one data root agree on one deployment, a server
\* answers only with the environment and the stores it may serve, and its health names
\* exactly the services that are up.
THEOREM StartsAreSafe == Spec => []StartsSafely
<1>1. ServerInv => StartsSafely
  <2> SUFFICES ASSUME ServerInv, part = "boot"
               PROVE  Boot!OneDeployment /\ Boot!ServesOnlySafely /\ Boot!HealthIsTrue
    BY DEF StartsSafely
  <2>1. BootInv
    BY DEF ServerInv
  <2> QED BY <2>1, BootSafe, Assumptions DEF BootInv
<1> QED BY <1>1, ServerInvariance, PTL

\* Sealed records and the key in the file stay a pair, and open where they belong.
THEOREM KeysAlwaysFit == Spec => []KeysFit
<1>1. ServerInv => KeysFit
  BY KeySafe DEF ServerInv, KeysFit
<1> QED BY <1>1, ServerInvariance, PTL

\* A tool call acts for its caller alone, whatever context the SDK leaves behind, what
\* the audit log says of it is what its caller was answered, and a caller revoked while
\* it runs gets no result.
THEOREM CallsStayTheCallers == Spec => CallsAreTheCallers
<1>1. ServerInv => (part = "calls" => Calls!ActsForItsCaller /\ Calls!AuditTellsTheAnswer)
  BY CallSafe, Assumptions DEF ServerInv
<1>2. ServerInv /\ [Next]_vars => [part = "calls" => Calls!RevokedGetsNothing]_vars
  BY OneAtATime, RevokedStep, Assumptions DEF ServerInv
<1> QED BY <1>1, <1>2, ServerInvariance, PTL DEF Spec, CallsAreTheCallers

\* The plan gives every row, file and record to one user or sets it aside, and to nobody
\* whose it is not; however often apply and activate are killed and run again, nothing is
\* moved twice, a run that completes has moved what was planned, and what the users had
\* already stays.
THEOREM MigrationIsSafe == Spec => MigrationKeepsData
<1>1. ServerInv => (part = "plan" => Plan!EachRowOnce /\ Plan!NobodyGetsAnothers)
  BY PlacedOnce, PlanSafe, Assumptions DEF ServerInv
<1>2. ServerInv => (part = "move" => Move!NothingTwice)
  BY MoveSafe DEF ServerInv
<1>3. ServerInv /\ [Next]_vars =>
        [part = "move" => Move!CompletesAsPlanned /\ Move!OwnDataKept]_vars
  BY OneAtATime, CompletesStep, OwnKeptStep, Assumptions DEF ServerInv
<1> QED BY <1>1, <1>2, <1>3, ServerInvariance, PTL DEF Spec, MigrationKeepsData

=============================================================================
