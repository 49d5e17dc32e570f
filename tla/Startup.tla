------------------------------- MODULE Startup -------------------------------
(* How the processes of a deployment start and stop: the domain servers (HTTP   *)
(* and stdio), the authentication gateway and the administrator's command line, *)
(* over one data root with its deployment marker (security_policy, bootstrap,   *)
(* http_transport, stdio_transport, runtime's ServiceLifecycle, app_settings,   *)
(* auth_gateway, admin_cli).                                                     *)
(* A process's environment is its mode and what is wrong in it; it is read again *)
(* at the next start.                                                            *)
EXTENDS Integers, Sequences, FiniteSets, SequencesExt

CONSTANTS Starters,     \* the processes
          KindOf,       \* process -> "http", "stdio", "gateway", "cli"
          Services,     \* a server's services in the order of its lifecycle
          Legacy,       \* those of them that open a store of mode 0
          Environments, \* [mode : {"single", "multi", "bad"}, flaws : SUBSET EnvFlaws]
          MaxIds        \* bound: deployment ids drawn

NoId == 0
Absent == 0
Partial == -1     \* created, and not written yet
Foreign == -2     \* no marker of the multi-user format
IsId(m) == m > 0

EnvFlaws == {"root", "conflict", "validation", "settings", "kek", "limit",
             "registry", "port", "override"}

VARIABLES env,       \* process -> its environment
          bootPc,    \* process -> where its start or stop is
          bootId,    \* process -> the deployment id it goes by
          ready,     \* process -> services whose initialize succeeded
          failed,    \* process -> services whose initialize did not: errors
          closed,    \* process -> services close was called on since the start
          at,        \* process -> the service whose turn it is
          marker,    \* deployment.json: Absent, Partial, Foreign or an id
          frozen,    \* .migration_lock beside the stores of mode 0
          ids        \* ids drawn so far

bootVars == <<env, bootPc, bootId, ready, failed, closed, at, marker, frozen, ids>>

N == Len(Services)
BootPcs == {"off", "refused", "crashed", "check", "look", "create", "write", "read",
            "prepare", "start", "serve", "stop", "pool", "done"}

BootAssumption ==
  /\ KindOf \in [Starters -> {"http", "stdio", "gateway", "cli"}]
  /\ Services \in Seq(ToSet(Services)) /\ \A i, j \in 1 .. N : Services[i] = Services[j] => i = j
  /\ Environments # {}
  /\ Environments \subseteq [mode : {"single", "multi", "bad"}, flaws : SUBSET EnvFlaws]
  /\ MaxIds \in Nat

BootTypeOK ==
  /\ env \in [Starters -> Environments] /\ bootPc \in [Starters -> BootPcs]
  /\ bootId \in [Starters -> 0 .. MaxIds]
  /\ \A p \in Starters : /\ ready[p] \cap failed[p] = {}
                         /\ ready[p] \cup failed[p] \cup closed[p] \subseteq ToSet(Services)
  /\ at \in [Starters -> 0 .. N + 1]
  /\ marker \in Foreign .. MaxIds
  /\ frozen \in BOOLEAN /\ ids \in 0 .. MaxIds

BootInit ==
  /\ env = [p \in Starters |-> CHOOSE e \in Environments : TRUE]
  /\ bootPc = [p \in Starters |-> "off"]
  /\ bootId = [p \in Starters |-> NoId]
  /\ ready = [p \in Starters |-> {}] /\ failed = [p \in Starters |-> {}]
  /\ closed = [p \in Starters |-> {}] /\ at = [p \in Starters |-> 0]
  /\ marker \in {Absent, Foreign} /\ frozen \in BOOLEAN /\ ids = 0

Multi(p) == env[p].mode = "multi"
Has(p, f) == f \in env[p].flaws
Goto(p, pc) == bootPc' = [bootPc EXCEPT ![p] = pc]
Disk == <<marker, frozen, ids>>
Lifecycle == <<ready, failed, closed, at>>

-----------------------------------------------------------------------------
\* What a process has in memory when it starts is nothing, and so when it is killed.
Blank(p) ==
  /\ bootId' = [bootId EXCEPT ![p] = NoId]
  /\ ready' = [ready EXCEPT ![p] = {}] /\ failed' = [failed EXCEPT ![p] = {}]
  /\ closed' = [closed EXCEPT ![p] = {}]

\* A process starts with the environment it finds and reads its policy: an unknown
\* mode, or multi-user mode without an absolute data root, is refused; so are the
\* gateway and the command line in mode 0.
Boot(p) ==
  /\ bootPc[p] \in {"off", "refused", "crashed", "done"}
  /\ \E e \in Environments :
       /\ env' = [env EXCEPT ![p] = e]
       /\ Goto(p, IF e.mode = "bad" \/ (e.mode = "multi" /\ "root" \in e.flaws)
                     \/ (e.mode = "single" /\ KindOf[p] \in {"gateway", "cli"})
                  THEN "refused"
                  ELSE IF KindOf[p] = "cli" THEN "look"
                  ELSE IF e.mode = "multi" THEN "check" ELSE "start")
  /\ Blank(p) /\ at' = [at EXCEPT ![p] = 1]
  /\ UNCHANGED Disk

\* Mutant: a server that speaks stdio counts as one user's own.
ProblemsOverHttp(p) == {"conflict", "validation", "settings", "kek"} \cap env[p].flaws
\* startup_problems: what a process must not have in multi-user mode.
Problems(p) == ({"conflict", "validation", "settings", "kek"} \cap env[p].flaws)
               \cup (IF KindOf[p] = "stdio" THEN {"stdio"} ELSE {})

\* validate_startup before it touches the disk.
ValidateStartup(p) ==
  /\ bootPc[p] = "check"
  /\ Goto(p, IF Problems(p) = {} THEN "look" ELSE "refused")
  /\ UNCHANGED <<env, bootId, Lifecycle, Disk>>

\* ensure_deployment, one file operation at a time.
LookForMarker(p) ==
  /\ bootPc[p] = "look"
  /\ Goto(p, IF marker = Absent THEN "create" ELSE "read")
  /\ UNCHANGED <<env, bootId, Lifecycle, Disk>>

CreateMarkerOver(p) ==
  /\ bootPc[p] = "create"
  /\ marker' = Partial /\ Goto(p, "write")
  /\ UNCHANGED <<env, bootId, Lifecycle, frozen, ids>>
\* open(..., "x"): who comes second reads what the first one makes.
CreateMarker(p) ==
  /\ bootPc[p] = "create"
  /\ IF marker = Absent THEN marker' = Partial /\ Goto(p, "write")
     ELSE Goto(p, "read") /\ UNCHANGED marker
  /\ UNCHANGED <<env, bootId, Lifecycle, frozen, ids>>

WriteMarker(p) ==
  /\ bootPc[p] = "write" /\ ids < MaxIds
  /\ ids' = ids + 1 /\ marker' = ids + 1
  /\ Goto(p, "read")
  /\ UNCHANGED <<env, bootId, Lifecycle, frozen>>

\* A marker that is cut off or of another format stops the start.
ReadMarker(p) ==
  /\ bootPc[p] = "read"
  /\ IF IsId(marker)
     THEN bootId' = [bootId EXCEPT ![p] = marker] /\ Goto(p, "prepare")
     ELSE Goto(p, "refused") /\ UNCHANGED bootId
  /\ UNCHANGED <<env, Lifecycle, Disk>>

\* The rest of what comes before a port is open: a server's size limit and the
\* presence of the registry, the gateway's port, the command line's init.
Prepare(p) ==
  /\ bootPc[p] = "prepare"
  /\ Goto(p, CASE KindOf[p] = "cli" -> "done"
               [] KindOf[p] = "gateway" -> IF Has(p, "port") THEN "refused" ELSE "serve"
               [] OTHER -> IF Has(p, "limit") \/ Has(p, "registry") THEN "refused" ELSE "start")
  /\ UNCHANGED <<env, bootId, Lifecycle, Disk>>

-----------------------------------------------------------------------------
\* A store of mode 0 is refused in multi-user mode, and while it is frozen unless
\* the operator overrides that.
MayOpen(p, s) == s \in Legacy => ~Multi(p) /\ (frozen => Has(p, "override"))

\* Mutant: a service that failed is tried again, its error still noted.
StartServiceRetried(p) ==
  /\ bootPc[p] = "start" /\ at[p] <= N
  /\ LET s == Services[at[p]] IN
       \/ /\ MayOpen(p, s)
          /\ ready' = [ready EXCEPT ![p] = @ \cup {s}] /\ at' = [at EXCEPT ![p] = @ + 1]
          /\ UNCHANGED failed
       \/ failed' = [failed EXCEPT ![p] = @ \cup {s}] /\ UNCHANGED <<ready, at>>
  /\ UNCHANGED <<env, bootPc, bootId, closed, Disk>>
\* ServiceLifecycle.startup: one service after the other; an error is noted and
\* the next one's turn comes.
StartService(p) ==
  /\ bootPc[p] = "start" /\ at[p] <= N
  /\ LET s == Services[at[p]] IN
       \/ /\ MayOpen(p, s)
          /\ ready' = [ready EXCEPT ![p] = @ \cup {s}] /\ UNCHANGED failed
       \/ failed' = [failed EXCEPT ![p] = @ \cup {s}] /\ UNCHANGED ready
  /\ at' = [at EXCEPT ![p] = @ + 1]
  /\ UNCHANGED <<env, bootPc, bootId, closed, Disk>>

Started(p) ==
  /\ bootPc[p] = "start" /\ at[p] = N + 1
  /\ Goto(p, "serve")
  /\ UNCHANGED <<env, bootId, Lifecycle, Disk>>

\* /health: 200 when every service came up, 503 otherwise.
Health(p) == bootPc[p] = "serve" /\ failed[p] = {}

\* The server ends by a signal, the end of its input or an error.
StopServing(p) ==
  /\ bootPc[p] = "serve"
  /\ IF KindOf[p] = "gateway" THEN Goto(p, "done") /\ UNCHANGED at
     ELSE Goto(p, "stop") /\ at' = [at EXCEPT ![p] = N]
  /\ UNCHANGED <<env, bootId, ready, failed, closed, Disk>>

CloseServiceOrGiveUp(p) ==
  /\ bootPc[p] = "stop"
  /\ IF at[p] = 0 THEN Goto(p, IF Multi(p) THEN "pool" ELSE "done") /\ UNCHANGED <<closed, at>>
     ELSE /\ closed' = [closed EXCEPT ![p] = @ \cup {Services[at[p]]}]
          /\ \/ at' = [at EXCEPT ![p] = @ - 1] /\ UNCHANGED bootPc
             \/ Goto(p, "done") /\ UNCHANGED at
  /\ UNCHANGED <<env, bootId, ready, failed, Disk>>
\* ServiceLifecycle.shutdown, last service first; an error of close does not keep
\* the others open.
CloseService(p) ==
  /\ bootPc[p] = "stop"
  /\ IF at[p] = 0 THEN Goto(p, IF Multi(p) THEN "pool" ELSE "done") /\ UNCHANGED <<closed, at>>
     ELSE /\ closed' = [closed EXCEPT ![p] = @ \cup {Services[at[p]]}]
          /\ at' = [at EXCEPT ![p] = @ - 1] /\ UNCHANGED bootPc
  /\ UNCHANGED <<env, bootId, ready, failed, Disk>>

\* The pool is closed whatever it raises.
ClosePool(p) ==
  /\ bootPc[p] = "pool" /\ Goto(p, "done")
  /\ UNCHANGED <<env, bootId, Lifecycle, Disk>>

Crash(p) ==
  /\ bootPc[p] \notin {"off", "refused", "crashed", "done"}
  /\ Goto(p, "crashed") /\ Blank(p) /\ at' = [at EXCEPT ![p] = 0]
  /\ env' = [env EXCEPT ![p] = CHOOSE e \in Environments : TRUE]
  /\ UNCHANGED Disk

\* The migration tool freezes the stores of mode 0 and unlocks them.
FreezeLegacy ==
  /\ frozen' = ~frozen
  /\ UNCHANGED <<env, bootPc, bootId, Lifecycle, marker, ids>>

BootNext ==
  \/ \E p \in Starters :
       \/ Boot(p) \/ ValidateStartup(p) \/ LookForMarker(p) \/ CreateMarker(p)
       \/ WriteMarker(p) \/ ReadMarker(p) \/ Prepare(p) \/ StartService(p) \/ Started(p)
       \/ StopServing(p) \/ CloseService(p) \/ ClosePool(p) \/ Crash(p)
  \/ FreezeLegacy

BootSpec == BootInit /\ [][BootNext]_bootVars

-----------------------------------------------------------------------------
\* Processes that start together on an empty data root go by one deployment id,
\* the one on the disk: records sealed by one open in the other.
OneDeployment == \A p \in Starters : bootId[p] # NoId => bootId[p] = marker

\* In multi-user mode nothing that serves has come past a check: no stdio server,
\* no leftover of mode 0 in its environment, no store of mode 0 open.
ServesOnlySafely ==
  \A p \in Starters : bootPc[p] \in {"start", "serve", "stop", "pool"} /\ Multi(p) =>
    /\ KindOf[p] # "stdio" /\ bootId[p] # NoId
    /\ env[p].flaws \cap {"root", "conflict", "validation", "settings", "kek"} = {}
    /\ ready[p] \cap Legacy = {}

\* A server answers "healthy" only with all of its services up, and one that ended
\* in order has called close on each of them, whatever the others raised.
HealthIsTrue ==
  \A p \in Starters : KindOf[p] \in {"http", "stdio"} =>
    /\ Health(p) => ready[p] = ToSet(Services)
    /\ bootPc[p] = "done" => ready[p] \subseteq closed[p]

\* Whoever made the marker, a start finds it whole or not at all. False: it is
\* created empty and filled by a second operation.
MarkerIsWhole == \A p \in Starters : bootPc[p] = "read" => marker # Partial

=============================================================================
