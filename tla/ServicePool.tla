----------------------------- MODULE ServicePool -----------------------------
(***************************************************************************)
(* The per-user service pool of one server process (mcp_common/            *)
(* service_pool.py).  Everything runs in one event loop and no section     *)
(* under the pool's asyncio lock awaits, so an action is what a task does  *)
(* from one await to the next.  Abstracted: an entry is named by the       *)
(* request that creates it; its lease counter is the set of the requests   *)
(* counted in; the state of its close joins the closed flag, the per-user  *)
(* closing counter and the list of failed closes.  Which idle entry is the *)
(* least recently used, and which have outlived the idle time, is left     *)
(* open.  A request does one lease, a drainer one drain.                   *)
(***************************************************************************)
EXTENDS FiniteSets, Integers

CONSTANTS
    Users,
    Requests,         \* callers of lease(), one lease each
    Drainers,         \* callers of drain(), one drain each
    KeyOf,            \* request -> its user and auth_epoch (one domain per process)
    DrainOf,          \* drainer -> the user it drains
    MaxEntries,       \* max_entries
    PerUser,          \* per_user_concurrency
    Cancellable,      \* requests whose client may cancel them
    NoEntry

PoolAssumption ==
    /\ KeyOf \in [Requests -> [user : Users, epoch : Nat]]
    /\ DrainOf \in [Drainers -> Users]
    /\ MaxEntries \in Nat \ {0} /\ PerUser \in Nat \ {0}
    /\ Cancellable \subseteq Requests
    /\ NoEntry \notin Requests
    /\ Requests \cap Drainers = {}
    /\ IsFiniteSet(Requests)

VARIABLES
    pool,       \* the entries in _entries
    ready,      \* entry -> its creation future
    close,      \* entry -> how far its close is
    invalid,    \* the entries marked invalid
    leases,     \* entry -> the requests counted in its leases
    draining,   \* _draining
    pc,         \* request or drainer -> where its task is
    entry,      \* request -> the entry it leases
    waits,      \* request or drainer -> the closes its gather still waits for
    stale       \* history, read by no action: the requests that leased an entry
                \* which their own look-up had just collected as expired

poolVars == <<pool, ready, close, invalid, leases>>
vars == <<pool, ready, close, invalid, leases, draining, pc, entry, waits, stale>>

Callers == Requests \cup Drainers
Leasing == {"evicting", "creating", "undoing", "waiting", "queued", "using"}

TypeOK ==
    /\ pool \subseteq Requests
    /\ ready \in [Requests -> {"none", "pending", "ok", "failed"}]
    /\ close \in [Requests -> {"open", "queued", "closing", "closed", "failed"}]
    /\ invalid \subseteq Requests
    /\ leases \in [Requests -> SUBSET Requests]
    /\ draining \subseteq Users
    /\ pc \in [Callers -> Leasing \cup
                 {"idle", "done", "invalidate", "drain", "poll", "retry", "true", "false"}]
    /\ entry \in [Requests -> Requests \cup {NoEntry}]
    /\ waits \in [Callers -> SUBSET Requests]
    /\ stale \subseteq Requests

Init ==
    /\ pool = {} /\ invalid = {} /\ draining = {} /\ stale = {}
    /\ ready = [e \in Requests |-> "none"]
    /\ close = [e \in Requests |-> "open"]
    /\ leases = [e \in Requests |-> {}]
    /\ pc = [c \in Callers |-> "idle"]
    /\ entry = [r \in Requests |-> NoEntry]
    /\ waits = [c \in Callers |-> {}]

-----------------------------------------------------------------------------
UserOf(e) == KeyOf[e].user
Same(e, f) == KeyOf[e] = KeyOf[f]
Entries(u) == {e \in Requests : UserOf(e) = u}

\* Mutant: the leases are not looked at.
IdleAny == {e \in pool : ready[e] # "pending"}
\* Entries that may be evicted: no lease, and not being created.
Idle == {e \in pool : leases[e] = {} /\ ready[e] # "pending"}

Using(e) == {r \in Requests : pc[r] = "using" /\ entry[r] = e}
SlotFree(e) == Cardinality(Using(e)) < PerUser

Closing(u) == {e \in Entries(u) : close[e] \in {"queued", "closing"}}
\* Mutant: closes under way do not count.
InflightLeases(u) == \E e \in pool \cap Entries(u) : leases[e] # {}
\* inflight(user) > 0
Inflight(u) == (\E e \in pool \cap Entries(u) : leases[e] # {}) \/ Closing(u) # {}
FailedOf(u) == {e \in Entries(u) : close[e] = "failed"}

\* A close task is started for each; one that was closed already does nothing.
ScheduleClose(S) ==
    close' = [e \in Requests |-> IF e \in S /\ close[e] = "open" THEN "queued" ELSE close[e]]

Goto(c, label, S) ==
    /\ pc' = [pc EXCEPT ![c] = label]
    /\ waits' = [waits EXCEPT ![c] = S]

-----------------------------------------------------------------------------
(* lease(): the section under the lock.                                     *)

\* Mutant: admission ignores the drains.
AdmittedAlways(r) == TRUE
Admitted(r) == UserOf(r) \notin draining

\* The entries of the request's user at any other epoch stop being leased.
Superseded(r) == {e \in pool : UserOf(e) = UserOf(r) /\ ~Same(e, r)}
Marked(r) == invalid \cup Superseded(r)

\* The sets of entries one call of _collect_evictable may remove: idle ones that are
\* marked, and those idle for longer than idle_ttl_seconds.
Collected(r) == {Idle \cap (Marked(r) \cup old) : old \in SUBSET Idle}

RefuseDraining(r) ==
    /\ pc[r] = "idle" /\ ~Admitted(r)
    /\ Goto(r, "done", {})
    /\ UNCHANGED <<poolVars, draining, entry, stale>>

RefuseInvalid(r) ==
    /\ pc[r] = "idle" /\ Admitted(r)
    /\ \E e \in pool \cap invalid : Same(e, r)
    /\ invalid' = Marked(r)
    /\ Goto(r, "done", {})
    /\ UNCHANGED <<pool, ready, close, leases, draining, entry, stale>>

\* The entry is looked up before the expired ones are collected, and may be one of
\* them: it is leased all the same, out of the pool and about to be closed.
Join(r) ==
    /\ pc[r] = "idle" /\ Admitted(r)
    /\ \E e \in pool \ invalid, gone \in Collected(r) :
         /\ Same(e, r)
         /\ pool' = pool \ gone
         /\ ScheduleClose(gone)
         /\ leases' = [leases EXCEPT ![e] = @ \cup {r}]
         /\ entry' = [entry EXCEPT ![r] = e]
         /\ Goto(r, IF gone = {} THEN "waiting" ELSE "evicting", gone)
         /\ stale' = IF e \in gone THEN stale \cup {r} ELSE stale
    /\ invalid' = Marked(r)
    /\ UNCHANGED <<ready, draining>>

\* Idle entries give way until there is room.
Victims(gone) ==
    {v \in SUBSET (Idle \ gone) :
        LET left == pool \ (gone \cup v)
        IN  /\ Cardinality(left) < MaxEntries
            /\ v # {} => Cardinality(left) = MaxEntries - 1}

Create(r) ==
    /\ pc[r] = "idle" /\ Admitted(r)
    /\ \A e \in pool : ~Same(e, r)
    /\ \E gone \in Collected(r) : \E v \in Victims(gone) :
         /\ pool' = (pool \ (gone \cup v)) \cup {r}
         /\ ScheduleClose(gone \cup v)
         /\ Goto(r, IF gone \cup v = {} THEN "creating" ELSE "evicting", gone \cup v)
    /\ invalid' = Marked(r)
    /\ ready' = [ready EXCEPT ![r] = "pending"]
    /\ leases' = [leases EXCEPT ![r] = {r}]
    /\ entry' = [entry EXCEPT ![r] = r]
    /\ UNCHANGED <<draining, stale>>

\* Every entry is in use; what was collected all the same is closed.
Overloaded(r) ==
    /\ pc[r] = "idle" /\ Admitted(r)
    /\ \A e \in pool : ~Same(e, r)
    /\ \E gone \in Collected(r) :
         /\ Victims(gone) = {}
         /\ pool' = pool \ gone
         /\ ScheduleClose(gone)
    /\ invalid' = Marked(r)
    /\ Goto(r, "done", {})
    /\ UNCHANGED <<ready, leases, draining, entry, stale>>

-----------------------------------------------------------------------------
(* lease(): from there to the end of the body.                              *)

EvictionDone(r) ==
    /\ pc[r] = "evicting" /\ waits[r] = {}
    /\ Goto(r, IF entry[r] = r THEN "creating" ELSE "waiting", {})
    /\ UNCHANGED <<poolVars, draining, entry, stale>>

\* Mutant: a falsy result of initialize() passes for a service.
CreateFalsy(r) ==
    /\ pc[r] = "creating"
    /\ ready' = [ready EXCEPT ![r] = "falsy"]
    /\ Goto(r, "waiting", {})
    /\ UNCHANGED <<pool, close, invalid, leases, draining, entry, stale>>

CreateOk(r) ==
    /\ pc[r] = "creating"
    /\ ready' = [ready EXCEPT ![r] = "ok"]
    /\ Goto(r, "waiting", {})
    /\ UNCHANGED <<pool, close, invalid, leases, draining, entry, stale>>

\* Mutant: the future is left open for those who wait for it.
CreateFailsSilently(r) ==
    /\ pc[r] = "creating"
    /\ pool' = pool \ {r}
    /\ ScheduleClose({r})
    /\ Goto(r, "undoing", {r})
    /\ UNCHANGED <<ready, invalid, leases, draining, entry, stale>>

\* The factory or initialize() fails, or the creator is cancelled there.
CreateFails(r) ==
    /\ pc[r] = "creating"
    /\ ready' = [ready EXCEPT ![r] = "failed"]
    /\ pool' = pool \ {r}
    /\ ScheduleClose({r})
    /\ Goto(r, "undoing", {r})
    /\ UNCHANGED <<invalid, leases, draining, entry, stale>>

\* Mutant: the last lease removes the entry and leaves its service open.
ReleaseForgets(r) ==
    LET e == entry[r]
        last == e \in pool \cap invalid /\ leases[e] = {r}
    IN  /\ leases' = [leases EXCEPT ![e] = @ \ {r}]
        /\ pool' = pool \ (IF last THEN {e} ELSE {})
        /\ Goto(r, "done", {})
        /\ UNCHANGED <<ready, close, invalid, draining, entry, stale>>

\* The finally block: the last lease of an invalid entry closes it.
Release(r) ==
    LET e == entry[r]
        last == e \in pool \cap invalid /\ leases[e] = {r}
    IN  /\ leases' = [leases EXCEPT ![e] = @ \ {r}]
        /\ pool' = pool \ (IF last THEN {e} ELSE {})
        /\ ScheduleClose(IF last THEN {e} ELSE {})
        /\ Goto(r, "done", {})
        /\ UNCHANGED <<ready, invalid, draining, entry, stale>>

GiveUp(r) == pc[r] = "undoing" /\ waits[r] = {} /\ Release(r)

CreationFailed(r) == pc[r] = "waiting" /\ ready[entry[r]] = "failed" /\ Release(r)

TakeSlot(r) ==
    /\ \/ pc[r] = "waiting" /\ ready[entry[r]] = "ok"
       \/ pc[r] = "queued"
    /\ SlotFree(entry[r])
    /\ Goto(r, "using", {})
    /\ UNCHANGED <<poolVars, draining, entry, stale>>

AwaitSlot(r) ==
    /\ pc[r] = "waiting" /\ ready[entry[r]] = "ok"
    /\ ~SlotFree(entry[r])
    /\ Goto(r, "queued", {})
    /\ UNCHANGED <<poolVars, draining, entry, stale>>

SlotTimeout(r) == pc[r] = "queued" /\ Release(r)

Finish(r) == pc[r] = "using" /\ Release(r)

\* Cancelled where it awaits; what it waited for goes on.
Cancel(r) ==
    /\ r \in Cancellable
    /\ \/ pc[r] \in Leasing \ {"creating"} /\ Release(r)
       \/ CreateFails(r)

-----------------------------------------------------------------------------
(* The close tasks.                                                         *)

CloseStart(e) ==
    /\ close[e] = "queued"
    /\ close' = [close EXCEPT ![e] = "closing"]
    /\ UNCHANGED <<pool, ready, invalid, leases, draining, pc, entry, waits, stale>>

CloseEnd(e) ==
    /\ close[e] = "closing"
    /\ \E result \in {"closed", "failed"} : close' = [close EXCEPT ![e] = result]
    /\ waits' = [c \in Callers |-> waits[c] \ {e}]
    /\ UNCHANGED <<pool, ready, invalid, leases, draining, pc, entry, stale>>

-----------------------------------------------------------------------------
(* drain()                                                                  *)

DrainStart(d) ==
    /\ pc[d] = "idle"
    /\ draining' = draining \cup {DrainOf[d]}
    /\ Goto(d, "invalidate", {})
    /\ UNCHANGED <<poolVars, entry, stale>>

\* invalidate(): all the user's entries; the idle ones are closed at once.
Invalidate(u) ==
    LET gone == Idle \cap Entries(u)
    IN  /\ invalid' = invalid \cup (pool \cap Entries(u))
        /\ pool' = pool \ gone

DrainInvalidate(d) ==
    /\ pc[d] = "invalidate"
    /\ Invalidate(DrainOf[d])
    /\ ScheduleClose(Idle \cap Entries(DrainOf[d]))
    /\ Goto(d, "drain", Idle \cap Entries(DrainOf[d]))
    /\ UNCHANGED <<ready, leases, draining, entry, stale>>

DrainWaits(d) ==
    /\ pc[d] = "drain" /\ waits[d] = {}
    /\ Goto(d, "poll", {})
    /\ UNCHANGED <<poolVars, draining, entry, stale>>

\* Nothing in flight: invalidate() once more, and the failed closes are taken from
\* their list and tried again.  (Two waits in a row; here they are one.)
DrainEmpty(d) ==
    LET gone == Idle \cap Entries(DrainOf[d])
        again == FailedOf(DrainOf[d])
    IN  /\ pc[d] = "poll" /\ ~Inflight(DrainOf[d])
        /\ Invalidate(DrainOf[d])
        /\ close' = [e \in Requests |-> IF e \in gone \cup again THEN "queued" ELSE close[e]]
        /\ Goto(d, "retry", gone \cup again)
        /\ UNCHANGED <<ready, leases, draining, entry, stale>>

DrainEnd(d, result) ==
    /\ draining' = draining \ {DrainOf[d]}
    /\ Goto(d, result, {})
    /\ UNCHANGED <<poolVars, entry, stale>>

DrainReport(d) ==
    /\ pc[d] = "retry" /\ waits[d] = {}
    /\ DrainEnd(d, IF FailedOf(DrainOf[d]) = {} THEN "true" ELSE "false")

DrainTimeout(d) ==
    /\ \/ pc[d] \in {"drain", "retry"} /\ waits[d] # {}
       \/ pc[d] = "poll" /\ Inflight(DrainOf[d])
    /\ DrainEnd(d, "false")

\* close(), at the server's shutdown: the server has waited for its callers.
Shutdown ==
    /\ pool # {}
    /\ \A c \in Callers : pc[c] \in {"idle", "done", "true", "false"}
    /\ pool' = {}
    /\ ScheduleClose(pool)
    /\ UNCHANGED <<ready, invalid, leases, draining, pc, entry, waits, stale>>

-----------------------------------------------------------------------------
LeaseSection(r) ==
    RefuseDraining(r) \/ RefuseInvalid(r) \/ Join(r) \/ Create(r) \/ Overloaded(r)

Progress(r) ==
    \/ EvictionDone(r) \/ CreateOk(r) \/ CreateFails(r) \/ GiveUp(r) \/ CreationFailed(r)
    \/ TakeSlot(r) \/ AwaitSlot(r) \/ SlotTimeout(r) \/ Finish(r)

CloseTask(e) == CloseStart(e) \/ CloseEnd(e)

Drain(d) ==
    \/ DrainInvalidate(d) \/ DrainWaits(d) \/ DrainEmpty(d)
    \/ DrainReport(d) \/ DrainTimeout(d)

Next ==
    \/ \E r \in Requests : LeaseSection(r) \/ Progress(r) \/ Cancel(r) \/ CloseTask(r)
    \/ \E d \in Drainers : DrainStart(d) \/ Drain(d)
    \/ Shutdown

Spec == Init /\ [][Next]_vars

\* Factories, handlers and close() come to an end: their own time limits are
\* outside the pool.  Who has not asked for a lease yet need never ask.
FairSpec ==
    /\ Spec
    /\ \A r \in Requests : WF_vars(Progress(r)) /\ WF_vars(CloseTask(r))
    /\ \A d \in Drainers : WF_vars(Drain(d))

-----------------------------------------------------------------------------
\* A service is not closed, nor about to be, while a request is using it or still
\* on its way to: eviction, expiry, invalidation and drains wait for the last lease.
\* The one exception is the request that found the entry just as it expired (stale);
\* nobody else's service is closed by that.
NotClosedInUse ==
    \A r \in Requests :
        pc[r] \in {"waiting", "queued", "using"} /\ ready[entry[r]] = "ok" =>
          \/ close[entry[r]] = "open"
          \/ r \in stale /\ leases[entry[r]] = {r}

\* Whatever left the pool is being closed, was closed, or is remembered as failed;
\* no path out of lease(), an exception or a cancellation included, drops an entry.
NothingForgotten == \A e \in Requests : ready[e] # "none" /\ e \notin pool => close[e] # "open"

\* No lease of a user is granted while a drain of that user is under way.
AdmissionBlocked ==
    \A r \in Requests, d \in Drainers :
      entry'[r] # entry[r] /\ DrainOf[d] = UserOf(r) => pc[d] \in {"idle", "true", "false"}

\* When drain() reports success, nobody uses a service of the user, except who found
\* it just as it expired (stale); none is being closed, and none is left whose close failed.
DrainMeansQuiet ==
    \A d \in Drainers : pc[d] # "true" /\ pc'[d] = "true" =>
      \A e \in Entries(DrainOf[d]) :
        /\ ready[e] = "ok" => leases[e] \subseteq stale
        /\ close[e] \notin {"queued", "closing", "failed"}

\* An entry under creation has a creator that will finish or withdraw it: lease()
\* undoes everything when it is cancelled.
PendingHasCreator == \A e \in pool : ready[e] = "pending" => pc[e] \in {"evicting", "creating"}

\* What the module's documentation says of it and the code does not keep.

\* A new lease takes entries of earlier epochs out of use, never of later ones.
LaterEpochStays ==
    [][\A r, e \in Requests : LeaseSection(r) /\ e \in invalid' \ invalid =>
         KeyOf[e].epoch < KeyOf[r].epoch]_vars

\* An entry in use (lease > 0) is not evicted: who looks it up as it expires leases
\* the service that the same section has begun to close.
LeasedStaysOpen ==
    \A r \in Requests :
        pc[r] \in {"waiting", "queued", "using"} /\ ready[entry[r]] = "ok" => close[entry[r]] = "open"

\* drain() waits until the user's leases are over: a lease of an entry outside the
\* pool is not counted.
DrainWaitsForLeases ==
    [][\A d \in Drainers, e \in Requests :
         pc[d] # "true" /\ pc'[d] = "true" /\ UserOf(e) = DrainOf[d] /\ ready[e] = "ok" =>
           leases[e] = {}]_vars

\* No lease of a user while a drain waits: the first of two drains to end takes the
\* mark away that both share.
DrainsAdmitNobody == [][AdmissionBlocked]_vars

\* Every request for a lease comes to an end: it gets the service and returns it,
\* or is refused.  It may wait for ever only for an entry whose creator was
\* cancelled before it began (see PendingHasCreator).
EveryRequestEnds ==
    \A r \in Requests : pc[r] \in Leasing ~> pc[r] = "done" \/ ~PendingHasCreator
=============================================================================
