------------------------ MODULE GraphConnectionAdmin ------------------------
(***************************************************************************)
(* GraphConnection together with what disturbs it from outside its locks:  *)
(* an administrator's set_status and bump_auth_epoch (registry_admin.py),  *)
(* which take none of them, and the cancellation of a tool call (the       *)
(* client's cancel notification, mcp_common/runtime.py), which releases    *)
(* them while the thread that asyncio.to_thread started goes on writing.   *)
(* Admins are administrators' commands, Threads the threads left behind.   *)
(***************************************************************************)
EXTENDS GraphConnection

CONSTANTS
    AdminOps,     \* the commands administrators give: "disable", "enable", "bump"
    Cancellable   \* the requests whose client may cancel them

ASSUME AdminAssumption ==
    /\ AdminOps \subseteq {"disable", "enable", "bump"}
    /\ Cancellable \subseteq Requests

-----------------------------------------------------------------------------
(* set_status and bump_auth_epoch: one UPDATE with a status guard each.     *)

Commands(a, op) == op \in AdminOps /\ pc[a] = "idle" /\ user.epoch < MaxEpoch

Disable(a) ==
    /\ Commands(a, "disable")
    /\ user.status \in Usable
    /\ user' = [user EXCEPT !.status = "disabled", !.epoch = user.epoch + 1]
    /\ UNCHANGED <<row, lockVars, pc, mem, links, dead, late, crashes>>

BumpAuthEpoch(a) ==
    /\ Commands(a, "bump")
    /\ user' = [user EXCEPT !.epoch = user.epoch + 1]
    /\ UNCHANGED <<row, lockVars, pc, mem, links, dead, late, crashes>>

\* Enabling reads the record first and decides by its graph_email ...
ReadForEnable(a) ==
    /\ Commands(a, "enable")
    /\ user.status = "disabled"
    /\ StayTo(a, IF user.email = "set" THEN "enable_active" ELSE "enable_pending", Blank)
    /\ UNCHANGED <<dbVars, links, dead, late, crashes>>

Target(a) == IF pc[a] = "enable_active" THEN "active" ELSE "pending_link"

\* ... and then updates the row, if it is still disabled.
Enable(a) ==
    /\ pc[a] \in {"enable_active", "enable_pending"}
    /\ user' = IF user.status = "disabled"
               THEN [user EXCEPT !.status = Target(a), !.epoch = user.epoch + 1] ELSE user
    /\ StayTo(a, "idle", Blank)
    /\ UNCHANGED <<row, links, dead, late, crashes>>

-----------------------------------------------------------------------------
(* Cancellation.  CancelledError leaves both lock blocks at once; a thread  *)
(* inside a conditional write is not stopped.                               *)

Unlock(r) == flock' = (IF flock = r THEN NoWorker ELSE flock) /\ Free(r)

CancelIdle(r) ==
    /\ r \in Cancellable
    /\ pc[r] \notin {"idle", "save", "reject"}
    /\ Goto(r, "idle", Blank)
    /\ Unlock(r)
    /\ UNCHANGED <<dbVars, links, dead, late, crashes>>

\* The thread t keeps what the request had read.
CancelInWrite(r, t) ==
    /\ r \in Cancellable
    /\ pc[r] \in {"save", "reject"}
    /\ pc[t] = "idle" /\ ProcOf[t] = ProcOf[r]
    /\ pc' = [pc EXCEPT ![r] = "idle", ![t] = IF pc[r] = "save" THEN "late_save" ELSE "late_reject"]
    /\ mem' = [mem EXCEPT ![r] = Blank, ![t] = mem[r]]
    /\ Unlock(r)
    /\ UNCHANGED <<dbVars, links, dead, late, crashes>>

LateSave(t) ==
    /\ pc[t] = "late_save"
    /\ row' = Refreshed(row, mem[t].row)
    /\ StayTo(t, "idle", Blank)
    /\ UNCHANGED <<user, links, dead, late, crashes>>

LateReject(t) ==
    /\ pc[t] = "late_reject"
    /\ row' = Rejected(row, mem[t].row.version)
    /\ StayTo(t, "idle", Blank)
    /\ UNCHANGED <<user, links, dead, late, crashes>>

AdminNext ==
    \/ Next
    \/ \E a \in Admins : Disable(a) \/ BumpAuthEpoch(a) \/ ReadForEnable(a) \/ Enable(a)
    \/ \E r \in Requests : CancelIdle(r)
    \/ \E r \in Requests, t \in Threads : CancelInWrite(r, t)
    \/ \E t \in Threads : LateSave(t) \/ LateReject(t)

AdminSpec == Init /\ [][AdminNext]_vars

-----------------------------------------------------------------------------
\* Only `enable` ends a disablement: no connection or disconnection under way when
\* the account was disabled makes it usable again.
OnlyEnableEnables ==
    user.status = "disabled" /\ user'.status # "disabled" => \E a \in Admins : Enable(a)

\* A token row that a disconnect erased is only ever created again by a commit: a
\* refresh of the old row, however late and cancelled or not, creates none.
NoResurrection ==
    ~Present(row) /\ Present(row') => \E c \in Callbacks : StoreBundle(c)

\* A stored row passes from one link to another by a commit, whatever refreshes and
\* rollbacks of other links are under way.  The thread of a cancelled refresh is
\* excepted: it writes without the lock, and its version may have come back.
LinkKept ==
    Present(row) /\ Present(row') /\ row'.link # row.link =>
        \/ \E c \in Callbacks : StoreBundle(c)
        \/ \E t \in Threads : LateSave(t)

\* While a row lives, no write replaces it by an older version: a refresh that lost
\* its lock to a newer one stores nothing.
NewerVersionStays ==
    Present(row) /\ Present(row') /\ row' # row =>
      row'.version > row.version \/ (row'.version = row.version /\ row'.link = row.link)

\* A commit that is refused takes back its own bundle and nothing else, though
\* another connection may have reached the same version number.
UndoesOnlyItsOwn ==
    \A c \in Callbacks : UndoStore(c) /\ row' # row => row.link = mem[c].link

\* Commands that take no lock, cancelled refreshes whose write goes on and commits that
\* are refused cannot bring a connection about: only enable ends a disablement, only a
\* commit creates a row, a row changes its link by a commit (or by the late write of a
\* cancelled refresh, see DeadStaysAway), no write puts an older version in its place,
\* and a refused commit takes back its own bundle: registry_admin.py, token_store.py.
OnlyCommitsConnect ==
    [][/\ OnlyEnableEnables /\ NoResurrection /\ LinkKept
       /\ NewerVersionStays /\ UndoesOnlyItsOwn]_vars

\* Does not hold (README, 5): a refresh stores nothing once its connection was ended (step
\* 7 of token_store.py), so a row that is not of a disconnected link never becomes one.
DeadStaysAway ==
    [][row.link \notin dead /\ row'.link # row.link => row'.link \notin dead]_vars

\* set_status: enabling makes the account active or pending_link according to
\* whether it is connected.
EnableMatchesLink ==
    [][\A a \in Admins : Enable(a) /\ user' # user =>
         (user'.status = "active" <=> user.email = "set")]_vars

\* The comment in disconnect_graph: under the lock the row cannot have changed
\* between reading its version and deleting it.
DisconnectErases ==
    [][\A u \in Unlinks : EraseToken(u) /\ Present(mem[u].row) => row' = NoRow]_vars
=============================================================================
