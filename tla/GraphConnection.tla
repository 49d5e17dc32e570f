-------------------------- MODULE GraphConnection --------------------------
(***************************************************************************)
(* One user's Microsoft Graph connection in multi-user mode:               *)
(* session/token_store.py (refresh and commit), registry_admin.py          *)
(* (disconnect), and the rows they share in registry.db and the user's     *)
(* auth.db.  Every registry or auth.db access is one SQLite transaction    *)
(* and one action here; between two of them any other worker may run.      *)
(*                                                                         *)
(* Three kinds of worker share the connection: Requests run                *)
(* get_graph_access_token, Callbacks run commit_graph_connection, Unlinks  *)
(* run disconnect_graph.  Each lives in an operating system process, which *)
(* may crash and so release its locks.                                     *)
(***************************************************************************)
EXTENDS Naturals, FiniteSets

CONSTANTS
    Requests, Callbacks, Unlinks,   \* the workers, disjoint sets
    Admins, Threads,                \* workers that act in GraphConnectionAdmin only
    Procs, ProcOf,                  \* the process every worker runs in
    NoWorker,                       \* the owner of a free lock
    Unrefreshable,                  \* links whose code exchange returned no refresh token
    MaxLinks, MaxEpoch, MaxVersion, MaxCrashes   \* bounds of the model

Workers == Requests \cup Callbacks \cup Unlinks \cup Admins \cup Threads

ASSUME WorkersAssumption ==
    /\ Requests \cap Callbacks = {}
    /\ (Requests \cup Callbacks) \cap Unlinks = {}
    /\ (Requests \cup Callbacks \cup Unlinks) \cap (Admins \cup Threads) = {}
    /\ Admins \cap Threads = {}
    /\ NoWorker \notin Workers
    /\ ProcOf \in [Workers -> Procs]

ASSUME BoundsAssumption ==
    /\ MaxLinks \in Nat
    /\ MaxEpoch \in Nat
    /\ MaxVersion \in Nat
    /\ MaxCrashes \in Nat

VARIABLES
    user,     \* the users row of registry.db
    row,      \* the graph_tokens row of the user's auth.db
    flock,    \* holder of system/locks/refresh-<user>-<app>.lock
    plock,    \* holder of each process's asyncio lock for (user, app)
    pc,       \* where each worker is
    mem,      \* what each worker remembers, see Memory
    links,    \* how many code exchanges have succeeded
    dead,     \* history: the links a disconnect has unlinked
    late,     \* history: the dead links whose token a request was handed afterwards
    crashes   \* how many process crashes have happened

dbVars   == <<user, row>>
lockVars == <<flock, plock>>
vars == <<user, row, flock, plock, pc, mem, links, dead, late, crashes>>

-----------------------------------------------------------------------------
(* A link is one completed OAuth code exchange, numbered from 1.  Version   *)
(* 0 stands for the missing row, as in UserAuthStore.token_version(), and   *)
(* an "expired" row is one in state ok whose access token is too old.       *)

Statuses == {"pending_link", "active", "disabled"}
Usable   == {"pending_link", "active"}
UserRecord == [status : Statuses, epoch : Nat, email : {"none", "set"}]
TokenRow == [version : Nat, state : {"fresh", "expired", "reauth_required"}, link : Nat]
NoRow    == [version |-> 0, state |-> "expired", link |-> 0]

\* A worker's local variables: the auth_epoch of its principal or attempt, the token
\* row it last read, and the link whose bundle a callback is to store.
Memory == [epoch : Nat, row : TokenRow, link : Nat]
Blank  == [epoch |-> 0, row |-> NoRow, link |-> 0]

Locked ==   \* program points at which a worker holds the file lock
    {"reread", "recheck_fresh", "entra", "reject", "recheck", "save", "lastcheck",
     "latest", "verify", "version", "store", "confirm", "undo",
     "versions", "unlink", "erase"}
Labels == Locked \cup {"idle", "check", "read", "plock", "flock", "return",
                       "enable_active", "enable_pending", "late_save", "late_reject"}

Present(r) == r.version # 0
Fresh(r)   == r.state = "fresh"
CurrentAccount(w) == user.status \in Usable /\ user.epoch = mem[w].epoch
LinkedAccount(w)  == CurrentAccount(w) /\ user.status = "active"

Init ==
    /\ user = [status |-> "pending_link", epoch |-> 0, email |-> "none"]
    /\ row = NoRow
    /\ flock = NoWorker
    /\ plock = [p \in Procs |-> NoWorker]
    /\ pc = [w \in Workers |-> "idle"]
    /\ mem = [w \in Workers |-> Blank]
    /\ links = 0
    /\ dead = {}
    /\ late = {}
    /\ crashes = 0

\* The worker goes on at l remembering m; a call that has ended remembers nothing.
Goto(w, l, m) ==
    /\ pc' = [pc EXCEPT ![w] = l]
    /\ mem' = [mem EXCEPT ![w] = IF l = "idle" THEN Blank ELSE m]

Free(w) == plock' = [p \in Procs |-> IF plock[p] = w THEN NoWorker ELSE plock[p]]

\* Leaving the `async with` blocks: both locks are released.
LeaveTo(w, l, m) == Goto(w, l, m) /\ flock' = NoWorker /\ Free(w)

\* Still inside, or not yet: no lock changes.
StayTo(w, l, m) == Goto(w, l, m) /\ UNCHANGED lockVars

Saw(w, r) == [mem[w] EXCEPT !.row = r]
Born(l) == [epoch |-> user.epoch, row |-> NoRow, link |-> l]

\* Mutant: the UPDATE without its `AND token_version = ?`.
RefreshedAnyVersion(r, old) == [version |-> old.version + 1, state |-> "fresh", link |-> old.link]

\* The conditional writes of UserAuthStore, each one UPDATE or DELETE statement.
Refreshed(r, old) ==
    IF r.version = old.version
    THEN [version |-> old.version + 1, state |-> "fresh", link |-> old.link] ELSE r
Rejected(r, version) == IF r.version = version THEN [r EXCEPT !.state = "reauth_required"] ELSE r
\* Mutant: the DELETE is given the next version.
ErasedNext(r, version) == IF r.version = version + 1 THEN NoRow ELSE r
Erased(r, version)   == IF r.version = version THEN NoRow ELSE r

-----------------------------------------------------------------------------
(* The two locks.  A process's coroutines queue on its asyncio lock, which  *)
(* has no time limit; its owner then polls the file lock for 30 seconds.    *)

TakeProcLock(w) ==
    /\ pc[w] = "plock"
    /\ plock[ProcOf[w]] = NoWorker
    /\ plock' = [plock EXCEPT ![ProcOf[w]] = w]
    /\ Goto(w, "flock", mem[w])
    /\ UNCHANGED <<dbVars, flock, links, dead, late, crashes>>

LockedEntry(w) ==
    IF w \in Requests THEN "reread" ELSE IF w \in Callbacks THEN "verify" ELSE "versions"

\* Mutant: the lock file is opened but not locked.
TakeFileLockAnyway(w) ==
    /\ pc[w] = "flock"
    /\ flock' = w
    /\ Goto(w, LockedEntry(w), mem[w])
    /\ UNCHANGED <<dbVars, plock, links, dead, late, crashes>>

TakeFileLock(w) ==
    /\ pc[w] = "flock"
    /\ flock = NoWorker
    /\ flock' = w
    /\ Goto(w, LockedEntry(w), mem[w])
    /\ UNCHANGED <<dbVars, plock, links, dead, late, crashes>>

\* Mutant: the time-out leaves the asyncio lock taken.
LockTimeoutKeepsQueue(w) ==
    /\ pc[w] = "flock"
    /\ flock # NoWorker
    /\ Goto(w, "idle", Blank)
    /\ UNCHANGED <<dbVars, flock, plock, links, dead, late, crashes>>

\* LockTimeout: the other holder kept it for the whole wait; the caller gets `overloaded`.
LockTimeout(w) ==
    /\ pc[w] = "flock"
    /\ flock # NoWorker
    /\ Goto(w, "idle", Blank)
    /\ Free(w)
    /\ UNCHANGED <<dbVars, flock, links, dead, late, crashes>>

-----------------------------------------------------------------------------
(* get_graph_access_token                                                   *)

\* The request's principal was authenticated just now: a usable account at this epoch.
StartRequest(r) ==
    /\ pc[r] = "idle"
    /\ user.status \in Usable
    /\ StayTo(r, "check", Born(0))
    /\ UNCHANGED <<dbVars, links, dead, late, crashes>>

\* _try_fresh reads the registry first ...
CheckAccount(r) ==
    /\ pc[r] = "check"
    /\ StayTo(r, IF LinkedAccount(r) THEN "read" ELSE "idle", mem[r])
    /\ UNCHANGED <<dbVars, links, dead, late, crashes>>

\* ... and then the token row, with no lock held.
ReadFresh(r) ==
    /\ pc[r] = "read"
    /\ StayTo(r, IF Present(row) /\ Fresh(row) THEN "return" ELSE "plock", Saw(r, row))
    /\ UNCHANGED <<dbVars, links, dead, late, crashes>>

\* _refresh_locked: read the row again, now under both locks, and decide.
RereadLocked(r) ==
    /\ pc[r] = "reread"
    /\ \/ /\ ~Present(row) \/ row.state = "reauth_required"
          /\ LeaveTo(r, "idle", Blank)
       \/ /\ Present(row) /\ Fresh(row)
          /\ StayTo(r, "recheck_fresh", Saw(r, row))
       \/ /\ Present(row) /\ row.state = "expired"
          /\ StayTo(r, IF row.link \in Unrefreshable THEN "reject" ELSE "entra", Saw(r, row))
    /\ UNCHANGED <<dbVars, links, dead, late, crashes>>

RecheckFresh(r) ==
    /\ pc[r] = "recheck_fresh"
    /\ LeaveTo(r, IF LinkedAccount(r) THEN "return" ELSE "idle", mem[r])
    /\ UNCHANGED <<dbVars, links, dead, late, crashes>>

\* The token endpoint answers with new tokens, with invalid_grant, or not usefully.
EntraAnswers(r) ==
    /\ pc[r] = "entra"
    /\ \/ StayTo(r, "recheck", mem[r])
       \/ StayTo(r, "reject", mem[r])
       \/ LeaveTo(r, "idle", Blank)
    /\ UNCHANGED <<dbVars, links, dead, late, crashes>>

\* mark_reauth_required(expected_version): a conditional UPDATE.
MarkReauth(r) ==
    /\ pc[r] = "reject"
    /\ row' = Rejected(row, mem[r].row.version)
    /\ LeaveTo(r, "idle", Blank)
    /\ UNCHANGED <<user, links, dead, late, crashes>>

\* Mutant: the tokens are saved without looking at the account again.
RecheckSkipped(r) ==
    /\ pc[r] = "recheck"
    /\ StayTo(r, "save", mem[r])
    /\ UNCHANGED <<dbVars, links, dead, late, crashes>>

RecheckBeforeSave(r) ==
    /\ pc[r] = "recheck"
    /\ IF LinkedAccount(r) THEN StayTo(r, "save", mem[r]) ELSE LeaveTo(r, "idle", Blank)
    /\ UNCHANGED <<dbVars, links, dead, late, crashes>>

\* replace_tokens_if_version: on a changed version nothing is stored, and the
\* request remembers no row.
SaveRefreshed(r) ==
    /\ pc[r] = "save"
    /\ row' = Refreshed(row, mem[r].row)
    /\ StayTo(r, "lastcheck", Saw(r, IF row.version = mem[r].row.version THEN row' ELSE NoRow))
    /\ UNCHANGED <<user, links, dead, late, crashes>>

\* The account is checked once more; what was stored is returned.
CheckAfterSave(r) ==
    /\ pc[r] = "lastcheck"
    /\ IF LinkedAccount(r) /\ ~Present(mem[r].row)
       THEN StayTo(r, "latest", mem[r])
       ELSE LeaveTo(r, IF LinkedAccount(r) THEN "return" ELSE "idle", mem[r])
    /\ UNCHANGED <<dbVars, links, dead, late, crashes>>

\* Another path changed the row under the refresh: what it left decides.
ReadLatest(r) ==
    /\ pc[r] = "latest"
    /\ LeaveTo(r, IF Present(row) /\ Fresh(row) THEN "return" ELSE "idle", Saw(r, row))
    /\ UNCHANGED <<dbVars, links, dead, late, crashes>>

\* Mutant: the token is returned without the last check.
HandOverUnchecked(r) ==
    /\ pc[r] = "return"
    /\ late' = late \cup ({mem[r].row.link} \cap dead)
    /\ StayTo(r, "idle", Blank)
    /\ UNCHANGED <<dbVars, links, dead, crashes>>

\* _check_request_identity, then the token is the caller's.
HandOver(r) ==
    /\ pc[r] = "return"
    /\ late' = IF CurrentAccount(r) THEN late \cup ({mem[r].row.link} \cap dead) ELSE late
    /\ StayTo(r, "idle", Blank)
    /\ UNCHANGED <<dbVars, links, dead, crashes>>

-----------------------------------------------------------------------------
(* commit_graph_connection                                                  *)

\* A browser comes back with a code for an attempt made at the current epoch,
\* the code is exchanged and the callback holds a new bundle.
StartCommit(c) ==
    /\ pc[c] = "idle"
    /\ links < MaxLinks
    /\ user.status \in Usable
    /\ links' = links + 1
    /\ StayTo(c, "plock", Born(links + 1))
    /\ UNCHANGED <<dbVars, dead, late, crashes>>

VerifyEpoch(c) ==
    /\ pc[c] = "verify"
    /\ IF CurrentAccount(c) THEN StayTo(c, "version", mem[c]) ELSE LeaveTo(c, "idle", Blank)
    /\ UNCHANGED <<dbVars, links, dead, late, crashes>>

ReadVersion(c) ==
    /\ pc[c] = "version"
    /\ StayTo(c, "store", Saw(c, row))
    /\ UNCHANGED <<dbVars, links, dead, late, crashes>>

StoreBundle(c) ==
    /\ pc[c] = "store"
    /\ IF row.version = mem[c].row.version
       THEN /\ row' = [version |-> row.version + 1, state |-> "fresh", link |-> mem[c].link]
            /\ StayTo(c, "confirm", mem[c])
       ELSE /\ row' = row
            /\ LeaveTo(c, "idle", Blank)
    /\ UNCHANGED <<user, links, dead, late, crashes>>

\* Mutant: the UPDATE is not conditional on epoch and status.
ConfirmUnchecked(c) ==
    /\ pc[c] = "confirm"
    /\ user' = [status |-> "active", epoch |-> user.epoch + 1, email |-> "set"]
    /\ LeaveTo(c, "idle", Blank)
    /\ UNCHANGED <<row, links, dead, late, crashes>>

\* Mutant: a refused commit leaves the lock before it takes its bundle back.
ConfirmUndoesUnlocked(c) ==
    /\ pc[c] = "confirm"
    /\ IF CurrentAccount(c)
       THEN /\ user' = [status |-> "active", epoch |-> user.epoch + 1, email |-> "set"]
            /\ LeaveTo(c, "idle", Blank)
       ELSE /\ user' = user
            /\ LeaveTo(c, "undo", mem[c])
    /\ UNCHANGED <<row, links, dead, late, crashes>>

\* mark_graph_linked: active, epoch + 1, unless the epoch or status moved on.
ConfirmLinked(c) ==
    /\ pc[c] = "confirm"
    /\ IF CurrentAccount(c)
       THEN /\ user' = [status |-> "active", epoch |-> user.epoch + 1, email |-> "set"]
            /\ LeaveTo(c, "idle", Blank)
       ELSE /\ user' = user
            /\ StayTo(c, "undo", mem[c])
    /\ UNCHANGED <<row, links, dead, late, crashes>>

\* delete_tokens_if_version: take back the version just stored, and only that one.
UndoStore(c) ==
    /\ pc[c] = "undo"
    /\ row' = Erased(row, mem[c].row.version + 1)
    /\ LeaveTo(c, "idle", Blank)
    /\ UNCHANGED <<user, links, dead, late, crashes>>

-----------------------------------------------------------------------------
(* disconnect_graph: only the file lock, from the caller's thread.          *)

\* Mutant: the disconnect does not take the refresh lock.
StartUnlinkNoLock(u) ==
    /\ pc[u] = "idle"
    /\ user.epoch < MaxEpoch
    /\ StayTo(u, "versions", Blank)
    /\ UNCHANGED <<dbVars, links, dead, late, crashes>>

StartUnlink(u) ==
    /\ pc[u] = "idle"
    /\ user.epoch < MaxEpoch
    /\ StayTo(u, "flock", Blank)
    /\ UNCHANGED <<dbVars, links, dead, late, crashes>>

ReadVersions(u) ==
    /\ pc[u] = "versions"
    /\ StayTo(u, "unlink", Saw(u, row))
    /\ UNCHANGED <<dbVars, links, dead, late, crashes>>

\* Mutant: the address is cleared and the epoch moves, the status stays.
MarkUnlinkedStaysActive(u) ==
    /\ pc[u] = "unlink"
    /\ user' = [user EXCEPT !.epoch = user.epoch + 1, !.email = "none"]
    /\ dead' = dead \cup ({mem[u].row.link} \ {0})
    /\ StayTo(u, "erase", mem[u])
    /\ UNCHANGED <<row, links, late, crashes>>

\* Mutant: a status the users table does not know.
MarkUnlinkedOwnStatus(u) ==
    /\ pc[u] = "unlink"
    /\ user' = [status |-> "unlinked", epoch |-> user.epoch + 1, email |-> "none"]
    /\ dead' = dead \cup ({mem[u].row.link} \ {0})
    /\ StayTo(u, "erase", mem[u])
    /\ UNCHANGED <<row, links, late, crashes>>

\* mark_graph_unlinked: the epoch moves before the token goes.
MarkUnlinked(u) ==
    /\ pc[u] = "unlink"
    /\ user' = [status |-> IF user.status = "active" THEN "pending_link" ELSE user.status,
                epoch |-> user.epoch + 1, email |-> "none"]
    /\ dead' = dead \cup ({mem[u].row.link} \ {0})
    /\ StayTo(u, "erase", mem[u])
    /\ UNCHANGED <<row, links, late, crashes>>

EraseToken(u) ==
    /\ pc[u] = "erase"
    /\ row' = Erased(row, mem[u].row.version)
    /\ LeaveTo(u, "idle", Blank)
    /\ UNCHANGED <<user, links, dead, late, crashes>>

-----------------------------------------------------------------------------
(* The environment: time and crashes.                                       *)

TokenExpires ==
    /\ Present(row) /\ Fresh(row)
    /\ row.version < MaxVersion
    /\ row' = [row EXCEPT !.state = "expired"]
    /\ UNCHANGED <<user, lockVars, pc, mem, links, dead, late, crashes>>

\* A process dies: its coroutines and threads are gone, the OS drops its locks.
Crash(p) ==
    /\ crashes < MaxCrashes
    /\ crashes' = crashes + 1
    /\ pc' = [w \in Workers |-> IF ProcOf[w] = p THEN "idle" ELSE pc[w]]
    /\ mem' = [w \in Workers |-> IF ProcOf[w] = p THEN Blank ELSE mem[w]]
    /\ plock' = [plock EXCEPT ![p] = NoWorker]
    /\ flock' = IF flock # NoWorker /\ ProcOf[flock] = p THEN NoWorker ELSE flock
    /\ UNCHANGED <<dbVars, links, dead, late>>

Locking(w) == TakeProcLock(w) \/ TakeFileLock(w) \/ LockTimeout(w)

RequestStep(r) ==
    \/ CheckAccount(r) \/ ReadFresh(r) \/ RereadLocked(r) \/ RecheckFresh(r)
    \/ EntraAnswers(r) \/ MarkReauth(r) \/ RecheckBeforeSave(r) \/ SaveRefreshed(r)
    \/ CheckAfterSave(r) \/ ReadLatest(r) \/ HandOver(r)

CommitStep(c) ==
    \/ VerifyEpoch(c) \/ ReadVersion(c) \/ StoreBundle(c)
    \/ ConfirmLinked(c) \/ UndoStore(c)

UnlinkStep(u) == ReadVersions(u) \/ MarkUnlinked(u) \/ EraseToken(u)

Next ==
    \/ \E w \in Workers : Locking(w)
    \/ \E r \in Requests : StartRequest(r) \/ RequestStep(r)
    \/ \E c \in Callbacks : StartCommit(c) \/ CommitStep(c)
    \/ \E u \in Unlinks : StartUnlink(u) \/ UnlinkStep(u)
    \/ TokenExpires
    \/ \E p \in Procs : Crash(p)

Spec == Init /\ [][Next]_vars

\* A worker that can go on does; asyncio.Lock is first come, first served, so a
\* coroutine that finds it free again and again is eventually woken with it.
Fairness ==
    /\ \A w \in Workers :
          /\ SF_vars(TakeProcLock(w))
          /\ WF_vars(TakeFileLock(w) \/ LockTimeout(w))
    /\ \A r \in Requests : WF_vars(RequestStep(r))
    /\ \A c \in Callbacks : WF_vars(CommitStep(c))
    /\ \A u \in Unlinks : WF_vars(UnlinkStep(u))

FairSpec == Spec /\ Fairness

-----------------------------------------------------------------------------
TypeOK ==
    /\ user \in UserRecord
    /\ row \in TokenRow
    /\ flock \in Workers \cup {NoWorker}
    /\ plock \in [Procs -> Workers \cup {NoWorker}]
    /\ pc \in [Workers -> Labels]
    /\ mem \in [Workers -> Memory]
    /\ links \in Nat
    /\ dead \in SUBSET Nat
    /\ late \in SUBSET Nat
    /\ crashes \in Nat

\* An active account has a token, and never the token of a link that was
\* disconnected: at every moment, whoever is in the middle of what, and after a
\* crash anywhere ("(pending_link + token), never (active + no token)").
ActiveUsesLiveLink ==
    user.status = "active" => Present(row) /\ row.link \notin dead

\* When nobody holds the refresh lock and no process ever died half way, the
\* account is active exactly when a token is stored: commit, refresh and
\* disconnect leave one of the two documented outcomes in any order.
LinkedIffToken ==
    flock = NoWorker /\ crashes = 0 => (user.status = "active" <=> Present(row))

\* The refresh token presented to the token endpoint stays the stored one until
\* the answer has been recorded.  Versions restart at 1 after a disconnect, so
\* an equal version number alone would not show it is the same row.
RefreshKeepsItsRow ==
    \A r \in Requests : pc[r] \in {"entra", "reject", "recheck", "save"} =>
        row.version = mem[r].row.version /\ row.link = mem[r].row.link

\* Two requests, of one process or of two, never refresh at the same time.
SingleRefresh ==
    \A r, s \in Requests :
        pc[r] \in {"entra", "recheck", "save"} /\ pc[s] \in {"entra", "recheck", "save"} => r = s

\* A request is never handed a token of a link that a disconnect has already
\* unlinked, however long ago it read that token.
NoTokenAfterUnlink == late = {}

\* A refresh stores its result only for the account it was checked against:
\* linked, and at the epoch of the request's principal.
SavesOnlyWhileLinked ==
    [][\A r \in Requests : SaveRefreshed(r) /\ row' # row => LinkedAccount(r)]_vars

\* Every token request, commit and disconnect comes to an end: none waits for ever
\* for a lock, whatever the other workers do.
EveryCallReturns ==
    \A w \in Workers : pc[w] # "idle" ~> pc[w] = "idle"
=============================================================================
