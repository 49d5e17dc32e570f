--------------------------- MODULE UserLifecycle ---------------------------
(***************************************************************************)
(* One user from registration to deletion and back (session/               *)
(* registry_admin.py), with its bearer keys and the requests that use them *)
(* (session/identity_registry.py).  The row of the user, the tombstone and *)
(* the index of keys are in registry.db, the keys in the user's auth.db,   *)
(* the data key in a file beside it.  Every step is one transaction, or    *)
(* one read.  A key has the name of the issue_key or rotate_key that made  *)
(* it.  pending_link and active are not told apart here: see               *)
(* GraphConnection for the connection and ServicePool for drain().         *)
(***************************************************************************)
EXTENDS FiniteSets, Integers

CONSTANTS
    Registers,      \* calls of register_user
    Deletes,        \* calls of delete_user
    Issues,         \* calls of issue_key and rotate_key
    Revokes,        \* calls of revoke_key
    Requests,       \* tool requests with a bearer key
    MaxKeys,        \* MAX_ACTIVE_KEYS
    MaxEpoch,       \* bound: no status change or bump from this epoch on
    Serial,         \* bound: a deletion overlaps no registration and no other deletion
    Nobody

Kinds == <<Registers, Deletes, Issues, Revokes, Requests>>
Workers == Registers \cup Deletes \cup Issues \cup Revokes \cup Requests
Kids == Issues
Files == {"auth_db", "dek"}

ASSUME LifecycleAssumption ==
    /\ \A i, j \in 1..5 : i # j => Kinds[i] \cap Kinds[j] = {}
    /\ IsFiniteSet(Issues)
    /\ MaxKeys \in Nat \ {0} /\ MaxEpoch \in Nat /\ Serial \in BOOLEAN
    /\ Nobody \notin Workers

VARIABLES
    row,        \* the row in users: status and auth_epoch
    tomb,       \* last_auth_epoch of the tombstone, -1: there is none
    index,      \* credential_index
    files,      \* what is in the user's directory
    cred,       \* api_credentials: kid -> state
    ulock,      \* who holds the user lock
    pc,         \* worker -> the step it is at
    mem         \* worker -> the key it is about and what it has read

registryVars == <<row, tomb, index>>
storeVars == <<files, cred>>
vars == <<row, tomb, index, files, cred, ulock, pc, mem>>

LockSteps == {"dek", "count", "add", "index", "wipe", "rmtree"}
Steps == {"init", "lock", "commit", "bump", "drain", "final", "revoke", "user", "key", "work", "recheck"}
            \cup LockSteps
Memory == [kid : Kids \cup {Nobody}, epoch : Nat, late : {"no", "yes"}]
Blank == [kid |-> Nobody, epoch |-> 0, late |-> "no"]

TypeOK ==
    /\ row \in [status : {"none", "usable", "disabled", "deleting"}, epoch : Nat]
    /\ tomb \in Nat \cup {-1}
    /\ index \subseteq Kids /\ files \subseteq Files
    /\ cred \in [Kids -> {"none", "live", "expired", "revoked"}]
    /\ ulock \in Workers \cup {Nobody}
    /\ pc \in [Workers -> Steps \cup {"idle", "done", "issued", "answered"}]
    /\ mem \in [Workers -> Memory]

NoRow == [status |-> "none", epoch |-> 0]
NoKeys == [k \in Kids |-> "none"]

Init ==
    /\ row = NoRow /\ tomb = -1 /\ index = {}
    /\ files = {} /\ cred = NoKeys /\ ulock = Nobody
    /\ pc = [w \in Workers |-> "idle"]
    /\ mem = [w \in Workers |-> Blank]

-----------------------------------------------------------------------------
Usable == row.status = "usable"
Live == {k \in Kids : cred[k] = "live"}
HasStore == "auth_db" \in files

Goto(w, step) == pc' = [pc EXCEPT ![w] = step] /\ UNCHANGED mem
Remember(w, step, m) == pc' = [pc EXCEPT ![w] = step] /\ mem' = [mem EXCEPT ![w] = m]
Unlock(w) == ulock' = IF ulock = w THEN Nobody ELSE ulock
\* The call ends, with a result or an error; a with block releases its lock.
Leave(w) == Remember(w, "done", Blank) /\ Unlock(w)

AfterLock(w) ==
    IF w \in Registers THEN "dek" ELSE IF w \in Deletes THEN "wipe" ELSE "count"

\* Mutant: the lock is not waited for.
TakeUserLockAnyway(w) ==
    /\ pc[w] = "lock"
    /\ ulock' = w /\ Goto(w, AfterLock(w))
    /\ UNCHANGED <<registryVars, storeVars>>

TakeUserLock(w) ==
    /\ pc[w] = "lock" /\ ulock = Nobody
    /\ ulock' = w /\ Goto(w, AfterLock(w))
    /\ UNCHANGED <<registryVars, storeVars>>

\* Mutant: register_user goes on without the lock.
LockTimeoutGoesOn(w) ==
    /\ pc[w] = "lock" /\ ulock # Nobody
    /\ IF w \in Registers THEN Goto(w, "commit") /\ UNCHANGED ulock ELSE Leave(w)
    /\ UNCHANGED <<registryVars, storeVars>>

LockTimeout(w) ==
    /\ pc[w] = "lock" /\ ulock # Nobody
    /\ Leave(w)
    /\ UNCHANGED <<registryVars, storeVars>>

\* Registrations may overlap each other.
Turn(w) ==
    Serial => \A v \in Registers \cup Deletes :
        pc[v] \in {"idle", "done"} \/ (v \in Registers /\ w \in Registers)

-----------------------------------------------------------------------------
(* register_user                                                            *)

RegisterStart(r) ==
    /\ pc[r] = "idle" /\ Turn(r)
    /\ \E reinstate \in BOOLEAN :
         IF row.status = "none" /\ (tomb = -1 \/ reinstate) THEN Goto(r, "init") ELSE Goto(r, "done")
    /\ UNCHANGED <<registryVars, storeVars, ulock>>

InitStore(r) ==
    /\ pc[r] = "init"
    /\ files' = files \cup {"auth_db"}
    /\ Goto(r, "lock")
    /\ UNCHANGED <<registryVars, cred, ulock>>

\* create_dek: an existing one is opened.
CreateDek(r) ==
    /\ pc[r] = "dek"
    /\ files' = files \cup {"dek"}
    /\ Unlock(r) /\ Goto(r, "commit")
    /\ UNCHANGED <<registryVars, cred>>

\* Mutant: the tombstone's epoch is taken as it is.
RegisterAtTomb(r) ==
    /\ pc[r] = "commit" /\ row.status = "none"
    /\ row' = [status |-> "usable", epoch |-> tomb]
    /\ tomb' = -1
    /\ Leave(r)
    /\ UNCHANGED <<index, storeVars>>

\* Mutant: a new life starts at epoch zero.
RegisterFromZero(r) ==
    /\ pc[r] = "commit" /\ row.status = "none"
    /\ row' = [status |-> "usable", epoch |-> 0]
    /\ tomb' = -1
    /\ Leave(r)
    /\ UNCHANGED <<index, storeVars>>

RegisterCommit(r) ==
    /\ pc[r] = "commit" /\ row.status = "none"
    /\ row' = [status |-> "usable", epoch |-> tomb + 1]
    /\ tomb' = -1
    /\ Leave(r)
    /\ UNCHANGED <<index, storeVars>>

RegisterRefused(r) ==
    /\ pc[r] = "commit" /\ row.status # "none"
    /\ Leave(r)
    /\ UNCHANGED <<registryVars, storeVars>>

-----------------------------------------------------------------------------
(* set_status, bump_auth_epoch and whatever else bumps the epoch of a user  *)
(* that stays (commit_graph_connection, disconnect_graph)                   *)

SetStatus ==
    /\ row.status \in {"usable", "disabled"} /\ row.epoch < MaxEpoch
    /\ \E status \in {"usable", "disabled"} : row' = [status |-> status, epoch |-> row.epoch + 1]
    /\ UNCHANGED <<tomb, index, storeVars, ulock, pc, mem>>

-----------------------------------------------------------------------------
(* issue_key, and rotate_key of a key: the old one must be live under the   *)
(* lock.  How the old one's expiry is brought forward is left to KeyExpires.*)

IssueStart(i) ==
    /\ pc[i] = "idle"
    /\ \E old \in index \cup {Nobody} :
         IF Usable THEN Remember(i, "lock", [Blank EXCEPT !.kid = old]) ELSE Goto(i, "done")
    /\ UNCHANGED <<registryVars, storeVars, ulock>>

CountKeys(i) ==
    /\ pc[i] = "count"
    /\ IF /\ HasStore /\ Cardinality(Live) < MaxKeys
          /\ mem[i].kid # Nobody => mem[i].kid \in Live
       THEN Goto(i, "add") /\ UNCHANGED ulock
       ELSE Leave(i)
    /\ UNCHANGED <<registryVars, storeVars>>

AddKey(i) ==
    /\ pc[i] = "add"
    /\ IF HasStore
       THEN cred' = [cred EXCEPT ![i] = "live"] /\ Goto(i, "index") /\ UNCHANGED ulock
       ELSE Leave(i) /\ UNCHANGED cred
    /\ UNCHANGED <<registryVars, files>>

IndexKey(i) ==
    /\ pc[i] = "index"
    /\ index' = index \cup {i}
    /\ Remember(i, "issued", Blank) /\ Unlock(i)
    /\ UNCHANGED <<row, tomb, storeVars>>

RevokeStart(v) ==
    /\ pc[v] = "idle"
    /\ \E k \in index :
         IF row.status # "none" THEN Remember(v, "revoke", [Blank EXCEPT !.kid = k]) ELSE Goto(v, "done")
    /\ UNCHANGED <<registryVars, storeVars, ulock>>

Revoke(v) ==
    /\ pc[v] = "revoke"
    /\ cred' = [k \in Kids |-> IF k = mem[v].kid /\ cred[k] \in {"live", "expired"} THEN "revoked" ELSE cred[k]]
    /\ Leave(v)
    /\ UNCHANGED <<registryVars, files>>

KeyExpires(k) ==
    /\ cred[k] = "live"
    /\ cred' = [cred EXCEPT ![k] = "expired"]
    /\ UNCHANGED <<registryVars, files, ulock, pc, mem>>

-----------------------------------------------------------------------------
(* delete_user.  The refresh locks it takes with the user lock are left out *)
(* because no step of this module holds one.                                *)

DeleteStart(d) ==
    /\ pc[d] = "idle" /\ Turn(d)
    /\ IF row.status = "none" THEN Goto(d, "done")
       ELSE Remember(d, IF row.status = "deleting" THEN "drain" ELSE "bump", [Blank EXCEPT !.epoch = row.epoch])
    /\ UNCHANGED <<registryVars, storeVars, ulock>>

CloseAccount(d) ==
    /\ pc[d] = "bump"
    /\ IF row.status \in {"usable", "disabled"}
       THEN row' = [status |-> "deleting", epoch |-> row.epoch + 1] /\ Goto(d, "drain") /\ UNCHANGED ulock
       ELSE Leave(d) /\ UNCHANGED row
    /\ UNCHANGED <<tomb, index, storeVars>>

\* The pool's drain succeeds, fails or times out.
Drain(d) ==
    /\ pc[d] = "drain"
    /\ \/ Goto(d, "lock") /\ UNCHANGED ulock
       \/ Leave(d)
    /\ UNCHANGED <<registryVars, storeVars>>

\* revoke_all_credentials, delete_tokens, delete_all_attempts.
WipeStore(d) ==
    /\ pc[d] = "wipe"
    /\ cred' = [k \in Kids |-> IF cred[k] = "none" THEN "none" ELSE "revoked"]
    /\ Goto(d, "rmtree")
    /\ UNCHANGED <<registryVars, files, ulock>>

RemoveFiles(d) ==
    /\ pc[d] = "rmtree"
    /\ files' = {} /\ cred' = NoKeys
    /\ Unlock(d) /\ Goto(d, "final")
    /\ UNCHANGED registryVars

\* Some file cannot be removed; how many went before it is left open.
RemoveFails(d) ==
    /\ pc[d] = "rmtree"
    /\ \E rest \in SUBSET files :
         files' = rest /\ cred' = (IF "auth_db" \in rest THEN cred ELSE NoKeys)
    /\ Leave(d)
    /\ UNCHANGED registryVars

\* The last transaction, outside the locks.
Forget(d) ==
    /\ pc[d] = "final"
    /\ tomb' = (IF row.status = "none" THEN mem[d].epoch ELSE row.epoch)
    /\ row' = NoRow /\ index' = {}
    /\ Leave(d)
    /\ UNCHANGED storeVars

-----------------------------------------------------------------------------
(* A request: authenticate_bearer, then assert_active before it is answered *)

LookupKid(q) ==
    /\ pc[q] = "idle"
    /\ \E k \in Kids :
         /\ pc[k] = "issued"
         /\ IF k \in index THEN Remember(q, "user", [Blank EXCEPT !.kid = k]) ELSE Goto(q, "done")
    /\ UNCHANGED <<registryVars, storeVars, ulock>>

ReadUser(q) ==
    /\ pc[q] = "user"
    /\ IF Usable THEN Remember(q, "key", [mem[q] EXCEPT !.epoch = row.epoch]) ELSE Remember(q, "done", Blank)
    /\ UNCHANGED <<registryVars, storeVars, ulock>>

ReadKey(q) ==
    /\ pc[q] = "key"
    /\ IF mem[q].kid \in Live THEN Goto(q, "work") ELSE Remember(q, "done", Blank)
    /\ UNCHANGED <<registryVars, storeVars, ulock>>

\* mem.late is a history: the key or the epoch was gone before the check began.
CheckUser(q) ==
    /\ pc[q] = "work"
    /\ IF Usable /\ row.epoch = mem[q].epoch
       THEN Remember(q, "recheck", [mem[q] EXCEPT !.late = IF mem[q].kid \in Live THEN "no" ELSE "yes"])
       ELSE Remember(q, "done", Blank)
    /\ UNCHANGED <<registryVars, storeVars, ulock>>

\* Mutant: check_credential is left off.
CheckKeySkipped(q) ==
    /\ pc[q] = "recheck"
    /\ Goto(q, "answered")
    /\ UNCHANGED <<registryVars, storeVars, ulock>>

CheckKey(q) ==
    /\ pc[q] = "recheck"
    /\ IF mem[q].kid \in Live THEN Goto(q, "answered") ELSE Remember(q, "done", Blank)
    /\ UNCHANGED <<registryVars, storeVars, ulock>>

-----------------------------------------------------------------------------
\* An administrator's command dies between two steps.
Crash(w) ==
    /\ pc[w] \in Steps /\ w \notin Requests
    /\ Leave(w)
    /\ UNCHANGED <<registryVars, storeVars>>

Next ==
    \/ \E w \in Workers : TakeUserLock(w) \/ LockTimeout(w) \/ Crash(w)
    \/ \E r \in Registers :
         RegisterStart(r) \/ InitStore(r) \/ CreateDek(r) \/ RegisterCommit(r) \/ RegisterRefused(r)
    \/ \E i \in Issues : IssueStart(i) \/ CountKeys(i) \/ AddKey(i) \/ IndexKey(i) \/ KeyExpires(i)
    \/ \E v \in Revokes : RevokeStart(v) \/ Revoke(v)
    \/ \E d \in Deletes :
         \/ DeleteStart(d) \/ CloseAccount(d) \/ Drain(d) \/ WipeStore(d) \/ RemoveFiles(d)
         \/ RemoveFails(d) \/ Forget(d)
    \/ \E q \in Requests : LookupKid(q) \/ ReadUser(q) \/ ReadKey(q) \/ CheckUser(q) \/ CheckKey(q)
    \/ SetStatus

Spec == Init /\ [][Next]_vars

-----------------------------------------------------------------------------
\* However many commands issue and rotate at once, and wherever one dies, a user
\* never has more live keys than MAX_ACTIVE_KEYS.
KeysBounded == Cardinality(Live) <= MaxKeys

\* A user that may be served has its auth.db and its data key, whichever commands
\* died on the way there.
UsableHasStore == Usable => files = Files

\* Once a user is gone and its directory removed, no key leads to it.
NoKeyLeadsNowhere == row.status = "none" /\ files = {} => index = {}

\* No answer to a request whose key was revoked, had expired or had gone with its
\* store before the last check of the request began.
NotServedLate == \A q \in Requests : pc[q] = "answered" => mem[q].late = "no"

\* Registration, status changes and deletion, their failures and their reruns add up
\* to the account the registry promises.
Promised == INSTANCE Account WITH
    phase <- IF row.status = "none" THEN "absent" ELSE row.status,
    epoch <- IF row.status = "none" THEN tomb ELSE row.epoch
AccountSpec == Promised!Spec
=============================================================================
