---------------------------- MODULE OperatorLogin ----------------------------
(***************************************************************************)
(* The login of the single operator mode: AuthManager, AuthService and the *)
(* callback server of each process, over the auth.db they all share.  A    *)
(* token row has the e-mail it was saved under as its key, upper and lower *)
(* case apart.  A call is validate_and_refresh_token, a flow               *)
(* authenticate_with_browser from a script, a link get_auth_url_for_login. *)
(* The state of an authorization request has the name of the worker that   *)
(* started it.  Left out: the mark a rejected refresh puts on the row      *)
(* (refresh_state), which only connection_state reads.                     *)
(***************************************************************************)
EXTENDS FiniteSets, Integers

CONSTANTS
    Calls, Flows, Links,    \* what is called, by kind
    Callbacks,              \* requests to /callback: duplicates are several of one state
    Procs, ProcOf,          \* the processes, and the one each of these runs in
    Emails,                 \* as they are spelled
    Asked,                  \* the spellings in a call
    GraphEmails,            \* the spellings that /me returns
    Lower,                  \* the spelling of an e-mail in lower case
    Nobody

Workers == Calls \cup Flows \cup Links
Kinds == <<Calls, Flows, Links, Callbacks>>

LoginAssumption ==
    /\ \A i, j \in DOMAIN Kinds : i # j => Kinds[i] \cap Kinds[j] = {}
    /\ ProcOf \in [Workers -> Procs]
    /\ Asked \subseteq Emails /\ GraphEmails \subseteq Emails
    /\ Lower \in [Emails -> Emails] /\ \A e \in Emails : Lower[Lower[e]] = Lower[e]
    /\ Nobody \notin Workers \cup Emails \cup {"none", "waiting", "failed"}

VARIABLES
    row,        \* azure_token_info
    users,      \* azure_user_info: its keys
    states,     \* auth_states of all processes
    waiter,     \* _waiters: what has been heard of the login of each worker
    site,       \* the processes that take their callback server to be running
    up,         \* the one of them that has the port
    lock,       \* _refresh_locks: process and e-mail -> who holds it
    pc,         \* worker or callback -> the step it is at
    mem         \* worker or callback -> what it works on and has found out

dbVars == <<row, users>>
webVars == <<states, waiter, site, up>>
vars == <<dbVars, webVars, lock, pc, mem>>

\* No row; or a row, by its access token and by whether it can be refreshed.
TokenRow == {"none", "fresh", "fresh only", "expired", "dead"}
Memory == [email : Emails \cup {Nobody}, auto : BOOLEAN, wasUp : BOOLEAN,
           got : Emails \cup {Nobody}, on : Workers \cup {Nobody}]
Blank == [email |-> Nobody, auto |-> FALSE, wasUp |-> TRUE, got |-> Nobody, on |-> Nobody]

CallSteps == {"lock", "refresh", "login", "starting", "wait", "result"}

TypeOK ==
    /\ row \in [Emails -> TokenRow]
    /\ users \subseteq Emails
    /\ states \subseteq Workers
    /\ waiter \in [Calls \cup Flows -> {"none", "waiting", "failed"} \cup Emails]
    /\ site \subseteq Procs /\ up \subseteq site /\ Cardinality(up) <= 1
    /\ lock \in [Procs \X Emails -> Calls \cup {Nobody}]
    /\ pc \in [Workers \cup Callbacks -> CallSteps \cup {"idle", "exchange", "answered", "done"}]
    /\ mem \in [Workers \cup Callbacks -> Memory]

Init ==
    /\ row = [e \in Emails |-> "none"] /\ users = {}
    /\ states = {} /\ waiter = [w \in Calls \cup Flows |-> "none"] /\ site = {} /\ up = {}
    /\ lock = [p \in Procs \X Emails |-> Nobody]
    /\ pc = [w \in Workers \cup Callbacks |-> "idle"]
    /\ mem = [w \in Workers \cup Callbacks |-> Blank]

-----------------------------------------------------------------------------
(* auth.db                                                                  *)

\* save_token: what the answer lacks is kept from the row.
Saved(r, hasRefresh) ==
    IF hasRefresh \/ r \in {"fresh", "expired"} THEN "fresh" ELSE "fresh only"

SaveToken(e, hasRefresh) == row' = [row EXCEPT ![e] = Saved(@, hasRefresh)]

-----------------------------------------------------------------------------
Goto(w, step) == pc' = [pc EXCEPT ![w] = step] /\ UNCHANGED mem
Remember(w, step, m) == pc' = [pc EXCEPT ![w] = step] /\ mem' = [mem EXCEPT ![w] = m]

LockOf(v) == <<ProcOf[v], mem[v].email>>
Unlock(v) == lock' = [lock EXCEPT ![LockOf(v)] = Nobody]
\* validate_and_refresh_token returns a token of e, or None, and leaves the lock.
Answer(v, e) == Remember(v, "answered", [mem[v] EXCEPT !.got = e]) /\ Unlock(v)
ReturnNone(v) == Remember(v, "done", Blank) /\ Unlock(v)

\* There is no token to be had from the row: a browser is the last resort.
NoToken(v) ==
    IF mem[v].auto THEN Goto(v, "login") /\ UNCHANGED lock ELSE ReturnNone(v)

-----------------------------------------------------------------------------
(* validate_and_refresh_token                                               *)

Call(v) ==
    /\ pc[v] = "idle"
    /\ \E e \in Asked, auto \in BOOLEAN : Remember(v, "lock", [Blank EXCEPT !.email = e, !.auto = auto])
    /\ UNCHANGED <<dbVars, webVars, lock>>

Reread(v) ==
    LET r == row[mem[v].email] IN
    CASE r \in {"fresh", "fresh only"} -> Remember(v, "answered", [mem[v] EXCEPT !.got = mem[v].email]) /\ UNCHANGED lock
      [] r = "expired" -> Goto(v, "refresh") /\ lock' = [lock EXCEPT ![LockOf(v)] = v]
      [] OTHER -> IF mem[v].auto THEN Goto(v, "login") /\ lock' = [lock EXCEPT ![LockOf(v)] = v]
                  ELSE Remember(v, "done", Blank) /\ UNCHANGED lock

\* Mutant: the lock is not waited for.
TakeLockAnyway(v) ==
    /\ pc[v] = "lock"
    /\ Reread(v)
    /\ UNCHANGED <<dbVars, webVars>>

\* The lock is taken and the row read again without an await in between.
TakeLock(v) ==
    /\ pc[v] = "lock" /\ lock[LockOf(v)] = Nobody
    /\ Reread(v)
    /\ UNCHANGED <<dbVars, webVars>>

\* The token endpoint answers, and the answer is stored.
RefreshOk(v) ==
    /\ pc[v] = "refresh"
    /\ SaveToken(mem[v].email, TRUE) /\ Answer(v, mem[v].email)
    /\ UNCHANGED <<users, webVars>>

\* It rejects the token, cannot be reached, or its answer cannot be stored.
RefreshFails(v) ==
    /\ pc[v] = "refresh"
    /\ NoToken(v)
    /\ UNCHANGED <<dbVars, webVars>>

-----------------------------------------------------------------------------
(* authenticate_with_browser, get_auth_url_for_login                        *)

Heard(w, what) == waiter' = [waiter EXCEPT ![w] = what]

Open(w, wasUp) ==
    /\ states' = states \cup {w}
    /\ IF w \in Links THEN Goto(w, "done") /\ UNCHANGED waiter
       ELSE Heard(w, "waiting") /\ Remember(w, "wait", [mem[w] EXCEPT !.wasUp = wasUp])

\* A login is over: a call goes on to its result, none if e is Nobody.
Over(w, e) ==
    IF w \in Calls THEN Remember(w, "result", [mem[w] EXCEPT !.got = e, !.wasUp = TRUE])
    ELSE Remember(w, "done", Blank)

StopServer(w) == site' = site \ {ProcOf[w]} /\ up' = up \ {ProcOf[w]}

Flow(w) ==
    /\ pc[w] = "idle" /\ w \in Flows \cup Links
    /\ Goto(w, "login")
    /\ UNCHANGED <<dbVars, webVars, lock>>

\* ensure_callback_server, up to the await of the socket.
EnsureServer(w) ==
    /\ pc[w] = "login"
    /\ CASE ProcOf[w] \in site -> Open(w, TRUE) /\ UNCHANGED site
         [] ProcOf[w] \notin site /\ up = {} ->
              site' = site \cup {ProcOf[w]} /\ Goto(w, "starting") /\ UNCHANGED <<states, waiter>>
         \* The port is another process's: only get_auth_url_for_login goes on.
         [] OTHER -> /\ UNCHANGED site
                     /\ IF w \in Links THEN Open(w, FALSE) ELSE Over(w, Nobody) /\ UNCHANGED <<states, waiter>>
    /\ UNCHANGED <<dbVars, up, lock>>

\* Mutant: the port is not exclusive.
StartAnyway(w) ==
    /\ pc[w] = "starting"
    /\ up' = up \cup {ProcOf[w]} /\ Open(w, FALSE)
    /\ UNCHANGED <<dbVars, site, lock>>

StartServer(w) ==
    /\ pc[w] = "starting" /\ up = {}
    /\ up' = {ProcOf[w]} /\ Open(w, FALSE)
    /\ UNCHANGED <<dbVars, site, lock>>

\* Another process was quicker.  A flow gives up and cleans up; after a link the
\* process goes on taking its server to be running.
StartFails(w) ==
    /\ pc[w] = "starting" /\ up # {}
    /\ IF w \in Links THEN Open(w, FALSE) /\ UNCHANGED <<site, up>>
       ELSE StopServer(w) /\ Over(w, Nobody) /\ UNCHANGED <<states, waiter>>
    /\ UNCHANGED <<dbVars, lock>>

\* The end of a wait, by a result or after the timeout.
HearLogin(w) ==
    /\ pc[w] = "wait"
    /\ Over(w, IF waiter[w] \in users THEN waiter[w] ELSE Nobody)
    /\ Heard(w, "none")
    /\ IF mem[w].wasUp THEN UNCHANGED <<site, up>> ELSE StopServer(w)
    /\ UNCHANGED <<dbVars, states, lock>>

\* Mutant: whoever logged in is good enough.
UseLoginOfAnyone(v) ==
    /\ pc[v] = "result"
    /\ IF mem[v].got # Nobody /\ row[mem[v].got] # "none" THEN Answer(v, mem[v].got) ELSE ReturnNone(v)
    /\ UNCHANGED <<dbVars, webVars>>

\* Mutant: without a login the call is left as by any early return.
UseLoginOrLeave(v) ==
    /\ pc[v] = "result"
    /\ IF mem[v].got # Nobody /\ Lower[mem[v].got] = Lower[mem[v].email]
       THEN Answer(v, mem[v].got) ELSE Goto(v, "done") /\ UNCHANGED lock
    /\ UNCHANGED <<dbVars, webVars>>

\* _auto_reauth: the token of another account is not returned.
UseLogin(v) ==
    /\ pc[v] = "result"
    /\ IF /\ mem[v].got # Nobody
          /\ Lower[mem[v].got] = Lower[mem[v].email]
          /\ row[mem[v].got] # "none"
       THEN Answer(v, mem[v].got)
       ELSE ReturnNone(v)
    /\ UNCHANGED <<dbVars, webVars>>

-----------------------------------------------------------------------------
(* The callback server: handle_callback, complete_auth_flow                 *)

\* Mutant: one event for all that wait.
ResolveAll(s, what) ==
    waiter' = [w \in Calls \cup Flows |-> IF waiter[w] = "waiting" THEN what ELSE waiter[w]]

\* _resolve
Resolve(s, what) ==
    waiter' = [w \in Calls \cup Flows |-> IF w = s /\ waiter[w] = "waiting" THEN what ELSE waiter[w]]

\* No state, no code, or a state that is not pending: it wakes nobody.
CallbackRefused(c) ==
    /\ pc[c] = "idle" /\ up # {}
    /\ Goto(c, "done")
    /\ UNCHANGED <<dbVars, webVars, lock>>

CallbackError(c) ==
    /\ pc[c] = "idle"
    /\ \E s \in states :
         /\ ProcOf[s] \in up
         /\ states' = states \ {s}
         /\ Resolve(s, "failed")
    /\ Goto(c, "done")
    /\ UNCHANGED <<dbVars, site, up, lock>>

CallbackCode(c) ==
    /\ pc[c] = "idle"
    /\ \E s \in states :
         /\ ProcOf[s] \in up
         /\ states' = states \ {s}
         /\ Remember(c, "exchange", [Blank EXCEPT !.on = s])
    /\ UNCHANGED <<dbVars, waiter, site, up, lock>>

\* save_user and save_token may fail, which nothing looks at.
LoginSaved(c) ==
    /\ pc[c] = "exchange"
    /\ Remember(c, "done", Blank)
    /\ \E e \in GraphEmails, hasRefresh \in BOOLEAN :
         /\ Resolve(mem[c].on, e)
         /\ users' \in {users, users \cup {e}}
         /\ SaveToken(e, hasRefresh) \/ UNCHANGED row
    /\ UNCHANGED <<states, site, up, lock>>

LoginFails(c) ==
    /\ pc[c] = "exchange"
    /\ Remember(c, "done", Blank)
    /\ Resolve(mem[c].on, "failed")
    /\ UNCHANGED <<dbVars, states, site, up, lock>>

\* The server was stopped while the callback was being handled.
CallbackDies(c) ==
    /\ pc[c] = "exchange" /\ ProcOf[mem[c].on] \notin up
    /\ Remember(c, "done", Blank)
    /\ UNCHANGED <<dbVars, webVars, lock>>

-----------------------------------------------------------------------------
(* Time, and what other processes do to auth.db                             *)

AccessExpires(e) ==
    /\ row[e] \in {"fresh", "fresh only"}
    /\ row' = [row EXCEPT ![e] = IF @ = "fresh" THEN "expired" ELSE "dead"]
    /\ UNCHANGED <<users, webVars, lock, pc, mem>>

RefreshExpires(e) ==
    /\ row[e] \in {"fresh", "expired"}
    /\ row' = [row EXCEPT ![e] = IF @ = "fresh" THEN "fresh only" ELSE "dead"]
    /\ UNCHANGED <<users, webVars, lock, pc, mem>>

\* state_ttl is longer than the wait for a browser.
StateExpires(s) ==
    /\ s \in states /\ pc[s] # "wait"
    /\ states' = states \ {s}
    /\ UNCHANGED <<dbVars, waiter, site, up, lock, pc, mem>>

\* remove_user; cleanup_expired_tokens does it to rows that cannot be refreshed.
RemoveUser(e) ==
    /\ row[e] # "none"
    /\ row' = [row EXCEPT ![e] = "none"]
    /\ UNCHANGED <<users, webVars, lock, pc, mem>>

\* complete_external_login: expect_email has been compared before anything is saved.
ExternalLogin(e) ==
    /\ users' = users \cup {Lower[e]}
    /\ \E hasRefresh \in BOOLEAN : SaveToken(Lower[e], hasRefresh) \/ UNCHANGED row
    /\ UNCHANGED <<webVars, lock, pc, mem>>

Next ==
    \/ \E v \in Calls : Call(v) \/ TakeLock(v) \/ RefreshOk(v) \/ RefreshFails(v) \/ UseLogin(v)
    \/ \E w \in Workers : Flow(w) \/ EnsureServer(w) \/ StartServer(w) \/ StartFails(w) \/ HearLogin(w)
    \/ \E c \in Callbacks :
         \/ CallbackRefused(c) \/ CallbackError(c) \/ CallbackCode(c)
         \/ LoginSaved(c) \/ LoginFails(c) \/ CallbackDies(c)
    \/ \E e \in Emails : AccessExpires(e) \/ RefreshExpires(e) \/ RemoveUser(e)
    \/ \E e \in Asked : ExternalLogin(e)
    \/ \E s \in Workers : StateExpires(s)

Spec == Init /\ [][Next]_vars

-----------------------------------------------------------------------------
Inside == {"refresh", "login", "starting", "wait", "result"}

\* Within a process, two calls for one e-mail are never both past the lock: they
\* neither present its refresh token nor open a browser for it at the same time.
RefreshAlone ==
    \A v, w \in Calls :
        v # w /\ pc[v] \in Inside /\ pc[w] \in Inside => LockOf(v) # LockOf(w)

\* However a call ends, the lock of its e-mail does not stay behind.
LocksReturned ==
    \A k \in DOMAIN lock : lock[k] # Nobody => pc[lock[k]] \in Inside /\ LockOf(lock[k]) = k

\* A token is returned only to who asked for that account, whoever logged in.
AnswersRequested ==
    \A v \in Calls : pc[v] = "answered" => Lower[mem[v].got] = Lower[mem[v].email]

\* What a login hears is what a callback with its own state has brought: unknown
\* states, other logins' errors and their failed exchanges neither wake nor end it.
HearsItsOwn ==
    \A w \in Calls \cup Flows : waiter'[w] \notin {waiter[w], "none", "waiting"} =>
      \E c \in Callbacks :
        /\ pc[c] # "done" /\ pc'[c] = "done"
        /\ \/ pc[c] = "exchange" /\ mem[c].on = w
           \/ pc[c] = "idle" /\ w \in states \ states' /\ waiter'[w] = "failed"
=============================================================================
