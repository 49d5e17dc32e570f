---------------------------- MODULE OAuthAttempts ----------------------------
(***************************************************************************)
(* The attempts of one user to connect Microsoft Graph (session/           *)
(* graph_connect.py): a start makes an attempt and a ticket, a browser     *)
(* trades the ticket for a state and a cookie, and the callback redeems    *)
(* the authorization code.  Attempts are rows of the user's auth.db,       *)
(* tickets and states rows of registry.db, and every step below is one     *)
(* transaction of either.  An attempt, its ticket and its state carry the  *)
(* name of the start that made it.  commit_graph_connection is one step    *)
(* here; GraphConnection models how it gets there.                         *)
(***************************************************************************)
EXTENDS FiniteSets, Integers

CONSTANTS
    Starts,         \* calls of create_connect_attempt
    Browsers,       \* calls of begin_browser_flow
    Callbacks,      \* calls of complete_callback
    Disconnects,    \* calls of disconnect_graph
    Admins,         \* calls of set_status and bump_auth_epoch
    MaxPending,     \* MAX_PENDING_ATTEMPTS
    MaxEpoch,       \* bound: no account change at this epoch
    Scenarios,      \* bound: the sets of calls that are made together
    Mortal,         \* bound: the calls holding a lock that may die on the way
    Nobody

Attempts == Starts
Workers == Starts \cup Browsers \cup Callbacks \cup Disconnects \cup Admins

Kinds == <<Starts, Browsers, Callbacks, Disconnects, Admins>>

ASSUME AttemptsAssumption ==
    /\ \A i, j \in 1..5 : i # j => Kinds[i] \cap Kinds[j] = {}
    /\ IsFiniteSet(Starts)
    /\ MaxPending \in Nat \ {0} /\ MaxEpoch \in Nat
    /\ Scenarios \subseteq SUBSET Workers
    /\ Mortal \subseteq Starts \cup Disconnects /\ Nobody \notin Workers

VARIABLES
    user,       \* the account: status (usable: pending_link or active) and auth_epoch
    attempt,    \* oauth_attempts: status and auth_epoch of each row
    age,        \* attempt -> 0: fresh, 1: its ticket has expired, 2: it has expired
    tickets,    \* oauth_ticket_index
    states,     \* oauth_state_index
    ulock,      \* who holds the user lock
    pc,         \* worker -> the step it is at
    mem,        \* worker -> the attempt it is about, those still to do, what it read
    exchanged,  \* history: which callback presented the code of which attempt to Entra
    linked,     \* history: the attempts whose connection was confirmed
    outdated    \* history: the others that had begun when the account changed

indexVars == <<tickets, states>>
history == <<exchanged, linked, outdated>>
vars == <<user, attempt, age, tickets, states, ulock, pc, mem, exchanged, linked, outdated>>

Active == {"created", "pending", "redeeming"}
Ended == {"completed", "failed", "expired", "superseded"}
StartSteps == {"lock", "house", "house_drop", "prune", "room", "room_fail", "room_drop", "insert", "index"}
BrowserSteps == {"account", "attempt", "bind", "state"}
CallbackSteps == {"account", "attempt", "redeem", "consume", "exchange", "commit", "complete",
                  "fail", "drop"}
DisconnectSteps == {"read", "cancel", "cancel_drop"}
Steps == StartSteps \cup BrowserSteps \cup CallbackSteps \cup DisconnectSteps

Memory == [on : Attempts \cup {Nobody}, todo : SUBSET Attempts, epoch : Nat,
           verdict : {"failed", "expired"}]
Anew(a) == [on |-> a, todo |-> {}, epoch |-> 0, verdict |-> "failed"]
Blank == Anew(Nobody)

TypeOK ==
    /\ user \in [status : {"usable", "disabled"}, epoch : Nat]
    /\ attempt \in [Attempts -> [status : {"none"} \cup Active \cup Ended, epoch : Nat]]
    /\ age \in [Attempts -> 0..2]
    /\ tickets \subseteq Attempts /\ states \subseteq Attempts
    /\ ulock \in Starts \cup {Nobody}
    /\ pc \in [Workers -> Steps \cup {"idle", "done", "issued", "redirected"}]
    /\ mem \in [Workers -> Memory]
    /\ exchanged \subseteq Callbacks \X Attempts /\ linked \subseteq Attempts /\ outdated \subseteq Attempts

Init ==
    /\ user = [status |-> "usable", epoch |-> 0]
    /\ attempt = [a \in Attempts |-> [status |-> "none", epoch |-> 0]]
    /\ age = [a \in Attempts |-> 0]
    /\ tickets = {} /\ states = {} /\ ulock = Nobody
    /\ \E made \in Scenarios : pc = [w \in Workers |-> IF w \in made THEN "idle" ELSE "done"]
    /\ mem = [w \in Workers |-> Blank]
    /\ exchanged = {} /\ linked = {} /\ outdated = {}

-----------------------------------------------------------------------------
Usable == user.status = "usable"
InStatus(S) == {a \in Attempts : attempt[a].status \in S}
On(w) == mem[w].on
Row(w) == attempt[mem[w].on]

\* Mutant: the status is not a condition of the update.
SetStatusAlways(a, from, to) == attempt' = [attempt EXCEPT ![a].status = to]
\* transition_attempt and fail_attempt: an update conditional on the row's status.
SetStatus(a, from, to) ==
    attempt' = IF attempt[a].status \in from THEN [attempt EXCEPT ![a].status = to] ELSE attempt

DropIndexes(a) == tickets' = tickets \ {a} /\ states' = states \ {a}

Goto(w, step, m) == pc' = [pc EXCEPT ![w] = step] /\ mem' = [mem EXCEPT ![w] = m]
GotoStep(w, step) == Goto(w, step, mem[w])
About(w) == Anew(On(w))
\* The next of those still to do.
TakeUp(w, a) == [on |-> a, todo |-> mem[w].todo \ {a}, epoch |-> mem[w].epoch, verdict |-> mem[w].verdict]
End(w) == Goto(w, "done", Blank)
Leave(w) == End(w) /\ ulock' = (IF ulock = w THEN Nobody ELSE ulock)

-----------------------------------------------------------------------------
(* create_connect_attempt                                                   *)

StartCheck(s) ==
    /\ pc[s] = "idle" /\ Usable
    /\ Goto(s, "lock", [Blank EXCEPT !.epoch = user.epoch])
    /\ UNCHANGED <<user, attempt, age, indexVars, ulock, history>>

\* Mutant: the lock is not waited for.
TakeUserLockAnyway(s) ==
    /\ pc[s] = "lock"
    /\ ulock' = s
    /\ Goto(s, "house", [mem[s] EXCEPT !.todo = InStatus(Active)])
    /\ UNCHANGED <<user, attempt, age, indexVars, history>>

\* Under the user lock: _housekeeping reads the active attempts.
TakeUserLock(s) ==
    /\ pc[s] = "lock" /\ ulock = Nobody
    /\ ulock' = s
    /\ Goto(s, "house", [mem[s] EXCEPT !.todo = InStatus(Active)])
    /\ UNCHANGED <<user, attempt, age, indexVars, history>>

LockTimeout(s) ==
    /\ pc[s] = "lock" /\ ulock # Nobody
    /\ Leave(s)
    /\ UNCHANGED <<user, attempt, age, indexVars, history>>

ExpireOne(s) ==
    /\ pc[s] = "house"
    /\ \E a \in mem[s].todo :
         /\ age[a] = 2
         /\ SetStatus(a, Active, "expired")
         /\ Goto(s, "house_drop", TakeUp(s, a))
    /\ UNCHANGED <<user, age, indexVars, ulock, history>>

SkipFresh(s) ==
    /\ pc[s] = "house"
    /\ \E a \in mem[s].todo : age[a] # 2 /\ Goto(s, "house", [mem[s] EXCEPT !.todo = @ \ {a}])
    /\ UNCHANGED <<user, attempt, age, indexVars, ulock, history>>

\* drop_attempt_indexes, after each attempt _housekeeping or _make_room ended.
DropEnded(s) ==
    /\ \/ pc[s] = "house_drop" /\ GotoStep(s, "house")
       \/ pc[s] = "room_drop" /\ GotoStep(s, "room")
    /\ DropIndexes(On(s))
    /\ UNCHANGED <<user, attempt, age, ulock, history>>

\* Rows that ended long ago are deleted.
PruneAttempts(s) ==
    /\ pc[s] = "house" /\ mem[s].todo = {}
    /\ \E old \in SUBSET {a \in InStatus(Ended) : age[a] = 2} :
         attempt' = [a \in Attempts |->
            IF a \in old THEN [status |-> "none", epoch |-> attempt[a].epoch] ELSE attempt[a]]
    /\ GotoStep(s, "prune")
    /\ UNCHANGED <<user, age, indexVars, ulock, history>>

PruneIndexes(s) ==
    /\ pc[s] = "prune"
    /\ tickets' = {a \in tickets : age[a] = 0}
    /\ states' = {a \in states : age[a] # 2}
    /\ GotoStep(s, "room")
    /\ UNCHANGED <<user, attempt, age, ulock, history>>

\* _make_room: the oldest attempt not yet redeeming gives way, unless it is by
\* now; which one is the oldest is left open.
MakeRoom(s) ==
    /\ pc[s] = "room" /\ Cardinality(InStatus(Active)) >= MaxPending
    /\ \E a \in InStatus({"created", "pending"}) : Goto(s, "room_fail", [mem[s] EXCEPT !.on = a])
    /\ UNCHANGED <<user, attempt, age, indexVars, ulock, history>>

Supersede(s) ==
    /\ pc[s] = "room_fail"
    /\ SetStatus(On(s), {"created", "pending"}, "superseded")
    /\ GotoStep(s, "room_drop")
    /\ UNCHANGED <<user, age, indexVars, ulock, history>>

Overloaded(s) ==
    /\ pc[s] = "room" /\ Cardinality(InStatus(Active)) >= MaxPending
    /\ InStatus({"created", "pending"}) = {}
    /\ Leave(s)
    /\ UNCHANGED <<user, attempt, age, indexVars, history>>

RoomFound(s) ==
    /\ pc[s] = "room" /\ Cardinality(InStatus(Active)) < MaxPending
    /\ GotoStep(s, "insert")
    /\ UNCHANGED <<user, attempt, age, indexVars, ulock, history>>

\* Mutant: the row does not say which epoch it belongs to.
InsertWithoutEpoch(s) ==
    /\ pc[s] = "insert"
    /\ attempt' = [attempt EXCEPT ![s] = [status |-> "created", epoch |-> Nobody]]
    /\ GotoStep(s, "index")
    /\ UNCHANGED <<user, age, indexVars, ulock, history>>

InsertAttempt(s) ==
    /\ pc[s] = "insert"
    /\ attempt' = [attempt EXCEPT ![s] = [status |-> "created", epoch |-> mem[s].epoch]]
    /\ GotoStep(s, "index")
    /\ UNCHANGED <<user, age, indexVars, ulock, history>>

IndexTicket(s) ==
    /\ pc[s] = "index"
    /\ tickets' = tickets \cup {s}
    /\ Goto(s, "issued", Anew(s))
    /\ ulock' = Nobody
    /\ UNCHANGED <<user, attempt, age, states, history>>

-----------------------------------------------------------------------------
(* begin_browser_flow                                                       *)

\* Mutant: the ticket is looked up and not consumed.
TakeTicketKept(b) ==
    /\ pc[b] = "idle"
    /\ \E a \in Attempts :
         /\ pc[a] = "issued"
         /\ IF a \in tickets THEN Goto(b, "account", Anew(a)) ELSE End(b)
    /\ UNCHANGED <<user, attempt, age, indexVars, ulock, history>>

\* take_ticket reads and deletes in one transaction.
TakeTicket(b) ==
    /\ pc[b] = "idle"
    /\ \E a \in Attempts :
         /\ pc[a] = "issued"
         /\ tickets' = tickets \ {a}
         /\ IF a \in tickets THEN Goto(b, "account", Anew(a)) ELSE End(b)
    /\ UNCHANGED <<user, attempt, age, states, ulock, history>>

\* get_user, for a browser and for a callback.
ReadAccount(w) ==
    /\ w \in Browsers \cup Callbacks
    /\ pc[w] = "account"
    /\ IF w \in Browsers /\ ~Usable
       THEN End(w)
       ELSE Goto(w, "attempt", [mem[w] EXCEPT !.epoch = user.epoch])
    /\ UNCHANGED <<user, attempt, age, indexVars, ulock, history>>

\* The ticket's attempt: bound to this browser, or ended if too late or of another epoch.
CheckTicket(b) ==
    /\ b \in Browsers /\ pc[b] = "attempt"
    /\ LET fresh == age[On(b)] = 0
           good == Row(b).status = "created" /\ fresh /\ Row(b).epoch = mem[b].epoch
       IN  /\ IF good THEN Goto(b, "bind", About(b)) ELSE End(b)
           /\ IF Row(b).status = "created" /\ ~good
              THEN SetStatus(On(b), Active, IF fresh THEN "failed" ELSE "expired")
              ELSE UNCHANGED attempt
    /\ UNCHANGED <<user, age, indexVars, ulock, history>>

BindBrowser(b) ==
    /\ pc[b] = "bind"
    /\ SetStatus(On(b), {"created"}, "pending")
    /\ IF Row(b).status = "created" THEN GotoStep(b, "state") ELSE End(b)
    /\ UNCHANGED <<user, age, indexVars, ulock, history>>

IndexState(b) ==
    /\ pc[b] = "state"
    /\ states' = states \cup {On(b)}
    /\ GotoStep(b, "redirected")
    /\ UNCHANGED <<user, attempt, age, tickets, ulock, history>>

-----------------------------------------------------------------------------
(* complete_callback.  Whoever knows the state may call back, any number of *)
(* times, from any browser.                                                 *)

LookupState(c) ==
    /\ pc[c] = "idle"
    /\ \E b \in Browsers :
         /\ pc[b] = "redirected"
         /\ IF On(b) \in states THEN Goto(c, "account", Anew(On(b))) ELSE End(c)
    /\ UNCHANGED <<user, attempt, age, indexVars, ulock, history>>

\* Only what get_attempt returned is looked at; the update comes later.
CheckPending(c) ==
    /\ c \in Callbacks /\ pc[c] = "attempt"
    /\ \E cookie \in {"own", "other"}, query \in {"code", "error"} :
         LET late == age[On(c)] = 2
             good == /\ ~late /\ cookie = "own" /\ query = "code"
                     /\ Usable /\ Row(c).epoch = mem[c].epoch
         IN  IF Row(c).status # "pending" THEN End(c)
             ELSE IF good THEN Goto(c, "redeem", About(c))
             ELSE Goto(c, "fail", [About(c) EXCEPT !.verdict = IF late THEN "expired" ELSE "failed"])
    /\ UNCHANGED <<user, attempt, age, indexVars, ulock, history>>

\* Mutant: the transition's result is not looked at.
RedeemAnyway(c) ==
    /\ pc[c] = "redeem"
    /\ SetStatus(On(c), {"pending"}, "redeeming")
    /\ GotoStep(c, "consume")
    /\ UNCHANGED <<user, age, indexVars, ulock, history>>

Redeem(c) ==
    /\ pc[c] = "redeem"
    /\ SetStatus(On(c), {"pending"}, "redeeming")
    /\ IF Row(c).status = "pending" THEN GotoStep(c, "consume") ELSE End(c)
    /\ UNCHANGED <<user, age, indexVars, ulock, history>>

ConsumeState(c) ==
    /\ pc[c] = "consume"
    /\ states' = states \ {On(c)}
    /\ GotoStep(c, "exchange")
    /\ UNCHANGED <<user, attempt, age, tickets, ulock, history>>

\* Entra and Graph answer; tokens, ID token and account are in order, or not.
Exchange(c) ==
    /\ pc[c] = "exchange"
    /\ exchanged' = exchanged \cup {<<c, On(c)>>}
    /\ \E next \in {"commit", "fail"} : GotoStep(c, next)
    /\ UNCHANGED <<user, attempt, age, indexVars, ulock, linked, outdated>>

\* A disconnect holds the refresh lock until it has ended the attempts.
RefreshLockFree == \A u \in Disconnects : pc[u] \notin DisconnectSteps

\* The account changes under every attempt that has begun, but for those it is linked by.
Outdate(kept) == outdated' = outdated \cup ({a \in Attempts : pc[a] # "idle"} \ kept)

\* Mutant: the account's epoch is not compared again.
CommitAnyEpoch(c) ==
    /\ pc[c] = "commit" /\ RefreshLockFree /\ user.epoch < MaxEpoch
    /\ IF Usable
       THEN /\ user' = [user EXCEPT !.epoch = @ + 1]
            /\ linked' = linked \cup {On(c)} /\ Outdate(linked \cup {On(c)})
            /\ GotoStep(c, "complete")
       ELSE UNCHANGED <<user, linked, outdated>> /\ GotoStep(c, "fail")
    /\ UNCHANGED <<attempt, age, indexVars, ulock, exchanged>>

\* Mutant: what the commit answers is not looked at.
CommitUnlooked(c) ==
    /\ pc[c] = "commit" /\ RefreshLockFree /\ user.epoch < MaxEpoch
    /\ IF Usable /\ user.epoch = Row(c).epoch
       THEN /\ user' = [user EXCEPT !.epoch = @ + 1]
            /\ linked' = linked \cup {On(c)} /\ Outdate(linked \cup {On(c)})
       ELSE UNCHANGED <<user, linked, outdated>>
    /\ GotoStep(c, "complete")
    /\ UNCHANGED <<attempt, age, indexVars, ulock, exchanged>>

Commit(c) ==
    /\ pc[c] = "commit" /\ RefreshLockFree /\ user.epoch < MaxEpoch
    /\ IF Usable /\ user.epoch = Row(c).epoch
       THEN /\ user' = [user EXCEPT !.epoch = @ + 1]
            /\ linked' = linked \cup {On(c)} /\ Outdate(linked \cup {On(c)})
            /\ GotoStep(c, "complete")
       ELSE UNCHANGED <<user, linked, outdated>> /\ GotoStep(c, "fail")
    /\ UNCHANGED <<attempt, age, indexVars, ulock, exchanged>>

CommitBusy(c) ==
    /\ pc[c] = "commit"
    /\ GotoStep(c, "fail")
    /\ UNCHANGED <<user, attempt, age, indexVars, ulock, history>>

Complete(c) ==
    /\ pc[c] = "complete"
    /\ SetStatus(On(c), {"redeeming"}, "completed")
    /\ GotoStep(c, "drop")
    /\ UNCHANGED <<user, age, indexVars, ulock, history>>

\* fail(): whatever active status the row has by now.
FailAttempt(c) ==
    /\ pc[c] = "fail"
    /\ SetStatus(On(c), Active, mem[c].verdict)
    /\ GotoStep(c, "drop")
    /\ UNCHANGED <<user, age, indexVars, ulock, history>>

DropAttempt(c) ==
    /\ pc[c] = "drop"
    /\ DropIndexes(On(c))
    /\ End(c)
    /\ UNCHANGED <<user, attempt, age, ulock, history>>

-----------------------------------------------------------------------------
(* attempt_status, disconnect_graph and the administrator                   *)

\* What has expired stays so and the update is conditional: reading and failing
\* need not be told apart.
PollStatus(a) ==
    /\ attempt[a].status \in Active /\ age[a] = 2
    /\ SetStatus(a, Active, "expired")
    /\ UNCHANGED <<user, age, indexVars, ulock, pc, mem, history>>

Unlink(u) ==
    /\ pc[u] = "idle" /\ user.epoch < MaxEpoch /\ RefreshLockFree
    /\ user' = [user EXCEPT !.epoch = @ + 1] /\ Outdate(linked)
    /\ GotoStep(u, "read")
    /\ UNCHANGED <<attempt, age, indexVars, ulock, exchanged, linked>>

ReadActive(u) ==
    /\ pc[u] = "read"
    /\ Goto(u, "cancel", [Blank EXCEPT !.todo = InStatus(Active)])
    /\ UNCHANGED <<user, attempt, age, indexVars, ulock, history>>

CancelOne(u) ==
    /\ pc[u] = "cancel"
    /\ \E a \in mem[u].todo :
         /\ SetStatus(a, Active, "failed")
         /\ Goto(u, "cancel_drop", TakeUp(u, a))
    /\ UNCHANGED <<user, age, indexVars, ulock, history>>

DropCancelled(u) ==
    /\ pc[u] = "cancel_drop"
    /\ DropIndexes(On(u))
    /\ GotoStep(u, "cancel")
    /\ UNCHANGED <<user, attempt, age, ulock, history>>

DisconnectEnds(u) ==
    /\ pc[u] = "cancel" /\ mem[u].todo = {}
    /\ End(u)
    /\ UNCHANGED <<user, attempt, age, indexVars, ulock, history>>

\* Disable, enable or bump: the epoch grows in any case.
Administer(d) ==
    /\ pc[d] = "idle" /\ user.epoch < MaxEpoch
    /\ \E status \in {"usable", "disabled"} : user' = [status |-> status, epoch |-> user.epoch + 1]
    /\ Outdate(linked)
    /\ End(d)
    /\ UNCHANGED <<attempt, age, indexVars, ulock, exchanged, linked>>

\* Five minutes for a ticket and ten for an attempt; a ticket that is gone does not age.
Age(a) ==
    /\ attempt[a].status # "none" /\ age[a] < 2
    /\ age' = [age EXCEPT ![a] = IF attempt[a].status = "created" \/ a \in tickets THEN @ + 1 ELSE 2]
    /\ UNCHANGED <<user, attempt, indexVars, ulock, pc, mem, history>>

\* A start or a disconnect dies between two transactions and the system releases
\* its lock.  For the calls that hold none, to die is never to take another step.
Crash(w) ==
    /\ pc[w] \in StartSteps \cup DisconnectSteps
    /\ Leave(w)
    /\ UNCHANGED <<user, attempt, age, indexVars, history>>

-----------------------------------------------------------------------------
Start(s) ==
    \/ StartCheck(s) \/ TakeUserLock(s) \/ LockTimeout(s)
    \/ ExpireOne(s) \/ SkipFresh(s) \/ DropEnded(s) \/ PruneAttempts(s) \/ PruneIndexes(s)
    \/ MakeRoom(s) \/ Supersede(s) \/ Overloaded(s) \/ RoomFound(s) \/ InsertAttempt(s) \/ IndexTicket(s)

Browser(b) == TakeTicket(b) \/ ReadAccount(b) \/ CheckTicket(b) \/ BindBrowser(b) \/ IndexState(b)

Callback(c) ==
    \/ LookupState(c) \/ ReadAccount(c) \/ CheckPending(c) \/ Redeem(c) \/ ConsumeState(c)
    \/ Exchange(c) \/ Commit(c) \/ CommitBusy(c) \/ Complete(c) \/ FailAttempt(c) \/ DropAttempt(c)

Disconnect(u) ==
    Unlink(u) \/ ReadActive(u) \/ CancelOne(u) \/ DropCancelled(u) \/ DisconnectEnds(u)

Next ==
    \/ \E s \in Starts : Start(s) \/ PollStatus(s) \/ Age(s)
    \/ \E b \in Browsers : Browser(b)
    \/ \E c \in Callbacks : Callback(c)
    \/ \E u \in Disconnects : Disconnect(u)
    \/ \E w \in Mortal : Crash(w)
    \/ \E d \in Admins : Administer(d)

Spec == Init /\ [][Next]_vars

-----------------------------------------------------------------------------
\* An authorization code is presented to Entra at most once, whatever number of
\* callbacks, replays and crashes: only one of them moves the attempt to redeeming.
CodeExchangedOnce == \A p, q \in exchanged : p[2] = q[2] => p = q

\* A ticket binds at most one browser.
TicketUsedOnce ==
    \A b, d \in Browsers :
        pc[b] \in BrowserSteps \cup {"redirected"} /\ pc[d] \in BrowserSteps \cup {"redirected"}
            /\ On(b) = On(d) => b = d

\* Parallel starts never leave more attempts under way than MAX_PENDING_ATTEMPTS.
AttemptsBounded == Cardinality(InStatus(Active)) <= MaxPending

\* An attempt connects the account only as it was when the attempt began: not after another
\* attempt connected it, nor after a disconnect, a disablement (ended again or not) or a bump
\* in between, however late its callback comes.
LinksUnchangedAccount == linked \cap outdated = {}

\* An attempt that has ended never comes back to life, nor ends differently: a late
\* callback does not turn an expired or cancelled attempt into a completed one.
EndedStays ==
    [][\A a \in Attempts : attempt[a].status \in Ended => attempt'[a].status \in {attempt[a].status, "none"}]_vars

\* An attempt reported completed did connect the account.
CompletedIsLinked == InStatus({"completed"}) \subseteq linked

\* A callback that lost the race leaves the attempt another one is redeeming alone.
ReplayLeavesRedeeming ==
    [][\A c \in Callbacks : FailAttempt(c) /\ Row(c).status = "redeeming" => <<c, On(c)>> \in exchanged]_vars
=============================================================================
