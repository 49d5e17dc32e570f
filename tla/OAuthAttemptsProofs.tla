------------------------- MODULE OAuthAttemptsProofs -------------------------
(* Proofs about OAuthAttempts for any number of starts, browsers, callbacks,*)
(* disconnects and deaths.  No status is ever left and entered again, so    *)
(* whoever moved an attempt on is the only one who did; the user lock makes *)
(* the check of MAX_PENDING_ATTEMPTS and the insertion one step.            *)
EXTENDS OAuthAttempts, FiniteSetTheorems, TLAPS

\* Which program points each kind of call can reach.
KindOK ==
    /\ \A s \in Starts : pc[s] \in StartSteps \cup {"idle", "done", "issued"}
    /\ \A b \in Browsers : pc[b] \in BrowserSteps \cup {"idle", "done", "redirected"}
    /\ \A c \in Callbacks : pc[c] \in CallbackSteps \cup {"idle", "done"}
    /\ \A u \in Disconnects : pc[u] \in DisconnectSteps \cup {"idle", "done"}
    /\ \A d \in Admins : pc[d] \in {"idle", "done"}

\* A start that has not inserted its row yet, and may still.
Before == (StartSteps \ {"index"}) \cup {"idle"}
Made ==
    /\ \A a \in Attempts : pc[a] \in Before => attempt[a].status = "none"
    /\ \A a \in tickets : pc[a] = "issued"

\* Whoever works on an attempt learned of it after it was issued.
Bound == BrowserSteps \cup {"redirected"}
OnIssued ==
    /\ \A b \in Browsers : pc[b] \in Bound => On(b) \in Attempts /\ pc[On(b)] = "issued"
    /\ \A c \in Callbacks : pc[c] \in CallbackSteps => On(c) \in Attempts /\ pc[On(c)] = "issued"
    /\ \A p \in exchanged : pc[p[2]] = "issued"
    /\ \A a \in linked : pc[a] = "issued"

\* A ticket in the index is in no browser's hands.
TicketsFresh == \A b \in Browsers : pc[b] \in Bound => On(b) \notin tickets

\* Who won the move to redeeming, until the code is presented.
Redeemer == {"consume", "exchange"}
Redeemed(a) == attempt[a].status \notin {"created", "pending"}
RedeemedStays ==
    /\ \A c \in Callbacks : pc[c] \in Redeemer => Redeemed(On(c))
    /\ \A p \in exchanged : Redeemed(p[2])

RedeemersApart ==
    \A c \in Callbacks : pc[c] \in Redeemer =>
        /\ \A d \in Callbacks : pc[d] \in Redeemer /\ On(d) = On(c) => d = c
        /\ \A p \in exchanged : p[2] # On(c)

\* No row and no start is ahead of the account; the outdated ones are behind it.
EpochsPast == \A a \in Attempts : attempt[a].epoch <= user.epoch /\ mem[a].epoch <= user.epoch
OutdatedOld ==
    \A a \in outdated : pc[a] # "idle" /\ attempt[a].epoch < user.epoch /\ mem[a].epoch < user.epoch

CompleteLinked == \A c \in Callbacks : pc[c] = "complete" => On(c) \in linked

LockHeld == \A s \in Starts : pc[s] \in StartSteps \ {"lock"} => ulock = s

RoomHeld == \A s \in Starts : pc[s] = "insert" => Cardinality(InStatus(Active)) < MaxPending

IInv ==
    /\ TypeOK /\ KindOK /\ Made /\ OnIssued
    /\ TicketsFresh /\ TicketUsedOnce
    /\ RedeemedStays /\ RedeemersApart /\ CodeExchangedOnce
    /\ EpochsPast /\ OutdatedOld /\ LinksUnchangedAccount /\ CompleteLinked /\ CompletedIsLinked
    /\ LockHeld /\ RoomHeld /\ AttemptsBounded
-----------------------------------------------------------------------------
(* What a step does, by who takes it.                                       *)

USE DEF Attempts, On, Row, Usable

LEMMA Disjoint ==
    /\ Starts \cap Browsers = {} /\ Starts \cap Callbacks = {} /\ Starts \cap Disconnects = {}
    /\ Starts \cap Admins = {} /\ Browsers \cap Callbacks = {} /\ Browsers \cap Disconnects = {}
    /\ Browsers \cap Admins = {} /\ Callbacks \cap Disconnects = {} /\ Callbacks \cap Admins = {}
    /\ Disconnects \cap Admins = {}
<1>1. /\ Kinds[1] = Starts /\ Kinds[2] = Browsers /\ Kinds[3] = Callbacks
      /\ Kinds[4] = Disconnects /\ Kinds[5] = Admins
  BY DEF Kinds
<1> QED  BY <1>1, AttemptsAssumption

\* The step of w leaves the place and the memory of everyone else alone.
Only(w) == \A v \in Workers : v # w => pc'[v] = pc[v] /\ mem'[v] = mem[v]

LEMMA StartOnly == ASSUME TypeOK, NEW s \in Starts, Start(s) PROVE Only(s)
  BY SMTT(60) DEF TypeOK, Only, Goto, GotoStep, End, Leave, Workers, Start, StartCheck,
     TakeUserLock, LockTimeout, ExpireOne, SkipFresh, DropEnded, PruneAttempts, PruneIndexes,
     MakeRoom, Supersede, Overloaded, RoomFound, InsertAttempt, IndexTicket

LEMMA BrowserOnly == ASSUME TypeOK, NEW b \in Browsers, Browser(b) PROVE Only(b)
  BY SMTT(60) DEF TypeOK, Only, Goto, GotoStep, End, Leave, Workers, Browser, TakeTicket,
     ReadAccount, CheckTicket, BindBrowser, IndexState

LEMMA CallbackOnly == ASSUME TypeOK, NEW c \in Callbacks, Callback(c) PROVE Only(c)
  BY SMTT(60) DEF TypeOK, Only, Goto, GotoStep, End, Leave, Workers, Callback, LookupState,
     ReadAccount, CheckPending, Redeem, ConsumeState, Exchange, Commit, CommitBusy, Complete,
     FailAttempt, DropAttempt

LEMMA DisconnectOnly == ASSUME TypeOK, NEW u \in Disconnects, Disconnect(u) PROVE Only(u)
  BY SMTT(60) DEF TypeOK, Only, Goto, GotoStep, End, Leave, Workers, Disconnect, Unlink,
     ReadActive, CancelOne, DropCancelled, DisconnectEnds

\* A death or an administrator's change.
LEMMA OtherOnly == ASSUME TypeOK, NEW w \in Workers, Crash(w) \/ Administer(w) PROVE Only(w)
  BY SMTT(60) DEF TypeOK, Only, Goto, End, Leave, Crash, Administer

\* What one step of a start does.
LEMMA StartMoves ==
  ASSUME IInv, NEW s \in Starts, Start(s)
  PROVE  /\ UNCHANGED <<user, age, exchanged, linked>>
         /\ pc[s] \notin {"issued", "done"}
         /\ pc'[s] \in StartSteps \cup {"idle", "done", "issued"}
         /\ pc'[s] \in Before => pc[s] \in Before
         /\ pc'[s] = "index" => pc[s] = "insert"
         /\ \/ tickets' \subseteq tickets
            \/ pc[s] = "index" /\ tickets' = tickets \cup {s} /\ pc'[s] = "issued"
  BY SMTT(60) DEF IInv, TypeOK, KindOK, LockHeld, Before, StartSteps, Goto, GotoStep, End, Leave,
     About, TakeUp, Anew, Blank, indexVars, history, Workers,
     DropIndexes, Start, StartCheck, TakeUserLock, LockTimeout, ExpireOne, SkipFresh, DropEnded,
        PruneAttempts, PruneIndexes, MakeRoom, Supersede, Overloaded, RoomFound, InsertAttempt,
        IndexTicket

LEMMA StartLocks ==
  ASSUME IInv, NEW s \in Starts, Start(s)
  PROVE  /\ pc'[s] \in StartSteps \ {"lock"} => ulock' = s
         /\ ulock' = ulock \/ (ulock = Nobody /\ ulock' = s) \/ (ulock = s /\ ulock' = Nobody)
  BY SMTT(60) DEF IInv, TypeOK, KindOK, LockHeld, StartSteps, Goto, GotoStep, End, Leave, About,
     TakeUp, Anew, Blank, indexVars, history, Workers,
     DropIndexes, Start, StartCheck, TakeUserLock, LockTimeout, ExpireOne, SkipFresh, DropEnded,
        PruneAttempts, PruneIndexes, MakeRoom, Supersede, Overloaded, RoomFound, InsertAttempt,
        IndexTicket

\* What one step of a browser does.
LEMMA BrowserMoves ==
  ASSUME IInv, NEW b \in Browsers, Browser(b)
  PROVE  /\ UNCHANGED <<user, age, ulock, exchanged, linked>>
         /\ tickets' \subseteq tickets
         /\ pc'[b] \in Bound \cup {"idle", "done"}
         /\ pc'[b] \in Bound =>
              \/ pc[b] = "idle" /\ mem'[b].on \in tickets \ tickets'
              \/ pc[b] \in Bound /\ mem'[b].on = On(b)
  BY SMTT(60) DEF IInv, TypeOK, KindOK, Bound, BrowserSteps, Goto, GotoStep, End, Leave, About,
     TakeUp, Anew, Blank, indexVars, history, Workers, Memory,
     Browser, TakeTicket, ReadAccount, CheckTicket, BindBrowser, IndexState

\* What one step of a callback does.
LEMMA CallbackMoves ==
  ASSUME IInv, NEW c \in Callbacks, Callback(c)
  PROVE  /\ UNCHANGED <<age, ulock>>
         /\ tickets' \subseteq tickets
         /\ pc'[c] \in CallbackSteps \cup {"idle", "done"}
  BY SMTT(60) DEF IInv, TypeOK, KindOK, CallbackSteps, Redeemer, Goto, GotoStep, End, Leave,
     About, TakeUp, Anew, Blank, indexVars, history, Workers, Memory,
     DropIndexes, Callback, LookupState, ReadAccount, CheckPending, Redeem, ConsumeState,
        Exchange, Commit, CommitBusy, Complete, FailAttempt, DropAttempt

LEMMA CallbackOn ==
  ASSUME IInv, NEW c \in Callbacks, Callback(c), pc'[c] \in CallbackSteps
  PROVE  \/ pc[c] = "idle" /\ \E b \in Browsers : pc[b] = "redirected" /\ mem'[c].on = On(b)
         \/ pc[c] \in CallbackSteps /\ mem'[c].on = On(c)
  BY SMTT(60) DEF IInv, TypeOK, KindOK, CallbackSteps, Goto, GotoStep, End, Leave, About, TakeUp,
     Anew, Blank, Workers, Memory,
     Callback, LookupState, ReadAccount, CheckPending, Redeem, ConsumeState, Exchange, Commit,
        CommitBusy, Complete, FailAttempt, DropAttempt

LEMMA CallbackRedeems ==
  ASSUME IInv, NEW c \in Callbacks, Callback(c)
  PROVE  /\ pc'[c] = "consume" =>
              pc[c] = "redeem" /\ Row(c).status = "pending" /\ attempt'[On(c)].status = "redeeming"
         /\ pc'[c] = "exchange" => pc[c] = "consume"
         /\ \/ exchanged' = exchanged
            \/ pc[c] = "exchange" /\ pc'[c] \notin Redeemer /\ exchanged' = exchanged \cup {<<c, On(c)>>}
  BY SMTT(60) DEF IInv, TypeOK, KindOK, OnIssued, SetStatus, CallbackSteps, Redeemer, Goto,
     GotoStep, End, Leave, About, TakeUp, Anew, Blank, indexVars, history, Workers, Memory,
     DropIndexes, Callback, LookupState, ReadAccount, CheckPending, Redeem, ConsumeState,
        Exchange, Commit, CommitBusy, Complete, FailAttempt, DropAttempt

LEMMA CallbackLinks ==
  ASSUME IInv, NEW c \in Callbacks, Callback(c)
  PROVE  \/ UNCHANGED <<user, linked>> /\ pc'[c] # "complete"
         \/ /\ pc[c] = "commit" /\ Row(c).epoch = user.epoch /\ user'.epoch = user.epoch + 1
            /\ linked' = linked \cup {On(c)} /\ UNCHANGED <<attempt, mem>>
  BY SMTT(60) DEF IInv, TypeOK, KindOK, CallbackSteps, Goto, GotoStep, End, Leave, About, TakeUp,
     Anew, Blank, indexVars, history, Workers, Memory,
     DropIndexes, Callback, LookupState, ReadAccount, CheckPending, Redeem, ConsumeState,
        Exchange, Commit, CommitBusy, Complete, FailAttempt, DropAttempt

\* What one step of a disconnect, a death, an administrator's change or time does.
LEMMA DisconnectMoves ==
  ASSUME IInv, NEW u \in Disconnects, Disconnect(u)
  PROVE  /\ UNCHANGED <<age, ulock, exchanged, linked>>
         /\ tickets' \subseteq tickets /\ user'.epoch >= user.epoch
         /\ pc'[u] \in DisconnectSteps \cup {"idle", "done"}
  BY SMTT(60) DEF IInv, TypeOK, KindOK, DisconnectSteps, Goto, GotoStep, End, Leave, About,
     TakeUp, Anew, Blank, indexVars, history, Workers, Memory,
     DropIndexes, Disconnect, Unlink, ReadActive, CancelOne, DropCancelled, DisconnectEnds
\* What one step does to the rows.
Edge(a) ==
    \/ attempt'[a] = attempt[a]
    \/ /\ attempt'[a].epoch = attempt[a].epoch
       /\ \/ attempt[a].status \in Active /\ attempt'[a].status \in Ended \ {"completed"}
          \/ attempt[a].status \in Ended /\ attempt'[a].status = "none"
          \/ attempt[a].status = "created" /\ attempt'[a].status = "pending"
          \/ attempt[a].status = "pending" /\ attempt'[a].status = "redeeming"
          \/ attempt[a].status = "redeeming" /\ attempt'[a].status = "completed" /\ a \in linked
    \/ /\ pc[a] = "insert" /\ pc'[a] = "index"
       /\ attempt'[a].status = "created" /\ attempt'[a].epoch = mem[a].epoch

LEMMA StartRows == ASSUME IInv, NEW s \in Starts, Start(s) PROVE \A a \in Attempts : Edge(a)
<1>1. CASE ExpireOne(s) \/ Supersede(s)
  BY <1>1, SMTT(60) DEF IInv, TypeOK, SetStatus, ExpireOne, Supersede, Edge, Active, Ended
<1>2. CASE PruneAttempts(s)
  BY <1>2, SMTT(60) DEF IInv, TypeOK, PruneAttempts, Edge, InStatus
<1>3. CASE InsertAttempt(s)
  BY <1>3, SMTT(60) DEF IInv, TypeOK, Workers, InsertAttempt, GotoStep, Goto, Edge
<1>4. CASE UNCHANGED attempt
  BY <1>4 DEF Edge
<1> QED  BY <1>1, <1>2, <1>3, <1>4 DEF Start, StartCheck, TakeUserLock, LockTimeout, SkipFresh,
   DropEnded,
     PruneIndexes, MakeRoom, Overloaded, RoomFound, IndexTicket

LEMMA BrowserRows == ASSUME IInv, NEW b \in Browsers, Browser(b) PROVE \A a \in Attempts : Edge(a)
<1>1. CASE CheckTicket(b)
  <2>1. UNCHANGED attempt \/ \E to \in {"failed", "expired"} : SetStatus(On(b), Active, to)
    BY <1>1 DEF CheckTicket
  <2> QED  BY <2>1, SMTT(60) DEF IInv, TypeOK, SetStatus, Edge, Ended
<1>2. CASE BindBrowser(b)
  BY <1>2, SMTT(60) DEF IInv, TypeOK, SetStatus, BindBrowser, Edge
<1>3. CASE UNCHANGED attempt
  BY <1>3 DEF Edge
<1> QED  BY <1>1, <1>2, <1>3 DEF Browser, TakeTicket, ReadAccount, IndexState

LEMMA CallbackRows == ASSUME IInv, NEW c \in Callbacks, Callback(c) PROVE \A a \in Attempts : Edge(a)
<1>1. CASE Redeem(c)
  BY <1>1, SMTT(60) DEF IInv, TypeOK, SetStatus, Redeem, Edge
<1>2. CASE Complete(c)
  BY <1>2, SMTT(60) DEF IInv, TypeOK, SetStatus, Complete, CompleteLinked, Edge
<1>3. CASE FailAttempt(c)
  <2>1. mem[c].verdict \in Ended \ {"completed"}
    BY DEF IInv, TypeOK, Memory, Workers, Ended
  <2> QED  BY <1>3, <2>1, SMTT(60) DEF IInv, TypeOK, SetStatus, FailAttempt, Edge
<1>4. CASE UNCHANGED attempt
  BY <1>4 DEF Edge
<1> QED  BY <1>1, <1>2, <1>3, <1>4 DEF Callback, LookupState, ReadAccount, CheckPending,
   ConsumeState,
     Exchange, Commit, CommitBusy, DropAttempt

LEMMA DisconnectRows == ASSUME IInv, NEW u \in Disconnects, Disconnect(u) PROVE \A a \in Attempts : Edge(a)
<1>1. CASE CancelOne(u)
  BY <1>1, SMTT(60) DEF IInv, TypeOK, SetStatus, CancelOne, Edge, Ended
<1>2. CASE UNCHANGED attempt
  BY <1>2 DEF Edge
<1> QED  BY <1>1, <1>2 DEF Disconnect, Unlink, ReadActive, DropCancelled, DisconnectEnds

LEMMA RowMoves == ASSUME IInv, [Next]_vars PROVE \A a \in Attempts : Edge(a)
<1>1. CASE \E s \in Starts : PollStatus(s)
  BY <1>1, SMTT(60) DEF IInv, TypeOK, SetStatus, PollStatus, Edge, Ended
<1>2. CASE UNCHANGED attempt
  BY <1>2 DEF Edge
<1> QED  BY <1>1, <1>2, StartRows, BrowserRows, CallbackRows, DisconnectRows
     DEF Next, vars, Age, Crash, Administer

-----------------------------------------------------------------------------
(* TypeOK                                                                   *)

LEMMA Memories ==
    /\ Blank \in Memory
    /\ \A a \in Attempts : Anew(a) \in Memory
  BY SMTT(60) DEF Memory, Blank, Anew

LEMMA StartTypes == ASSUME IInv, NEW s \in Starts, Start(s) PROVE TypeOK'
<1>1. pc' \in [Workers -> Steps \cup {"idle", "done", "issued", "redirected"}]
  BY SMTT(60) DEF IInv, TypeOK, Workers, Steps, StartSteps, BrowserSteps, CallbackSteps,
     DisconnectSteps,
     Goto, GotoStep, End, Leave, Start, StartCheck, TakeUserLock, LockTimeout, ExpireOne,
        SkipFresh, DropEnded, PruneAttempts, PruneIndexes, MakeRoom, Supersede, Overloaded,
        RoomFound, InsertAttempt, IndexTicket
<1>2. mem' \in [Workers -> Memory]
  BY AttemptsAssumption, SMTT(60) DEF IInv, TypeOK, Workers, Memory, Active, Ended, InStatus,
     Goto, GotoStep, End, Leave, About, TakeUp, Anew, Blank, Start, StartCheck, TakeUserLock,
     LockTimeout, ExpireOne, SkipFresh, DropEnded, PruneAttempts, PruneIndexes, MakeRoom,
     Supersede, Overloaded, RoomFound, InsertAttempt, IndexTicket
<1>3. user' \in [status : {"usable", "disabled"}, epoch : Nat]
  BY SMTT(60) DEF IInv, TypeOK, indexVars, history, Start, StartCheck, TakeUserLock, LockTimeout,
     ExpireOne, SkipFresh, DropEnded, PruneAttempts, PruneIndexes, MakeRoom, Supersede,
     Overloaded, RoomFound, InsertAttempt, IndexTicket
<1>4. attempt' \in [Attempts -> [status : {"none"} \cup Active \cup Ended, epoch : Nat]]
  BY SMTT(60) DEF IInv, TypeOK, Workers, Memory, Active, Ended, InStatus, SetStatus, indexVars,
     history, Start, StartCheck, TakeUserLock, LockTimeout, ExpireOne, SkipFresh, DropEnded,
     PruneAttempts, PruneIndexes, MakeRoom, Supersede, Overloaded, RoomFound, InsertAttempt,
     IndexTicket
<1>5. age' = age /\ tickets' \subseteq Attempts /\ states' \subseteq Attempts /\ ulock' \in Starts \cup {Nobody}
  BY SMTT(60) DEF IInv, TypeOK, KindOK, OnIssued, Bound, BrowserSteps, CallbackSteps, DropIndexes,
     Leave, indexVars, history, Start, StartCheck, TakeUserLock, LockTimeout, ExpireOne,
     SkipFresh, DropEnded, PruneAttempts, PruneIndexes, MakeRoom, Supersede, Overloaded,
     RoomFound, InsertAttempt, IndexTicket
<1>6. exchanged' \subseteq Callbacks \X Attempts /\ linked' \subseteq Attempts /\ outdated' \subseteq Attempts
  BY SMTT(60) DEF IInv, TypeOK, KindOK, OnIssued, CallbackSteps, indexVars, history, Start,
     StartCheck, TakeUserLock, LockTimeout, ExpireOne, SkipFresh, DropEnded, PruneAttempts,
     PruneIndexes, MakeRoom, Supersede, Overloaded, RoomFound, InsertAttempt, IndexTicket
<1> QED  BY <1>1, <1>2, <1>3, <1>4, <1>5, <1>6 DEF IInv, TypeOK

LEMMA BrowserTypes == ASSUME IInv, NEW b \in Browsers, Browser(b) PROVE TypeOK'
<1>1. pc' \in [Workers -> Steps \cup {"idle", "done", "issued", "redirected"}]
  BY SMTT(60) DEF IInv, TypeOK, Workers, Steps, StartSteps, BrowserSteps, CallbackSteps,
     DisconnectSteps,
     Goto, GotoStep, End, Leave, Browser, TakeTicket, ReadAccount, CheckTicket, BindBrowser,
        IndexState
<1>2. mem' \in [Workers -> Memory]
  BY AttemptsAssumption, SMTT(60) DEF IInv, TypeOK, Workers, Memory, Active, Ended, InStatus,
     Goto, GotoStep, End, Leave, About, TakeUp, Anew, Blank, Browser, TakeTicket, ReadAccount,
     CheckTicket, BindBrowser, IndexState
<1>3. user' \in [status : {"usable", "disabled"}, epoch : Nat]
  BY SMTT(60) DEF IInv, TypeOK, indexVars, history, Browser, TakeTicket, ReadAccount, CheckTicket,
     BindBrowser, IndexState
<1>4. attempt' \in [Attempts -> [status : {"none"} \cup Active \cup Ended, epoch : Nat]]
  BY SMTT(60) DEF IInv, TypeOK, Workers, Memory, Active, Ended, InStatus, SetStatus, indexVars,
     history, Browser, TakeTicket, ReadAccount, CheckTicket, BindBrowser, IndexState
<1>5. age' = age /\ tickets' \subseteq Attempts /\ states' \subseteq Attempts /\ ulock' \in Starts \cup {Nobody}
  BY SMTT(60) DEF IInv, TypeOK, KindOK, OnIssued, Bound, BrowserSteps, CallbackSteps, DropIndexes,
     Leave, indexVars, history, Browser, TakeTicket, ReadAccount, CheckTicket, BindBrowser,
     IndexState
<1>6. exchanged' \subseteq Callbacks \X Attempts /\ linked' \subseteq Attempts /\ outdated' \subseteq Attempts
  BY SMTT(60) DEF IInv, TypeOK, KindOK, OnIssued, CallbackSteps, indexVars, history, Browser,
     TakeTicket, ReadAccount, CheckTicket, BindBrowser, IndexState
<1> QED  BY <1>1, <1>2, <1>3, <1>4, <1>5, <1>6 DEF IInv, TypeOK

LEMMA CallbackTypes == ASSUME IInv, NEW c \in Callbacks, Callback(c) PROVE TypeOK'
<1>1. pc' \in [Workers -> Steps \cup {"idle", "done", "issued", "redirected"}]
  BY SMTT(60) DEF IInv, TypeOK, Workers, Steps, StartSteps, BrowserSteps, CallbackSteps,
     DisconnectSteps,
     Goto, GotoStep, End, Leave, Callback, LookupState, ReadAccount, CheckPending, Redeem,
        ConsumeState, Exchange, Commit, CommitBusy, Complete, FailAttempt, DropAttempt
<1>2. mem' \in [Workers -> Memory]
  BY AttemptsAssumption, SMTT(120) DEF IInv, TypeOK, Workers, Memory, Active, Ended, InStatus,
     Goto, GotoStep, End, Leave, About, TakeUp, Anew, Blank, Callback, LookupState, ReadAccount,
     CheckPending, Redeem, ConsumeState, Exchange, Commit, CommitBusy, Complete, FailAttempt,
     DropAttempt
<1>3. user' \in [status : {"usable", "disabled"}, epoch : Nat]
  BY SMTT(60) DEF IInv, TypeOK, indexVars, history, Callback, LookupState, ReadAccount,
     CheckPending, Redeem, ConsumeState, Exchange, Commit, CommitBusy, Complete, FailAttempt,
     DropAttempt
<1>4. attempt' \in [Attempts -> [status : {"none"} \cup Active \cup Ended, epoch : Nat]]
  BY SMTT(60) DEF IInv, TypeOK, Workers, Memory, Active, Ended, InStatus, SetStatus, indexVars,
     history, Callback, LookupState, ReadAccount, CheckPending, Redeem, ConsumeState, Exchange,
     Commit, CommitBusy, Complete, FailAttempt, DropAttempt
<1>5. age' = age /\ tickets' \subseteq Attempts /\ states' \subseteq Attempts /\ ulock' \in Starts \cup {Nobody}
  BY SMTT(60) DEF IInv, TypeOK, KindOK, OnIssued, Bound, BrowserSteps, CallbackSteps, DropIndexes,
     Leave, indexVars, history, Callback, LookupState, ReadAccount, CheckPending, Redeem,
     ConsumeState, Exchange, Commit, CommitBusy, Complete, FailAttempt, DropAttempt
<1>6. exchanged' \subseteq Callbacks \X Attempts /\ linked' \subseteq Attempts /\ outdated' \subseteq Attempts
  BY SMTT(60) DEF IInv, TypeOK, KindOK, OnIssued, CallbackSteps, Outdate, indexVars, history, Callback,
     LookupState, ReadAccount, CheckPending, Redeem, ConsumeState, Exchange, Commit, CommitBusy,
     Complete, FailAttempt, DropAttempt
<1> QED  BY <1>1, <1>2, <1>3, <1>4, <1>5, <1>6 DEF IInv, TypeOK

LEMMA DisconnectTypes == ASSUME IInv, NEW u \in Disconnects, Disconnect(u) PROVE TypeOK'
<1>1. pc' \in [Workers -> Steps \cup {"idle", "done", "issued", "redirected"}]
  BY SMTT(60) DEF IInv, TypeOK, Workers, Steps, StartSteps, BrowserSteps, CallbackSteps,
     DisconnectSteps,
     Goto, GotoStep, End, Leave, Disconnect, Unlink, ReadActive, CancelOne, DropCancelled,
        DisconnectEnds
<1>2. mem' \in [Workers -> Memory]
  BY AttemptsAssumption, SMTT(60) DEF IInv, TypeOK, Workers, Memory, Active, Ended, InStatus,
     Goto, GotoStep, End, Leave, About, TakeUp, Anew, Blank, Disconnect, Unlink, ReadActive,
     CancelOne, DropCancelled, DisconnectEnds
<1>3. user' \in [status : {"usable", "disabled"}, epoch : Nat]
  BY SMTT(60) DEF IInv, TypeOK, indexVars, history, Disconnect, Unlink, ReadActive, CancelOne,
     DropCancelled, DisconnectEnds
<1>4. attempt' \in [Attempts -> [status : {"none"} \cup Active \cup Ended, epoch : Nat]]
  BY SMTT(60) DEF IInv, TypeOK, Workers, Memory, Active, Ended, InStatus, SetStatus, indexVars,
     history, Disconnect, Unlink, ReadActive, CancelOne, DropCancelled, DisconnectEnds
<1>5. age' = age /\ tickets' \subseteq Attempts /\ states' \subseteq Attempts /\ ulock' \in Starts \cup {Nobody}
  BY SMTT(60) DEF IInv, TypeOK, KindOK, OnIssued, Bound, BrowserSteps, CallbackSteps, DropIndexes,
     Leave, indexVars, history, Disconnect, Unlink, ReadActive, CancelOne, DropCancelled,
     DisconnectEnds
<1>6. exchanged' \subseteq Callbacks \X Attempts /\ linked' \subseteq Attempts /\ outdated' \subseteq Attempts
  BY SMTT(60) DEF IInv, TypeOK, KindOK, OnIssued, CallbackSteps, Outdate, indexVars, history, Disconnect,
     Unlink, ReadActive, CancelOne, DropCancelled, DisconnectEnds
<1> QED  BY <1>1, <1>2, <1>3, <1>4, <1>5, <1>6 DEF IInv, TypeOK

-----------------------------------------------------------------------------
(* Any step.                                                                *)

\* Steps that leave every call where it is: time, a status poll, stuttering.
Quiet == UNCHANGED vars \/ \E a \in Starts : PollStatus(a) \/ Age(a)
QuietFrame == UNCHANGED <<user, tickets, states, ulock, pc, mem, exchanged, linked, outdated>>

LEMMA QuietFrames == Quiet => QuietFrame
  BY DEF Quiet, QuietFrame, PollStatus, Age, vars, indexVars, history

LEMMA Actors ==
  ASSUME IInv, [Next]_vars
  PROVE  \/ QuietFrame
         \/ \E s \in Starts : Start(s) /\ Only(s)
         \/ \E b \in Browsers : Browser(b) /\ Only(b)
         \/ \E c \in Callbacks : Callback(c) /\ Only(c)
         \/ \E u \in Disconnects : Disconnect(u) /\ Only(u)
         \/ \E w \in Starts \cup Disconnects : Crash(w) /\ Only(w)
         \/ \E d \in Admins : Administer(d) /\ Only(d)
<1>1. Mortal \subseteq Starts \cup Disconnects  BY AttemptsAssumption
<1>2. TypeOK /\ (Starts \cup Disconnects \cup Admins) \subseteq Workers  BY DEF IInv, Workers
<1>3. Quiet => QuietFrame  BY QuietFrames
<1> QED  BY <1>1, <1>2, <1>3, StartOnly, BrowserOnly, CallbackOnly, DisconnectOnly, OtherOnly DEF
   Next, Quiet

LEMMA CrashMoves ==
  ASSUME IInv, NEW w \in Starts \cup Disconnects, Crash(w)
  PROVE  /\ UNCHANGED <<user, attempt, age, tickets, exchanged, linked>>
         /\ pc[w] \in StartSteps \cup DisconnectSteps /\ pc'[w] = "done"
         /\ ulock' = (IF ulock = w THEN Nobody ELSE ulock)
  BY SMTT(60) DEF IInv, TypeOK, Workers, Crash, Leave, End, Goto, indexVars, history

LEMMA AdministerMoves ==
  ASSUME IInv, NEW d \in Admins, Administer(d)
  PROVE  /\ UNCHANGED <<attempt, age, tickets, exchanged, linked, ulock>>
         /\ user'.epoch > user.epoch /\ pc[d] = "idle" /\ pc'[d] = "done"
  BY SMTT(60) DEF IInv, TypeOK, Workers, Administer, End, Goto, indexVars, history

LEMMA TypeStep == ASSUME IInv, [Next]_vars PROVE TypeOK'
<1>1. CASE \E w \in Mortal : Crash(w)
  BY <1>1, Memories, AttemptsAssumption, SMTT(60) DEF IInv, TypeOK, Workers, Crash, Leave, End,
     Goto, indexVars, history
<1>2. CASE \E d \in Admins : Administer(d)
  BY <1>2, Memories, SMTT(60) DEF IInv, TypeOK, Workers, Administer, Outdate, End, Goto, indexVars, history
<1>3. CASE \E a \in Starts : PollStatus(a)
  <2>1. attempt' \in [Attempts -> [status : {"none"} \cup Active \cup Ended, epoch : Nat]]
    BY <1>3, SMTT(60) DEF IInv, TypeOK, PollStatus, SetStatus, Ended
  <2> QED  BY <1>3, <2>1 DEF IInv, TypeOK, PollStatus, indexVars, history
<1>4. CASE \E a \in Starts : Age(a)
  <2>1. age' \in [Attempts -> 0..2]
    BY <1>4, SMTT(60) DEF IInv, TypeOK, Age
  <2> QED  BY <1>4, <2>1 DEF IInv, TypeOK, Age, indexVars, history
<1>5. CASE UNCHANGED vars
  BY <1>5 DEF IInv, TypeOK, vars
<1> QED
  BY <1>1, <1>2, <1>3, <1>4, <1>5, StartTypes, BrowserTypes, CallbackTypes, DisconnectTypes DEF Next

LEMMA KindStep == ASSUME IInv, [Next]_vars PROVE KindOK'
<1>1. CASE QuietFrame
  BY <1>1 DEF IInv, KindOK, QuietFrame
<1>2. ASSUME NEW s \in Starts, Start(s), Only(s) PROVE KindOK'
  BY <1>2, StartMoves, Disjoint DEF IInv, KindOK, Only, Workers
<1>3. ASSUME NEW b \in Browsers, Browser(b), Only(b) PROVE KindOK'
  BY <1>3, BrowserMoves, Disjoint DEF IInv, KindOK, Only, Workers, Bound
<1>4. ASSUME NEW c \in Callbacks, Callback(c), Only(c) PROVE KindOK'
  BY <1>4, CallbackMoves, Disjoint DEF IInv, KindOK, Only, Workers
<1>5. ASSUME NEW u \in Disconnects, Disconnect(u), Only(u) PROVE KindOK'
  BY <1>5, DisconnectMoves, Disjoint DEF IInv, KindOK, Only, Workers
<1>6. ASSUME NEW w \in Starts \cup Disconnects, Crash(w), Only(w) PROVE KindOK'
  BY <1>6, CrashMoves, Disjoint DEF IInv, KindOK, Only, Workers
<1>7. ASSUME NEW d \in Admins, Administer(d), Only(d) PROVE KindOK'
  BY <1>7, AdministerMoves, Disjoint DEF IInv, KindOK, Only, Workers
<1> QED  BY <1>1, <1>2, <1>3, <1>4, <1>5, <1>6, <1>7, Actors

\* A start only goes forward, and once issued stays so.
LEMMA StartsForward ==
  ASSUME IInv, [Next]_vars, NEW a \in Attempts
  PROVE  /\ pc[a] = "issued" => pc'[a] = "issued"
         /\ pc'[a] \in Before => pc[a] \in Before
         /\ pc'[a] = "index" => pc[a] \in {"insert", "index"}
         /\ pc'[a] = "issued" => pc[a] \in {"index", "issued"}
<1> DEFINE P == /\ pc[a] = "issued" => pc'[a] = "issued"
                /\ pc'[a] \in Before => pc[a] \in Before
                /\ pc'[a] = "index" => pc[a] \in {"insert", "index"}
                /\ pc'[a] = "issued" => pc[a] \in {"index", "issued"}
<1>1. CASE QuietFrame \/ pc'[a] = pc[a]
  BY <1>1 DEF QuietFrame
<1>2. CASE Start(a)
  <2>1. pc'[a] = "issued" => pc[a] = "index"
    BY <1>2, SMTT(60) DEF IInv, TypeOK, Workers, Goto, GotoStep, End, Leave, Start, StartCheck,
       TakeUserLock,
       LockTimeout, ExpireOne, SkipFresh, DropEnded, PruneAttempts, PruneIndexes, MakeRoom, Supersede,
       Overloaded, RoomFound, InsertAttempt, IndexTicket
  <2> QED  BY <1>2, <2>1, StartMoves
<1>3. CASE Crash(a)
  BY <1>3, CrashMoves DEF Before, StartSteps, DisconnectSteps
<1>4. \/ QuietFrame \/ pc'[a] = pc[a] \/ Start(a) \/ Crash(a)
  BY Actors, Disjoint DEF Only, Workers
<1> QED  BY <1>1, <1>2, <1>3, <1>4

\* The index of tickets grows only by that of a start that ends.
LEMMA TicketMoves ==
  ASSUME IInv, [Next]_vars
  PROVE  \/ tickets' \subseteq tickets
         \/ \E s \in Starts : pc[s] = "index" /\ pc'[s] = "issued" /\ tickets' = tickets \cup {s}
  BY Actors, StartMoves, BrowserMoves, CallbackMoves, DisconnectMoves, CrashMoves, AdministerMoves
     DEF QuietFrame

LEMMA MadeStep == ASSUME IInv, [Next]_vars PROVE Made'
<1>1. ASSUME NEW a \in Attempts, pc'[a] \in Before PROVE attempt'[a].status = "none"
  <2>1. pc[a] \in Before /\ attempt[a].status = "none"
    BY <1>1, StartsForward DEF IInv, Made
  <2>2. pc'[a] # "index"  BY <1>1 DEF Before
  <2> QED  BY <2>1, <2>2, RowMoves DEF Edge, Active, Ended
<1>2. \A a \in tickets' : pc'[a] = "issued"
  BY TicketMoves, StartsForward DEF IInv, Made, TypeOK
<1> QED  BY <1>1, <1>2 DEF Made

\* How a browser comes to an attempt, and keeps it.
LEMMA BrowsersOn ==
  ASSUME IInv, [Next]_vars, NEW b \in Browsers, pc'[b] \in Bound
  PROVE  \/ pc[b] = "idle" /\ mem'[b].on \in tickets \ tickets' /\ tickets' \subseteq tickets /\ Only(b)
         \/ pc[b] \in Bound /\ mem'[b].on = On(b)
<1>1. \/ pc'[b] = pc[b] /\ mem'[b] = mem[b]
      \/ Browser(b) /\ Only(b)
  BY Actors, Disjoint DEF QuietFrame, Only, Workers
<1> QED  BY <1>1, BrowserMoves

LEMMA CallbacksOn ==
  ASSUME IInv, [Next]_vars, NEW c \in Callbacks, pc'[c] \in CallbackSteps
  PROVE  \/ pc[c] = "idle" /\ \E b \in Browsers : pc[b] = "redirected" /\ mem'[c].on = On(b)
         \/ pc[c] \in CallbackSteps /\ mem'[c].on = On(c)
<1>1. \/ pc'[c] = pc[c] /\ mem'[c] = mem[c]
      \/ Callback(c) /\ Only(c)
  BY Actors, Disjoint DEF QuietFrame, Only, Workers
<1> QED  BY <1>1, CallbackOn

\* How a callback comes to redeem, and what a redemption adds to the history.
LEMMA Redeeming ==
  ASSUME IInv, [Next]_vars
  PROVE  /\ \A c \in Callbacks : pc'[c] \in Redeemer =>
              \/ pc[c] \in Redeemer /\ mem'[c].on = On(c)
              \/ /\ pc[c] = "redeem" /\ mem'[c].on = On(c) /\ Row(c).status = "pending"
                 /\ attempt'[On(c)].status = "redeeming" /\ Only(c) /\ exchanged' = exchanged
         /\ \/ exchanged' = exchanged
            \/ \E c \in Callbacks : /\ pc[c] = "exchange" /\ pc'[c] \notin Redeemer /\ Only(c)
                                    /\ exchanged' = exchanged \cup {<<c, On(c)>>}
<1>1. ASSUME NEW c \in Callbacks, pc'[c] \in Redeemer
      PROVE  \/ pc[c] \in Redeemer /\ mem'[c].on = On(c)
             \/ /\ pc[c] = "redeem" /\ mem'[c].on = On(c) /\ Row(c).status = "pending"
                /\ attempt'[On(c)].status = "redeeming" /\ Only(c) /\ exchanged' = exchanged
  <2>1. \/ pc'[c] = pc[c] /\ mem'[c] = mem[c]
        \/ Callback(c) /\ Only(c)
    BY Actors, Disjoint DEF QuietFrame, Only, Workers
  <2>2. CASE pc'[c] = pc[c] /\ mem'[c] = mem[c]
    BY <1>1, <2>2
  <2>3. CASE Callback(c) /\ Only(c)
    <3>1. pc'[c] \in CallbackSteps  BY <1>1 DEF Redeemer, CallbackSteps
    <3> QED  BY <1>1, <2>3, <3>1, CallbackOn, CallbackRedeems DEF Redeemer
  <2> QED  BY <2>1, <2>2, <2>3
<1>2. \/ exchanged' = exchanged
      \/ \E c \in Callbacks : /\ pc[c] = "exchange" /\ pc'[c] \notin Redeemer /\ Only(c)
                              /\ exchanged' = exchanged \cup {<<c, On(c)>>}
  BY Actors, StartMoves, BrowserMoves, CallbackRedeems, DisconnectMoves, CrashMoves,
     AdministerMoves DEF QuietFrame
<1> QED  BY <1>1, <1>2

\* A step of anyone but a callback.
Others(w) ==
    /\ Only(w)
    /\ \/ w \in Starts /\ Start(w)
       \/ w \in Browsers /\ Browser(w)
       \/ w \in Disconnects /\ Disconnect(w)
       \/ w \in Starts \cup Disconnects /\ Crash(w)
       \/ w \in Admins /\ Administer(w)

\* How a link comes about.
LEMMA Linking ==
  ASSUME IInv, [Next]_vars
  PROVE  \/ /\ linked' = linked /\ user'.epoch >= user.epoch
            /\ \A c \in Callbacks : pc'[c] = "complete" => pc[c] = "complete" /\ mem'[c].on = On(c)
         \/ \E c \in Callbacks :
              /\ pc[c] = "commit" /\ Row(c).epoch = user.epoch /\ user'.epoch = user.epoch + 1
              /\ linked' = linked \cup {On(c)} /\ UNCHANGED <<attempt, mem>> /\ Only(c)
<1>1. ASSUME NEW c \in Callbacks, Callback(c), Only(c), linked' = linked, user' = user, pc'[c] # "complete"
      PROVE  \A d \in Callbacks : pc'[d] = "complete" => pc[d] = "complete" /\ mem'[d].on = On(d)
  BY <1>1 DEF Only, Workers
<1>2. ASSUME NEW w \in Workers \ Callbacks, Only(w)
      PROVE  \A d \in Callbacks : pc'[d] = "complete" => pc[d] = "complete" /\ mem'[d].on = On(d)
  BY <1>2 DEF Only, Workers
<1>3. user.epoch \in Nat  BY DEF IInv, TypeOK
<1>4. (Starts \cup Browsers \cup Disconnects \cup Admins) \subseteq Workers \ Callbacks  BY
   Disjoint DEF Workers
<1>5. CASE QuietFrame
  BY <1>3, <1>5, SMT DEF QuietFrame
<1>6. ASSUME NEW c \in Callbacks, Callback(c), Only(c)
      PROVE  \/ /\ linked' = linked /\ user' = user
                /\ \A d \in Callbacks : pc'[d] = "complete" => pc[d] = "complete" /\ mem'[d].on = On(d)
             \/ /\ pc[c] = "commit" /\ Row(c).epoch = user.epoch /\ user'.epoch = user.epoch + 1
                /\ linked' = linked \cup {On(c)} /\ UNCHANGED <<attempt, mem>>
  BY <1>1, <1>6, CallbackLinks
<1>7. ASSUME NEW w \in Starts \cup Browsers \cup Disconnects \cup Admins, Others(w)
      PROVE  linked' = linked /\ (user' = user \/ user'.epoch >= user.epoch)
  <2>1. user.epoch \in Nat  BY DEF IInv, TypeOK
  <2>2. CASE w \in Admins /\ Administer(w)
    <3>1. linked' = linked /\ user'.epoch > user.epoch  BY <2>2, AdministerMoves
    <3>2. user'.epoch \in Nat  BY TypeStep DEF TypeOK
    <3> QED  BY <2>1, <3>1, <3>2, SMT
  <2> QED  BY <1>7, <2>2, StartMoves, BrowserMoves, DisconnectMoves, CrashMoves DEF Others
<1>8. user' = user => user'.epoch >= user.epoch  BY <1>3, SMT
<1>9. CASE \E w \in Starts \cup Browsers \cup Disconnects \cup Admins : Others(w)
  <2>1. PICK w \in Starts \cup Browsers \cup Disconnects \cup Admins : Others(w)
    BY <1>9
  <2>2. linked' = linked /\ user'.epoch >= user.epoch  BY <2>1, <1>7, <1>8
  <2>3. \A d \in Callbacks : pc'[d] = "complete" => pc[d] = "complete" /\ mem'[d].on = On(d)
    BY <2>1, <1>2, <1>4 DEF Others
  <2> QED  BY <2>2, <2>3
<1>10. CASE \E c \in Callbacks : Callback(c) /\ Only(c)
  BY <1>6, <1>8, <1>10
<1>11. \/ QuietFrame
       \/ \E w \in Starts \cup Browsers \cup Disconnects \cup Admins : Others(w)
       \/ \E c \in Callbacks : Callback(c) /\ Only(c)
  BY Actors DEF Others
<1> QED  BY <1>5, <1>9, <1>10, <1>11

-----------------------------------------------------------------------------
(* The parts of the invariant.                                              *)

LEMMA OnIssuedStep == ASSUME IInv, [Next]_vars PROVE OnIssued'
<1>1. \A a \in Attempts : pc[a] = "issued" => pc'[a] = "issued"
  BY StartsForward
<1>2. \A a \in tickets : a \in Attempts /\ pc[a] = "issued"
  BY DEF IInv, TypeOK, Made
<1>3. ASSUME NEW b \in Browsers, pc'[b] \in Bound PROVE mem'[b].on \in Attempts /\ pc'[mem'[b].on] = "issued"
  BY <1>1, <1>2, <1>3, BrowsersOn DEF IInv, OnIssued
<1>4. ASSUME NEW c \in Callbacks, pc'[c] \in CallbackSteps
      PROVE  mem'[c].on \in Attempts /\ pc'[mem'[c].on] = "issued"
  BY <1>1, <1>4, CallbacksOn DEF IInv, OnIssued, Bound
<1>5. \A c \in Callbacks : pc[c] \in CallbackSteps => On(c) \in Attempts /\ pc[On(c)] = "issued"
  BY DEF IInv, OnIssued
<1>6. ASSUME NEW p \in exchanged' PROVE pc'[p[2]] = "issued"
  <2>1. CASE p \in exchanged
    BY <1>1, <2>1 DEF IInv, OnIssued, TypeOK
  <2>2. CASE \E c \in Callbacks : pc[c] = "exchange" /\ p = <<c, On(c)>>
    BY <1>1, <1>5, <2>2 DEF CallbackSteps
  <2> QED  BY <1>6, <2>1, <2>2, Redeeming
<1>7. ASSUME NEW a \in linked' PROVE pc'[a] = "issued"
  <2>1. CASE a \in linked
    BY <1>1, <2>1 DEF IInv, OnIssued, TypeOK
  <2>2. CASE \E c \in Callbacks : pc[c] = "commit" /\ a = On(c)
    BY <1>1, <1>5, <2>2 DEF CallbackSteps
  <2> QED  BY <1>7, <2>1, <2>2, Linking
<1> QED  BY <1>3, <1>4, <1>6, <1>7 DEF OnIssued

LEMMA TicketsFreshStep == ASSUME IInv, [Next]_vars PROVE TicketsFresh'
<1> SUFFICES ASSUME NEW b \in Browsers, pc'[b] \in Bound PROVE mem'[b].on \notin tickets'
  BY DEF TicketsFresh
<1>1. CASE pc[b] = "idle" /\ mem'[b].on \in tickets \ tickets'
  BY <1>1
<1>2. CASE pc[b] \in Bound /\ mem'[b].on = On(b)
  <2>1. On(b) \notin tickets /\ pc[On(b)] = "issued"
    BY <1>2 DEF IInv, TicketsFresh, OnIssued
  <2> QED  BY <1>2, <2>1, TicketMoves
<1> QED  BY <1>1, <1>2, BrowsersOn

LEMMA TicketOnceStep == ASSUME IInv, [Next]_vars PROVE TicketUsedOnce'
<1> SUFFICES ASSUME NEW b \in Browsers, NEW d \in Browsers, pc'[b] \in Bound, pc'[d] \in Bound,
                    mem'[b].on = mem'[d].on
             PROVE  b = d
  BY DEF TicketUsedOnce, Bound
<1>1. CASE pc[b] \in Bound /\ mem'[b].on = On(b) /\ pc[d] \in Bound /\ mem'[d].on = On(d)
  BY <1>1 DEF IInv, TicketUsedOnce, Bound
<1>2. CASE pc[b] \in Bound /\ mem'[b].on = On(b) /\ mem'[d].on \in tickets
  BY <1>2 DEF IInv, TicketsFresh
<1>3. CASE pc[d] \in Bound /\ mem'[d].on = On(d) /\ mem'[b].on \in tickets
  BY <1>3 DEF IInv, TicketsFresh
<1>4. CASE pc[b] = "idle" /\ pc[d] = "idle" /\ Only(b)
  <2>1. "idle" \notin Bound  BY DEF Bound, BrowserSteps
  <2> QED  BY <1>4, <2>1 DEF Only, Workers
<1> QED  BY <1>1, <1>2, <1>3, <1>4, BrowsersOn

\* An attempt that got beyond pending does not come back.
LEMMA RedeemedKept ==
  ASSUME IInv, [Next]_vars, NEW a \in Attempts, pc[a] = "issued", Redeemed(a)
  PROVE  attempt'[a].status \notin {"created", "pending"}
<1>1. attempt[a].status \in {"none"} \cup Active \cup Ended  BY DEF IInv, TypeOK
<1> QED  BY <1>1, RowMoves DEF Edge, Active, Ended, Redeemed

LEMMA RedeemedStep == ASSUME IInv, [Next]_vars PROVE RedeemedStays'
<1>1. ASSUME NEW c \in Callbacks, pc'[c] \in Redeemer
      PROVE  attempt'[mem'[c].on].status \notin {"created", "pending"}
  <2>1. CASE pc[c] \in Redeemer /\ mem'[c].on = On(c)
    <3>1. On(c) \in Attempts /\ pc[On(c)] = "issued" /\ Redeemed(On(c))
      BY <2>1 DEF IInv, RedeemedStays, OnIssued, Redeemer, CallbackSteps
    <3> QED  BY <2>1, <3>1, RedeemedKept
  <2>2. CASE mem'[c].on = On(c) /\ attempt'[On(c)].status = "redeeming"
    BY <2>2
  <2> QED  BY <1>1, <2>1, <2>2, Redeeming
<1>2. ASSUME NEW p \in exchanged' PROVE attempt'[p[2]].status \notin {"created", "pending"}
  <2>1. CASE p \in exchanged
    <3>1. p[2] \in Attempts /\ pc[p[2]] = "issued" /\ Redeemed(p[2])
      BY <2>1 DEF IInv, TypeOK, RedeemedStays, OnIssued
    <3> QED  BY <3>1, RedeemedKept
  <2>2. CASE \E c \in Callbacks : pc[c] = "exchange" /\ p = <<c, On(c)>>
    <3>1. p[2] \in Attempts /\ pc[p[2]] = "issued" /\ Redeemed(p[2])
      BY <2>2 DEF IInv, RedeemedStays, OnIssued, Redeemer, CallbackSteps
    <3> QED  BY <3>1, RedeemedKept
  <2> QED  BY <1>2, <2>1, <2>2, Redeeming
<1> QED  BY <1>1, <1>2 DEF RedeemedStays, Redeemed

LEMMA ApartStep == ASSUME IInv, [Next]_vars PROVE RedeemersApart'
<1>1. "redeem" \notin Redeemer  BY DEF Redeemer
<1> SUFFICES ASSUME NEW c \in Callbacks, pc'[c] \in Redeemer
             PROVE  /\ \A d \in Callbacks : pc'[d] \in Redeemer /\ mem'[d].on = mem'[c].on => d = c
                    /\ \A p \in exchanged' : p[2] # mem'[c].on
  BY DEF RedeemersApart
<1>2. ASSUME NEW d \in Callbacks, pc'[d] \in Redeemer, mem'[d].on = mem'[c].on PROVE d = c
  <2>1. CASE pc[c] \in Redeemer /\ pc[d] \in Redeemer /\ mem'[c].on = On(c) /\ mem'[d].on = On(d)
    BY <1>2, <2>1 DEF IInv, RedeemersApart
  <2>2. CASE pc[d] = "redeem" /\ pc[c] = "redeem" /\ Only(c)
    BY <1>1, <1>2, <2>2 DEF Only, Workers
  <2>3. CASE pc[d] \in Redeemer /\ mem'[d].on = On(d) /\ mem'[c].on = On(c) /\ Row(c).status = "pending"
    BY <1>2, <2>3 DEF IInv, RedeemedStays, Redeemed
  <2>4. CASE pc[c] \in Redeemer /\ mem'[d].on = On(d) /\ mem'[c].on = On(c) /\ Row(d).status = "pending"
    BY <1>2, <2>4 DEF IInv, RedeemedStays, Redeemed
  <2> QED  BY <1>2, <2>1, <2>2, <2>3, <2>4, Redeeming
<1>3. ASSUME NEW p \in exchanged' PROVE p[2] # mem'[c].on
  <2>1. CASE pc[c] \in Redeemer /\ mem'[c].on = On(c) /\ p \in exchanged
    BY <2>1 DEF IInv, RedeemersApart
  <2>2. CASE mem'[c].on = On(c) /\ Row(c).status = "pending" /\ p \in exchanged
    BY <2>2 DEF IInv, RedeemedStays, Redeemed
  <2>3. CASE \E e \in Callbacks : pc[e] = "exchange" /\ pc'[e] \notin Redeemer /\ p = <<e, On(e)>>
    <3>1. PICK e \in Callbacks : pc[e] = "exchange" /\ pc'[e] \notin Redeemer /\ p = <<e, On(e)>>
      BY <2>3
    <3>2. e # c /\ pc[e] \in Redeemer /\ p[2] = On(e)
      BY <3>1 DEF Redeemer
    <3>3. CASE pc[c] \in Redeemer /\ mem'[c].on = On(c)
      BY <3>2, <3>3 DEF IInv, RedeemersApart
    <3>4. CASE mem'[c].on = On(c) /\ Row(c).status = "pending"
      BY <3>2, <3>4 DEF IInv, RedeemedStays, Redeemed
    <3> QED  BY <3>3, <3>4, Redeeming
  <2> QED  BY <1>3, <2>1, <2>2, <2>3, Redeeming
<1> QED  BY <1>2, <1>3

LEMMA ExchangedOnceStep == ASSUME IInv, [Next]_vars PROVE CodeExchangedOnce'
<1> SUFFICES ASSUME NEW p \in exchanged', NEW q \in exchanged', p[2] = q[2] PROVE p = q
  BY DEF CodeExchangedOnce
<1>1. CASE exchanged' = exchanged
  BY <1>1 DEF IInv, CodeExchangedOnce
<1>2. CASE \E c \in Callbacks : pc[c] = "exchange" /\ exchanged' = exchanged \cup {<<c, On(c)>>}
  <2>1. PICK c \in Callbacks : pc[c] = "exchange" /\ exchanged' = exchanged \cup {<<c, On(c)>>}
    BY <1>2
  <2>2. \A r \in exchanged : r[2] # On(c)
    BY <2>1 DEF IInv, RedeemersApart, Redeemer
  <2> QED  BY <2>1, <2>2 DEF IInv, CodeExchangedOnce
<1> QED  BY <1>1, <1>2, Redeeming

\* What a start remembers of the account's epoch.
LEMMA StartReads ==
  ASSUME IInv, NEW s \in Starts, Start(s)
  PROVE  /\ pc'[s] # "idle"
         /\ \/ mem'[s].epoch \in {0, mem[s].epoch}
            \/ pc[s] = "idle" /\ mem'[s].epoch = user.epoch
  BY SMTT(60) DEF IInv, TypeOK, Memory, Goto, GotoStep, End, Leave,
     About, TakeUp, Anew, Blank, Workers, Start, StartCheck, TakeUserLock, LockTimeout, ExpireOne,
     SkipFresh, DropEnded, PruneAttempts, PruneIndexes, MakeRoom, Supersede, Overloaded, RoomFound,
     InsertAttempt, IndexTicket

\* A start that has begun does not begin again, and the epoch it remembers is not later than
\* the account's.
LEMMA Remembering ==
  ASSUME IInv, [Next]_vars, NEW a \in Attempts
  PROVE  /\ pc'[a] = "idle" => pc[a] = "idle"
         /\ \/ mem'[a].epoch \in {0, mem[a].epoch}
            \/ pc[a] = "idle" /\ mem'[a].epoch = user.epoch
<1>1. CASE QuietFrame \/ (pc'[a] = pc[a] /\ mem'[a] = mem[a])
  BY <1>1 DEF QuietFrame
<1>2. CASE Start(a)
  BY <1>2, StartReads
<1>3. CASE Crash(a)
  BY <1>3, SMTT(60) DEF IInv, TypeOK, Workers, Crash, Leave, End, Goto, Blank, Anew
<1> QED  BY <1>1, <1>2, <1>3, Actors, Disjoint DEF Only, Workers

\* How the account changes, and what that makes of the attempts.
Changes ==
    /\ user'.epoch = user.epoch + 1 /\ attempt' = attempt
    /\ outdated' = outdated \cup ({a \in Attempts : pc[a] # "idle"} \ linked')
Unchanged == user' = user /\ outdated' = outdated /\ linked' = linked

LEMMA Changing ==
  ASSUME IInv, [Next]_vars
  PROVE  Unchanged \/ (Changes /\ \A a \in Attempts : mem'[a] = mem[a])
<1>1. CASE QuietFrame
  BY <1>1 DEF QuietFrame, Unchanged
<1>2. ASSUME NEW s \in Starts, Start(s) PROVE Unchanged
  BY <1>2 DEF history, Unchanged, Start, StartCheck, TakeUserLock, LockTimeout, ExpireOne, SkipFresh,
     DropEnded, PruneAttempts, PruneIndexes, MakeRoom, Supersede, Overloaded, RoomFound,
     InsertAttempt, IndexTicket
<1>3. ASSUME NEW b \in Browsers, Browser(b) PROVE Unchanged
  BY <1>3 DEF history, Unchanged, Browser, TakeTicket, ReadAccount, CheckTicket, BindBrowser, IndexState
<1>4. ASSUME NEW c \in Callbacks, Callback(c) PROVE Unchanged \/ Changes
  <2>1. CASE Commit(c)
    BY <2>1, SMT DEF IInv, TypeOK, Commit, Outdate, Unchanged, Changes
  <2> QED  BY <1>4, <2>1 DEF history, Unchanged, Callback, LookupState, ReadAccount, CheckPending,
     Redeem, ConsumeState, Exchange, CommitBusy, Complete, FailAttempt, DropAttempt
<1>5. ASSUME NEW u \in Disconnects, Disconnect(u) PROVE Unchanged \/ Changes
  <2>1. CASE Unlink(u)
    BY <2>1, SMT DEF IInv, TypeOK, Unlink, Outdate, Changes
  <2> QED  BY <1>5, <2>1 DEF history, Unchanged, Disconnect, ReadActive, CancelOne, DropCancelled,
     DisconnectEnds
<1>6. ASSUME NEW w \in Starts \cup Disconnects, Crash(w) PROVE Unchanged
  BY <1>6 DEF history, Unchanged, Crash
<1>7. ASSUME NEW d \in Admins, Administer(d) PROVE Changes
  BY <1>7, SMT DEF IInv, TypeOK, Administer, Outdate, Changes
<1>8. ASSUME NEW w \in Workers \ Starts, Only(w) PROVE \A a \in Attempts : mem'[a] = mem[a]
  BY <1>8 DEF Only, Workers
<1>9. (Callbacks \cup Disconnects \cup Admins) \subseteq Workers \ Starts
  BY Disjoint DEF Workers
<1> QED  BY <1>1, <1>2, <1>3, <1>4, <1>5, <1>6, <1>7, <1>8, <1>9, Actors

LEMMA EpochsPastStep == ASSUME IInv, [Next]_vars PROVE EpochsPast'
<1> SUFFICES ASSUME NEW a \in Attempts
             PROVE  attempt'[a].epoch <= user'.epoch /\ mem'[a].epoch <= user'.epoch
  BY DEF EpochsPast
<1>1. TypeOK /\ TypeOK'  BY TypeStep DEF IInv
<1>2. /\ attempt[a].epoch \in Nat /\ mem[a].epoch \in Nat /\ user.epoch \in Nat /\ user'.epoch \in Nat
      /\ attempt'[a].epoch \in Nat /\ mem'[a].epoch \in Nat
  BY <1>1 DEF TypeOK, Workers, Memory
<1>3. user'.epoch >= user.epoch  BY <1>2, Changing, SMT DEF Unchanged, Changes
<1>4. attempt[a].epoch <= user.epoch /\ mem[a].epoch <= user.epoch  BY DEF IInv, EpochsPast
<1>5. attempt'[a].epoch \in {attempt[a].epoch, mem[a].epoch}  BY RowMoves DEF Edge
<1>6. mem'[a].epoch \in {0, mem[a].epoch, user.epoch}  BY Remembering
<1> QED  BY <1>2, <1>3, <1>4, <1>5, <1>6, SMT

LEMMA OutdatedOldStep == ASSUME IInv, [Next]_vars PROVE OutdatedOld'
<1> SUFFICES ASSUME NEW a \in outdated'
             PROVE  pc'[a] # "idle" /\ attempt'[a].epoch < user'.epoch /\ mem'[a].epoch < user'.epoch
  BY DEF OutdatedOld
<1>1. TypeOK /\ TypeOK'  BY TypeStep DEF IInv
<1>2. a \in Attempts  BY <1>1 DEF TypeOK
<1>3. /\ attempt[a].epoch \in Nat /\ mem[a].epoch \in Nat /\ user.epoch \in Nat /\ user'.epoch \in Nat
      /\ attempt'[a].epoch \in Nat /\ mem'[a].epoch \in Nat
  BY <1>1, <1>2 DEF TypeOK, Workers, Memory
<1>4. attempt'[a].epoch \in {attempt[a].epoch, mem[a].epoch}  BY <1>2, RowMoves DEF Edge
<1>5. CASE a \in outdated
  <2>1. pc[a] # "idle" /\ attempt[a].epoch < user.epoch /\ mem[a].epoch < user.epoch
    BY <1>5 DEF IInv, OutdatedOld
  <2>2. pc'[a] # "idle" /\ mem'[a].epoch \in {0, mem[a].epoch}
    BY <1>2, <2>1, Remembering
  <2>3. user'.epoch >= user.epoch  BY <1>3, Changing, SMT DEF Unchanged, Changes
  <2> QED  BY <1>3, <1>4, <2>1, <2>2, <2>3, SMT
<1>6. CASE a \notin outdated
  <2>1. Changes /\ mem'[a] = mem[a] /\ pc[a] # "idle"
    BY <1>2, <1>6, Changing DEF Unchanged, Changes
  <2>2. attempt[a].epoch <= user.epoch /\ mem[a].epoch <= user.epoch
    BY <1>2 DEF IInv, EpochsPast
  <2>3. pc'[a] # "idle"  BY <1>2, <2>1, Remembering
  <2> QED  BY <1>3, <1>4, <2>1, <2>2, <2>3, SMT DEF Changes
<1> QED  BY <1>5, <1>6

LEMMA UnchangedStep == ASSUME IInv, [Next]_vars PROVE LinksUnchangedAccount'
<1> SUFFICES linked' \cap outdated' = {}
  BY DEF LinksUnchangedAccount
<1>1. linked \cap outdated = {}  BY DEF IInv, LinksUnchangedAccount
<1>2. CASE Unchanged
  BY <1>1, <1>2 DEF Unchanged
<1>3. CASE Changes
  <2>1. linked' \cap outdated = {}
    <3>1. CASE linked' = linked
      BY <1>1, <3>1
    <3>2. CASE \E c \in Callbacks : Row(c).epoch = user.epoch /\ linked' = linked \cup {On(c)}
      <4>1. PICK c \in Callbacks : Row(c).epoch = user.epoch /\ linked' = linked \cup {On(c)}
        BY <3>2
      <4>2. \A a \in outdated : attempt[a].epoch < user.epoch /\ user.epoch \in Nat
        BY DEF IInv, OutdatedOld, TypeOK
      <4>3. On(c) \notin outdated
        BY <4>1, <4>2, SMT
      <4> QED  BY <1>1, <4>1, <4>3
    <3> QED  BY <3>1, <3>2, Linking
  <2> QED  BY <1>3, <2>1 DEF Changes
<1> QED  BY <1>2, <1>3, Changing

LEMMA CompleteLinkedStep == ASSUME IInv, [Next]_vars PROVE CompleteLinked'
<1> SUFFICES ASSUME NEW d \in Callbacks, pc'[d] = "complete" PROVE mem'[d].on \in linked'
  BY DEF CompleteLinked
<1>1. linked \subseteq linked'  BY Linking
<1>2. CASE pc[d] = "complete" /\ mem'[d].on = On(d)
  BY <1>1, <1>2 DEF IInv, CompleteLinked
<1>3. CASE \E c \in Callbacks : linked' = linked \cup {On(c)} /\ mem' = mem /\ Only(c)
  <2>1. PICK c \in Callbacks : linked' = linked \cup {On(c)} /\ mem' = mem /\ Only(c)
    BY <1>3
  <2>2. CASE d = c
    BY <2>1, <2>2
  <2>3. CASE d # c
    <3>1. pc[d] = "complete" /\ mem'[d].on = On(d)  BY <2>1, <2>3 DEF Only, Workers
    <3> QED  BY <1>2, <3>1
  <2> QED  BY <2>2, <2>3
<1> QED  BY <1>2, <1>3, Linking

LEMMA CompletedStep == ASSUME IInv, [Next]_vars PROVE CompletedIsLinked'
<1> SUFFICES ASSUME NEW a \in Attempts, attempt'[a].status = "completed" PROVE a \in linked'
  BY DEF CompletedIsLinked, InStatus
<1>1. linked \subseteq linked'  BY Linking
<1>2. a \in linked \/ attempt[a].status = "completed"
  BY RowMoves DEF Edge, Active, Ended
<1> QED  BY <1>1, <1>2 DEF IInv, CompletedIsLinked, InStatus

-----------------------------------------------------------------------------
(* The user lock and the number of active attempts.                        *)

\* Who may change the lock, and how.
LEMMA LockMoves ==
  ASSUME IInv, [Next]_vars
  PROVE  \/ ulock' = ulock
         \/ \E t \in Starts \cup Disconnects :
              \/ ulock = Nobody /\ ulock' = t
              \/ ulock = t /\ ulock' = Nobody /\ (Start(t) \/ Crash(t)) /\ Only(t)
<1>1. ASSUME NEW t \in Starts, Start(t), Only(t)
      PROVE  \/ ulock' = ulock
             \/ ulock = Nobody /\ ulock' = t
             \/ ulock = t /\ ulock' = Nobody
  BY <1>1, StartLocks
<1>2. ASSUME NEW t \in Starts \cup Disconnects, Crash(t), Only(t)
      PROVE  ulock' = ulock \/ (ulock = t /\ ulock' = Nobody)
  BY <1>2, CrashMoves
<1> QED  BY <1>1, <1>2, Actors, BrowserMoves, CallbackMoves, DisconnectMoves, AdministerMoves DEF
   QuietFrame

LEMMA LockHeldStep == ASSUME IInv, [Next]_vars PROVE LockHeld'
<1> SUFFICES ASSUME NEW s \in Starts, pc'[s] \in StartSteps \ {"lock"} PROVE ulock' = s
  BY DEF LockHeld
<1>1. s # Nobody  BY AttemptsAssumption DEF Workers
<1>2. CASE Start(s)
  BY <1>2, StartLocks
<1>3. CASE pc'[s] = pc[s]
  <2>1. ulock = s  BY <1>3 DEF IInv, LockHeld
  <2>2. CASE ulock' = ulock
    BY <2>1, <2>2
  <2>3. CASE (Start(s) \/ Crash(s)) /\ Only(s)
    <3>1. CASE Start(s)  BY <3>1, StartLocks
    <3>2. CASE Crash(s)
      BY <3>2, <1>3, CrashMoves DEF StartSteps, DisconnectSteps
    <3> QED  BY <2>3, <3>1, <3>2
  <2> QED  BY <1>1, <2>1, <2>2, <2>3, LockMoves
<1>4. CASE Crash(s)
  BY <1>4, CrashMoves DEF StartSteps
<1>5. pc'[s] = pc[s] \/ Start(s) \/ Crash(s)
  BY Actors, Disjoint DEF QuietFrame, Only, Workers
<1> QED  BY <1>2, <1>3, <1>4, <1>5

\* Attempts become active one at a time, and only by the holder of the lock.
LEMMA ActiveMoves ==
  ASSUME IInv, [Next]_vars
  PROVE  \/ InStatus(Active)' \subseteq InStatus(Active)
         \/ \E s \in Starts : /\ pc[s] = "insert" /\ pc'[s] = "index"
                              /\ InStatus(Active)' \subseteq InStatus(Active) \cup {s}
<1>1. ASSUME NEW a \in Attempts, attempt'[a].status \in Active, attempt[a].status \notin Active
      PROVE  pc[a] = "insert" /\ pc'[a] = "index"
  BY <1>1, RowMoves DEF Edge, Active, Ended
<1>2. CASE \E s \in Starts : pc[s] = "insert" /\ pc'[s] = "index"
  <2>1. PICK s \in Starts : pc[s] = "insert" /\ pc'[s] = "index"
    BY <1>2
  <2>2. \A a \in Attempts : pc[a] = "insert" => a = s
    BY <2>1 DEF IInv, LockHeld, StartSteps
  <2> QED  BY <1>1, <2>1, <2>2 DEF InStatus
<1>3. CASE \A s \in Starts : ~(pc[s] = "insert" /\ pc'[s] = "index")
  BY <1>1, <1>3 DEF InStatus
<1> QED  BY <1>2, <1>3

LEMMA ActiveFinite == IsFiniteSet(InStatus(Active)) /\ Cardinality(InStatus(Active)) \in Nat
<1>1. InStatus(Active) \subseteq Starts  BY DEF InStatus
<1>2. IsFiniteSet(Starts)  BY AttemptsAssumption
<1> QED  BY <1>1, <1>2, FS_Subset, FS_CardinalityType

\* A start that goes on to insert its row has found room.
LEMMA RoomLooked ==
  ASSUME IInv, NEW s \in Starts, Start(s), pc'[s] = "insert"
  PROVE  attempt' = attempt /\ Cardinality(InStatus(Active)) < MaxPending
<1>1. RoomFound(s)
  BY SMTT(60) DEF IInv, TypeOK, Workers, Goto, GotoStep, End, Leave, Start, StartCheck,
     TakeUserLock, LockTimeout, ExpireOne, SkipFresh,
     DropEnded, PruneAttempts, PruneIndexes, MakeRoom, Supersede, Overloaded, RoomFound,
        InsertAttempt, IndexTicket
<1> QED  BY <1>1 DEF RoomFound

LEMMA RoomHeldStep == ASSUME IInv, [Next]_vars PROVE RoomHeld'
<1> SUFFICES ASSUME NEW s \in Starts, pc'[s] = "insert" PROVE Cardinality(InStatus(Active)') < MaxPending
  BY DEF RoomHeld
<1>1. CASE Start(s)
  BY <1>1, RoomLooked DEF InStatus
<1>2. CASE pc'[s] = pc[s]
  <2>1. \A t \in Starts : pc[t] = "insert" => t = s
    BY <1>2 DEF IInv, LockHeld, StartSteps
  <2>2. InStatus(Active)' \subseteq InStatus(Active)  BY <1>2, <2>1, ActiveMoves
  <2>3. Cardinality(InStatus(Active)') <= Cardinality(InStatus(Active)) /\ Cardinality(InStatus(Active)') \in Nat
    BY <2>2, ActiveFinite, FS_Subset, FS_CardinalityType
  <2>4. Cardinality(InStatus(Active)) < MaxPending  BY <1>2 DEF IInv, RoomHeld
  <2> QED  BY <2>3, <2>4, ActiveFinite, AttemptsAssumption, SMT
<1>3. CASE Crash(s)
  BY <1>3, CrashMoves
<1>4. pc'[s] = pc[s] \/ Start(s) \/ Crash(s)
  BY Actors, Disjoint DEF QuietFrame, Only, Workers
<1> QED  BY <1>1, <1>2, <1>3, <1>4

LEMMA BoundedStep == ASSUME IInv, [Next]_vars PROVE AttemptsBounded'
<1> SUFFICES Cardinality(InStatus(Active)') <= MaxPending
  BY DEF AttemptsBounded
<1>1. CASE InStatus(Active)' \subseteq InStatus(Active)
  <2>1. Cardinality(InStatus(Active)') <= Cardinality(InStatus(Active)) /\ Cardinality(InStatus(Active)') \in Nat
    BY <1>1, ActiveFinite, FS_Subset, FS_CardinalityType
  <2>2. Cardinality(InStatus(Active)) <= MaxPending  BY DEF IInv, AttemptsBounded
  <2> QED  BY <2>1, <2>2, ActiveFinite, AttemptsAssumption, SMT
<1>2. CASE \E s \in Starts : pc[s] = "insert" /\ InStatus(Active)' \subseteq InStatus(Active) \cup {s}
  <2>1. PICK s \in Starts : pc[s] = "insert" /\ InStatus(Active)' \subseteq InStatus(Active) \cup {s}
    BY <1>2
  <2>2. Cardinality(InStatus(Active)) < MaxPending  BY <2>1 DEF IInv, RoomHeld
  <2>3. /\ IsFiniteSet(InStatus(Active) \cup {s})
        /\ Cardinality(InStatus(Active) \cup {s}) \in {Cardinality(InStatus(Active)), Cardinality(InStatus(Active)) + 1}
    BY ActiveFinite, FS_AddElement, Zenon
  <2>4. /\ Cardinality(InStatus(Active)') <= Cardinality(InStatus(Active) \cup {s})
        /\ Cardinality(InStatus(Active)') \in Nat
    BY <2>1, <2>3, FS_Subset, FS_CardinalityType
  <2> QED  BY <2>2, <2>3, <2>4, ActiveFinite, AttemptsAssumption, SMT
<1> QED  BY <1>1, <1>2, ActiveMoves

-----------------------------------------------------------------------------
(* The invariant and what follows from it.                                  *)

LEMMA InitIInv == Init => IInv
<1> SUFFICES ASSUME Init PROVE IInv
  OBVIOUS
<1>1. \A w \in Workers : pc[w] \in {"idle", "done"}  BY DEF Init
<1>2. TypeOK
  BY <1>1, Memories, SMTT(60) DEF Init, TypeOK, Workers
<1>3. KindOK /\ LockHeld /\ RoomHeld /\ CompleteLinked
  BY <1>1 DEF KindOK, LockHeld, RoomHeld, CompleteLinked, StartSteps, Workers
<1>4. Made /\ OnIssued /\ TicketsFresh /\ TicketUsedOnce
  BY <1>1 DEF Init, Made, OnIssued, TicketsFresh, TicketUsedOnce, Bound, BrowserSteps,
     CallbackSteps, Workers
<1>5. RedeemedStays /\ RedeemersApart /\ CodeExchangedOnce /\ OutdatedOld /\ LinksUnchangedAccount
  BY <1>1 DEF Init, RedeemedStays, RedeemersApart, CodeExchangedOnce, OutdatedOld,
     LinksUnchangedAccount, Redeemer, Workers
<1>8. EpochsPast
  BY SMT DEF Init, EpochsPast, Workers, Blank, Anew
<1>6. CompletedIsLinked
  BY DEF Init, CompletedIsLinked, InStatus
<1>7. AttemptsBounded
  <2>1. InStatus(Active) = {}  BY DEF Init, InStatus, Active
  <2> QED  BY <2>1, FS_EmptySet, AttemptsAssumption, SMT DEF AttemptsBounded
<1> QED  BY <1>2, <1>3, <1>4, <1>5, <1>6, <1>7, <1>8 DEF IInv

LEMMA NextIInv == IInv /\ [Next]_vars => IInv'
  BY TypeStep, KindStep, MadeStep, OnIssuedStep, TicketsFreshStep, TicketOnceStep, RedeemedStep,
     ApartStep,
     ExchangedOnceStep, EpochsPastStep, OutdatedOldStep, UnchangedStep, CompleteLinkedStep, CompletedStep,
        LockHeldStep,
     RoomHeldStep, BoundedStep DEF IInv

\* The inductive invariant holds in every reachable state of create_connect_attempt,
\* begin_browser_flow, complete_callback and disconnect_graph running side by side.
THEOREM Invariance == Spec => []IInv
  BY InitIInv, NextIInv, PTL DEF Spec

\* Every variable keeps its type, whatever the number of calls.
THEOREM TypeCorrect == Spec => []TypeOK
<1>1. IInv => TypeOK  BY DEF IInv
<1> QED  BY <1>1, Invariance, PTL

\* For any number of callbacks, replayed or parallel, at most one presents the
\* authorization code of an attempt to Entra (transition_attempt's conditional update).
THEOREM CodeOnce == Spec => []CodeExchangedOnce
<1>1. IInv => CodeExchangedOnce  BY DEF IInv
<1> QED  BY <1>1, Invariance, PTL

\* A ticket sends at most one browser to Entra (take_ticket reads and deletes in one
\* transaction).
THEOREM TicketOnce == Spec => []TicketUsedOnce
<1>1. IInv => TicketUsedOnce  BY DEF IInv
<1> QED  BY <1>1, Invariance, PTL

\* However many starts run in parallel or die on the way, no more than
\* MAX_PENDING_ATTEMPTS attempts of a user are under way (_make_room under the user lock).
THEOREM Bounded == Spec => []AttemptsBounded
<1>1. IInv => AttemptsBounded  BY DEF IInv
<1> QED  BY <1>1, Invariance, PTL

\* No attempt connects an account that changed since the attempt began, by a link, a
\* disconnect or an administrator (commit_graph_connection compares and then raises the
\* epoch, as every other change does).
THEOREM LinksUnchanged == Spec => []LinksUnchangedAccount
<1>1. IInv => LinksUnchangedAccount  BY DEF IInv
<1> QED  BY <1>1, Invariance, PTL

\* An attempt whose status reads completed did connect the account.
THEOREM CompletedLinked == Spec => []CompletedIsLinked
<1>1. IInv => CompletedIsLinked  BY DEF IInv
<1> QED  BY <1>1, Invariance, PTL

\* An ended attempt stays as it ended until its row is pruned: no late callback,
\* poll or disconnect revives it.
THEOREM EndedForGood == Spec => EndedStays
<1> DEFINE Stays == \A a \in Attempts : attempt[a].status \in Ended => attempt'[a].status \in {attempt[a].status, "none"}
<1>1. IInv /\ [Next]_vars => Stays
  <2> SUFFICES ASSUME IInv, [Next]_vars, NEW a \in Attempts, attempt[a].status \in Ended
               PROVE  attempt'[a].status \in {attempt[a].status, "none"}
    OBVIOUS
  <2>1. pc[a] # "insert"  BY DEF IInv, Made, Before, StartSteps, Ended
  <2> QED  BY <2>1, RowMoves DEF Edge, Active, Ended
<1>2. IInv /\ [Next]_vars => [Stays]_vars  BY <1>1
<1> QED  BY <1>2, Invariance, PTL DEF Spec, EndedStays

=============================================================================
