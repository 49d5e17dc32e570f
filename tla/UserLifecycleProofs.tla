------------------------- MODULE UserLifecycleProofs -------------------------
(* What holds of a user's life for any number of commands and requests, each   *)
(* of which may die between any two steps: the keys are bounded, nothing is     *)
(* answered late, and, for lives that do not overlap, a user has a store while  *)
(* it may be served and the registry keeps what Account promises.               *)
EXTENDS UserLifecycle, FiniteSetTheorems, TLAPS

\* A command in its locked section holds the lock.
LockHeld == \A w \in Workers : pc[w] \in LockSteps => ulock = w

\* A command about to add a key has counted fewer than there may be.
RoomHeld == \A i \in Issues : pc[i] = "add" => Cardinality(Live) < MaxKeys

\* A request has a key that was issued, and the command that made it is over.
KeysNamed ==
  \A q \in Requests : pc[q] \in {"user", "key", "work", "recheck"} =>
    mem[q].kid \in Kids /\ pc[mem[q].kid] = "issued"

\* A key that was not live when the last check began is not live any more.
LateIsDead == \A q \in Requests : pc[q] = "recheck" /\ mem[q].late = "yes" => mem[q].kid \notin Live

IInv == TypeOK /\ LockHeld /\ RoomHeld /\ KeysBounded /\ KeysNamed /\ LateIsDead /\ NotServedLate

USE DEF Kids

\* Each worker is of one kind.
LEMMA Disjoint ==
  /\ Registers \cap Deletes = {} /\ Registers \cap Issues = {} /\ Registers \cap Revokes = {}
  /\ Registers \cap Requests = {} /\ Deletes \cap Issues = {} /\ Deletes \cap Revokes = {}
  /\ Deletes \cap Requests = {} /\ Issues \cap Revokes = {} /\ Issues \cap Requests = {}
  /\ Revokes \cap Requests = {}
<1>1. /\ Kinds[1] = Registers /\ Kinds[2] = Deletes /\ Kinds[3] = Issues
      /\ Kinds[4] = Revokes /\ Kinds[5] = Requests
  BY DEF Kinds
<1> QED  BY <1>1, LifecycleAssumption

-----------------------------------------------------------------------------
(* Types                                                                       *)

\* Every step keeps the types.
LEMMA TypeStep == ASSUME TypeOK, Next PROVE TypeOK'
<1> USE DEF TypeOK, Goto, Remember, Leave, Unlock, Steps, LockSteps, Memory, Blank, registryVars,
    storeVars
<1>1. ASSUME NEW w \in Workers, TakeUserLock(w) \/ LockTimeout(w) \/ Crash(w) PROVE TypeOK'
  BY <1>1, SMTT(60) DEF TakeUserLock, LockTimeout, Crash, AfterLock
<1>2. ASSUME NEW r \in Registers,
             RegisterStart(r) \/ InitStore(r) \/ CreateDek(r) \/ RegisterCommit(r) \/ RegisterRefused(r)
      PROVE  TypeOK'
  <2>1. CASE RegisterStart(r)
    BY <2>1, SMTT(60) DEF RegisterStart, Workers
  <2>2. CASE InitStore(r)
    BY <2>2, SMTT(60) DEF InitStore, Workers, Files
  <2>3. CASE CreateDek(r)
    BY <2>3, SMTT(60) DEF CreateDek, Workers, Files
  <2>4. CASE RegisterCommit(r)
    BY <2>4, SMTT(60) DEF RegisterCommit, Workers
  <2>5. CASE RegisterRefused(r)
    BY <2>5, SMTT(60) DEF RegisterRefused, Workers
  <2> QED  BY <1>2, <2>1, <2>2, <2>3, <2>4, <2>5
<1>3. ASSUME NEW i \in Issues,
             IssueStart(i) \/ CountKeys(i) \/ AddKey(i) \/ IndexKey(i) \/ KeyExpires(i)
      PROVE  TypeOK'
  BY <1>3, SMTT(60) DEF IssueStart, CountKeys, AddKey, IndexKey, KeyExpires, Workers
<1>4. ASSUME NEW v \in Revokes, RevokeStart(v) \/ Revoke(v) PROVE TypeOK'
  BY <1>4, SMTT(60) DEF RevokeStart, Revoke, Workers
<1>5. ASSUME NEW d \in Deletes,
             DeleteStart(d) \/ CloseAccount(d) \/ Drain(d) \/ WipeStore(d) \/ RemoveFiles(d)
             \/ RemoveFails(d) \/ Forget(d)
      PROVE  TypeOK'
  BY <1>5, SMTT(60) DEF DeleteStart, CloseAccount, Drain, WipeStore, RemoveFiles, RemoveFails,
     Forget, Workers, NoRow, NoKeys
<1>6. ASSUME NEW q \in Requests,
             LookupKid(q) \/ ReadUser(q) \/ ReadKey(q) \/ CheckUser(q) \/ CheckKey(q)
      PROVE  TypeOK'
  BY <1>6, SMTT(60) DEF LookupKid, ReadUser, ReadKey, CheckUser, CheckKey, Workers
<1>7. ASSUME SetStatus PROVE TypeOK'
  BY <1>7, SMTT(60) DEF SetStatus
<1> QED  BY <1>1, <1>2, <1>3, <1>4, <1>5, <1>6, <1>7 DEF Next
-----------------------------------------------------------------------------
(* Steps                                                                       *)

\* The steps of a command with the lock, of a kind of command, and of a request.
Waiting(w) == TakeUserLock(w) \/ LockTimeout(w) \/ Crash(w)
Registration(r) ==
  RegisterStart(r) \/ InitStore(r) \/ CreateDek(r) \/ RegisterCommit(r) \/ RegisterRefused(r)
Issue(i) == IssueStart(i) \/ CountKeys(i) \/ AddKey(i) \/ IndexKey(i) \/ KeyExpires(i)
Revocation(v) == RevokeStart(v) \/ Revoke(v)
Deletion(d) ==
  \/ DeleteStart(d) \/ CloseAccount(d) \/ Drain(d) \/ WipeStore(d) \/ RemoveFiles(d)
  \/ RemoveFails(d) \/ Forget(d)
Request(q) == LookupKid(q) \/ ReadUser(q) \/ ReadKey(q) \/ CheckUser(q) \/ CheckKey(q)

\* A step is one of these.
LEMMA NextIsOne ==
  Next <=> \/ \E w \in Workers : Waiting(w)
           \/ \E r \in Registers : Registration(r)
           \/ \E i \in Issues : Issue(i)
           \/ \E v \in Revokes : Revocation(v)
           \/ \E d \in Deletes : Deletion(d)
           \/ \E q \in Requests : Request(q)
           \/ SetStatus
  BY Zenon DEF Next, Waiting, Registration, Issue, Revocation, Deletion, Request

\* Every step keeps the lock with those inside.
LEMMA LockStep == ASSUME TypeOK, LockHeld, Next PROVE LockHeld'
<1> USE DEF TypeOK, Goto, Remember, Leave, Unlock, Steps, LockSteps, Blank, registryVars, storeVars,
    Workers, LockHeld
<1>1. ASSUME NEW w \in Workers, Waiting(w) PROVE LockHeld'
  BY <1>1, LifecycleAssumption, SMTT(60) DEF Waiting, TakeUserLock, LockTimeout, Crash, AfterLock
<1>2. ASSUME NEW r \in Registers, Registration(r) PROVE LockHeld'
  BY <1>2, Disjoint, SMTT(60) DEF Registration, RegisterStart, InitStore, CreateDek, RegisterCommit,
      RegisterRefused
<1>3. ASSUME NEW i \in Issues, Issue(i) PROVE LockHeld'
  BY <1>3, Disjoint, SMTT(60) DEF Issue, IssueStart, CountKeys, AddKey, IndexKey, KeyExpires
<1>4. ASSUME NEW v \in Revokes, Revocation(v) PROVE LockHeld'
  BY <1>4, Disjoint, SMTT(60) DEF Revocation, RevokeStart, Revoke
<1>5. ASSUME NEW d \in Deletes, Deletion(d) PROVE LockHeld'
  BY <1>5, Disjoint, SMTT(60) DEF Deletion, DeleteStart, CloseAccount, Drain, WipeStore,
      RemoveFiles, RemoveFails, Forget
<1>6. ASSUME NEW q \in Requests, Request(q) PROVE LockHeld'
  BY <1>6, Disjoint, SMTT(60) DEF Request, LookupKid, ReadUser, ReadKey, CheckUser, CheckKey
<1>7. ASSUME SetStatus PROVE LockHeld'
  BY <1>7, Disjoint, SMTT(60) DEF SetStatus
<1> QED  BY <1>1, <1>2, <1>3, <1>4, <1>5, <1>6, <1>7, NextIsOne

\* What a step does to the live keys, and who is then about to add one.
Counted ==
  \/ /\ Live' \subseteq Live
     /\ \A j \in Issues : pc'[j] = "add" => pc[j] = "add" \/ Cardinality(Live) < MaxKeys
  \/ \E i \in Issues : /\ pc[i] = "add" /\ Live' = Live \cup {i}
                        /\ \A j \in Issues : pc'[j] # "add"

\* Every step is one of these, for the keys.
LEMMA KeysMove == ASSUME TypeOK, LockHeld, Next PROVE Counted
<1> USE DEF TypeOK, Goto, Remember, Leave, Unlock, Steps, LockSteps, Blank, registryVars, storeVars,
    Workers, LockHeld, Counted, Live
<1>1. ASSUME NEW w \in Workers, Waiting(w) PROVE Counted
  BY <1>1, Disjoint, SMTT(60) DEF Waiting, TakeUserLock, LockTimeout, Crash, AfterLock
<1>2. ASSUME NEW r \in Registers, Registration(r) PROVE Counted
  BY <1>2, Disjoint, SMTT(60) DEF Registration, RegisterStart, InitStore, CreateDek, RegisterCommit,
      RegisterRefused
<1>3. ASSUME NEW i \in Issues, Issue(i) PROVE Counted
  BY <1>3, Disjoint, SMTT(60) DEF Issue, IssueStart, CountKeys, AddKey, IndexKey, KeyExpires
<1>4. ASSUME NEW v \in Revokes, Revocation(v) PROVE Counted
  BY <1>4, Disjoint, SMTT(60) DEF Revocation, RevokeStart, Revoke
<1>5. ASSUME NEW d \in Deletes, Deletion(d) PROVE Counted
  BY <1>5, Disjoint, SMTT(60) DEF Deletion, DeleteStart, CloseAccount, Drain, WipeStore,
      RemoveFiles, RemoveFails, Forget, NoKeys
<1>6. ASSUME NEW q \in Requests, Request(q) PROVE Counted
  BY <1>6, Disjoint, SMTT(60) DEF Request, LookupKid, ReadUser, ReadKey, CheckUser, CheckKey
<1>7. ASSUME SetStatus PROVE Counted
  BY <1>7, Disjoint, SMTT(60) DEF SetStatus
<1> QED  BY <1>1, <1>2, <1>3, <1>4, <1>5, <1>6, <1>7, NextIsOne

\* Every step keeps the requests to their keys.
LEMMA NameStep == ASSUME TypeOK, KeysNamed, Next PROVE KeysNamed'
<1> USE DEF TypeOK, Goto, Remember, Leave, Unlock, Steps, LockSteps, Blank, registryVars, storeVars,
    Workers, KeysNamed
<1>1. ASSUME NEW w \in Workers, Waiting(w) PROVE KeysNamed'
  BY <1>1, Disjoint, SMTT(60) DEF Waiting, TakeUserLock, LockTimeout, Crash, AfterLock
<1>2. ASSUME NEW r \in Registers, Registration(r) PROVE KeysNamed'
  BY <1>2, Disjoint, SMTT(60) DEF Registration, RegisterStart, InitStore, CreateDek, RegisterCommit,
      RegisterRefused
<1>3. ASSUME NEW i \in Issues, Issue(i) PROVE KeysNamed'
  BY <1>3, Disjoint, SMTT(60) DEF Issue, IssueStart, CountKeys, AddKey, IndexKey, KeyExpires
<1>4. ASSUME NEW v \in Revokes, Revocation(v) PROVE KeysNamed'
  BY <1>4, Disjoint, SMTT(60) DEF Revocation, RevokeStart, Revoke
<1>5. ASSUME NEW d \in Deletes, Deletion(d) PROVE KeysNamed'
  BY <1>5, Disjoint, SMTT(60) DEF Deletion, DeleteStart, CloseAccount, Drain, WipeStore,
      RemoveFiles, RemoveFails, Forget
<1>6. ASSUME NEW q \in Requests, Request(q) PROVE KeysNamed'
  <2>1. CASE LookupKid(q)
    BY <2>1, SMTT(60) DEF LookupKid
  <2>2. CASE ReadUser(q)
    <3>1. mem[q] \in Memory /\ q \in Workers
      OBVIOUS
    <3>2. pc' = [pc EXCEPT ![q] = pc'[q]] /\ mem' = [mem EXCEPT ![q] = mem'[q]]
      BY <2>2 DEF ReadUser
    <3>3. pc'[q] # "done" => pc[q] \in {"user", "work"} /\ mem'[q].kid = mem[q].kid
      BY <2>2, <3>1 DEF ReadUser, Memory
    <3>4. pc[q] # "issued"
      BY <2>2 DEF ReadUser
    <3>5. \A k \in Workers : k # q => pc'[k] = pc[k] /\ mem'[k] = mem[k]
      BY <3>2
    <3> QED BY <3>3, <3>4, <3>5
  <2>3. CASE ReadKey(q)
    BY <2>3, SMTT(60) DEF ReadKey
  <2>4. CASE CheckUser(q)
    <3>1. mem[q] \in Memory /\ q \in Workers
      OBVIOUS
    <3>2. pc' = [pc EXCEPT ![q] = pc'[q]] /\ mem' = [mem EXCEPT ![q] = mem'[q]]
      BY <2>4 DEF CheckUser
    <3>3. pc'[q] # "done" => pc[q] \in {"user", "work"} /\ mem'[q].kid = mem[q].kid
      BY <2>4, <3>1 DEF CheckUser, Memory
    <3>4. pc[q] # "issued"
      BY <2>4 DEF CheckUser
    <3>5. \A k \in Workers : k # q => pc'[k] = pc[k] /\ mem'[k] = mem[k]
      BY <3>2
    <3> QED BY <3>3, <3>4, <3>5
  <2>5. CASE CheckKey(q)
    BY <2>5, SMTT(60) DEF CheckKey
  <2> QED BY <1>6, <2>1, <2>2, <2>3, <2>4, <2>5 DEF Request
<1>7. ASSUME SetStatus PROVE KeysNamed'
  BY <1>7, Disjoint, SMTT(60) DEF SetStatus
<1> QED  BY <1>1, <1>2, <1>3, <1>4, <1>5, <1>6, <1>7, NextIsOne

\* A key that has been issued and is not live stays so.
LEMMA DeadStays ==
  ASSUME TypeOK, Next
  PROVE  \A k \in Kids : pc[k] = "issued" /\ k \notin Live => k \notin Live'
<1> USE DEF TypeOK, Goto, Remember, Leave, Unlock, Steps, LockSteps, Blank, registryVars, storeVars,
    Workers, Live
<1>1. ASSUME NEW w \in Workers, Waiting(w) PROVE \A k \in Kids : pc[k] = "issued" /\ k \notin Live => k \notin Live'
  BY <1>1, Disjoint, SMTT(60) DEF Waiting, TakeUserLock, LockTimeout, Crash, AfterLock
<1>2. ASSUME NEW r \in Registers, Registration(r) PROVE \A k \in Kids : pc[k] = "issued" /\ k \notin Live => k \notin Live'
  BY <1>2, Disjoint, SMTT(60) DEF Registration, RegisterStart, InitStore, CreateDek, RegisterCommit,
      RegisterRefused
<1>3. ASSUME NEW i \in Issues, Issue(i) PROVE \A k \in Kids : pc[k] = "issued" /\ k \notin Live => k \notin Live'
  BY <1>3, Disjoint, SMTT(60) DEF Issue, IssueStart, CountKeys, AddKey, IndexKey, KeyExpires
<1>4. ASSUME NEW v \in Revokes, Revocation(v) PROVE \A k \in Kids : pc[k] = "issued" /\ k \notin Live => k \notin Live'
  BY <1>4, Disjoint, SMTT(60) DEF Revocation, RevokeStart, Revoke
<1>5. ASSUME NEW d \in Deletes, Deletion(d) PROVE \A k \in Kids : pc[k] = "issued" /\ k \notin Live => k \notin Live'
  BY <1>5, Disjoint, SMTT(60) DEF Deletion, DeleteStart, CloseAccount, Drain, WipeStore,
      RemoveFiles, RemoveFails, Forget, NoKeys
<1>6. ASSUME NEW q \in Requests, Request(q) PROVE \A k \in Kids : pc[k] = "issued" /\ k \notin Live => k \notin Live'
  BY <1>6, Disjoint, SMTT(60) DEF Request, LookupKid, ReadUser, ReadKey, CheckUser, CheckKey
<1>7. ASSUME SetStatus PROVE \A k \in Kids : pc[k] = "issued" /\ k \notin Live => k \notin Live'
  BY <1>7, Disjoint, SMTT(60) DEF SetStatus
<1> QED  BY <1>1, <1>2, <1>3, <1>4, <1>5, <1>6, <1>7, NextIsOne

-----------------------------------------------------------------------------
(* Keys and answers                                                            *)

\* The cardinality of the live keys.
LEMMA LiveFinite == IsFiniteSet(Live) /\ Cardinality(Live) \in Nat
<1>1. IsFiniteSet(Live)
  BY LifecycleAssumption, FS_Subset DEF Live
<1> QED  BY <1>1, FS_CardinalityType

\* Every step keeps the room that was counted, and with it the bound.
LEMMA RoomStep ==
  ASSUME TypeOK, LockHeld, RoomHeld, KeysBounded, Next PROVE RoomHeld' /\ KeysBounded'
<1>1. Counted
  BY KeysMove
<1>2. CASE /\ Live' \subseteq Live
           /\ \A j \in Issues : pc'[j] = "add" => pc[j] = "add" \/ Cardinality(Live) < MaxKeys
  <2>1. Cardinality(Live') <= Cardinality(Live) /\ Cardinality(Live') \in Nat
    BY <1>2, LiveFinite, FS_Subset, FS_CardinalityType
  <2>2. Cardinality(Live') <= MaxKeys
    BY <2>1, LiveFinite, LifecycleAssumption DEF KeysBounded
  <2>3. ASSUME NEW j \in Issues, pc'[j] = "add" PROVE Cardinality(Live') < MaxKeys
    <3>1. Cardinality(Live) < MaxKeys
      BY <1>2, <2>3 DEF RoomHeld
    <3> QED BY <2>1, <3>1, LiveFinite, LifecycleAssumption
  <2> QED BY <2>2, <2>3 DEF KeysBounded, RoomHeld
<1>3. ASSUME NEW i \in Issues, pc[i] = "add", Live' = Live \cup {i},
             \A j \in Issues : pc'[j] # "add"
      PROVE  RoomHeld' /\ KeysBounded'
  <2> DEFINE n == Cardinality(Live)  m == Cardinality(Live \cup {i})
  <2>1. m = IF i \in Live THEN n ELSE n + 1
    BY LiveFinite, FS_AddElement, Zenon
  <2>2. n \in Nat /\ MaxKeys \in Nat /\ n < MaxKeys
    BY <1>3, LiveFinite, LifecycleAssumption DEF RoomHeld
  <2> HIDE DEF n, m
  <2>3. m <= MaxKeys
    BY <2>1, <2>2
  <2> QED BY <1>3, <2>3 DEF m, RoomHeld, KeysBounded
<1> QED  BY <1>1, <1>2, <1>3 DEF Counted

\* What the last check makes of a request: it begins with a key that is live or marked
\* as late, and ends well with a live one.
Asked(q) ==
  \/ pc'[q] = pc[q] /\ mem'[q] = mem[q]
  \/ /\ pc'[q] = "recheck" /\ pc[mem'[q].kid] = "issued" /\ mem'[q].kid \in Kids
     /\ mem'[q].late = "yes" => mem'[q].kid \notin Live
  \/ pc'[q] = "answered" /\ pc[q] = "recheck" /\ mem'[q] = mem[q] /\ mem[q].kid \in Live
  \/ pc'[q] \notin {"recheck", "answered"}

\* Every step is one of these, for a request.
LEMMA CheckMoves == ASSUME TypeOK, KeysNamed, Next PROVE \A q \in Requests : Asked(q)
<1> USE DEF TypeOK, Goto, Remember, Leave, Unlock, Steps, LockSteps, Blank, registryVars, storeVars,
    Workers
<1> DEFINE Goal == \A q \in Requests : Asked(q)
<1>1. ASSUME NEW w \in Workers, Waiting(w) PROVE Goal
  BY <1>1, Disjoint, SMTT(60) DEF Asked, Waiting, TakeUserLock, LockTimeout, Crash, AfterLock
<1>2. ASSUME NEW r \in Registers, Registration(r) PROVE Goal
  BY <1>2, Disjoint, SMTT(60) DEF Asked, Registration, RegisterStart, InitStore, CreateDek,
      RegisterCommit, RegisterRefused
<1>3. ASSUME NEW i \in Issues, Issue(i) PROVE Goal
  BY <1>3, Disjoint, SMTT(60) DEF Asked, Issue, IssueStart, CountKeys, AddKey, IndexKey, KeyExpires
<1>4. ASSUME NEW v \in Revokes, Revocation(v) PROVE Goal
  BY <1>4, Disjoint, SMTT(60) DEF Asked, Revocation, RevokeStart, Revoke
<1>5. ASSUME NEW d \in Deletes, Deletion(d) PROVE Goal
  BY <1>5, Disjoint, SMTT(60) DEF Asked, Deletion, DeleteStart, CloseAccount, Drain, WipeStore,
      RemoveFiles, RemoveFails, Forget
<1>6. ASSUME NEW q \in Requests, Request(q) PROVE Goal
  <2>1. mem[q] \in Memory /\ q \in Workers
    OBVIOUS
  <2>2. pc' = [pc EXCEPT ![q] = pc'[q]] /\ mem' = [mem EXCEPT ![q] = mem'[q]]
    BY <1>6, SMTT(60) DEF Request, LookupKid, ReadUser, ReadKey, CheckUser, CheckKey
  <2>3. \A k \in Workers : k # q => pc'[k] = pc[k] /\ mem'[k] = mem[k]
    BY <2>2
  <2>4. Asked(q)
    <3>1. CASE LookupKid(q)
      BY <3>1 DEF LookupKid, Asked
    <3>2. CASE ReadUser(q)
      BY <3>2 DEF ReadUser, Asked
    <3>3. CASE ReadKey(q)
      BY <3>3 DEF ReadKey, Asked
    <3>4. CASE CheckUser(q)
      BY <2>1, <3>4 DEF CheckUser, Asked, Memory, KeysNamed
    <3>5. CASE CheckKey(q)
      BY <3>5 DEF CheckKey, Asked
    <3> QED BY <1>6, <3>1, <3>2, <3>3, <3>4, <3>5 DEF Request
  <2> QED BY <2>3, <2>4 DEF Asked
<1>7. ASSUME SetStatus PROVE Goal
  BY <1>7, SMTT(60) DEF SetStatus, Asked
<1> QED  BY <1>1, <1>2, <1>3, <1>4, <1>5, <1>6, <1>7, NextIsOne

\* What a request at its last check has remembered, and who is answered.
LEMMA AnswerStep == ASSUME TypeOK, KeysNamed, LateIsDead, NotServedLate, Next
                    PROVE LateIsDead' /\ NotServedLate'
<1>d. \A k \in Kids : pc[k] = "issued" /\ k \notin Live => k \notin Live'
  BY DeadStays
<1>1. \A q \in Requests : Asked(q)
  BY CheckMoves
<1>2. ASSUME NEW q \in Requests, pc'[q] = "recheck", mem'[q].late = "yes"
      PROVE  mem'[q].kid \notin Live'
  <2>1. CASE pc'[q] = pc[q] /\ mem'[q] = mem[q]
    BY <1>d, <1>2, <2>1 DEF LateIsDead, KeysNamed
  <2>2. CASE mem'[q].kid \notin Live /\ pc[mem'[q].kid] = "issued" /\ mem'[q].kid \in Kids
    BY <1>d, <2>2
  <2> QED BY <1>1, <1>2, <2>1, <2>2 DEF Asked
<1>3. ASSUME NEW q \in Requests, pc'[q] = "answered" PROVE mem'[q].late = "no"
  <2>1. mem[q].late \in {"no", "yes"}
    BY DEF TypeOK, Workers, Memory
  <2>2. CASE pc'[q] = pc[q] /\ mem'[q] = mem[q]
    BY <1>3, <2>2 DEF NotServedLate
  <2>3. CASE pc[q] = "recheck" /\ mem'[q] = mem[q] /\ mem[q].kid \in Live
    BY <2>1, <2>3 DEF LateIsDead
  <2> QED BY <1>1, <1>3, <2>2, <2>3 DEF Asked
<1> QED  BY <1>2, <1>3 DEF LateIsDead, NotServedLate

-----------------------------------------------------------------------------
(* The theorems, for lives that may overlap                                    *)

\* In the initial state.
LEMMA InitInv == Init => IInv
<1> SUFFICES ASSUME Init PROVE IInv
  OBVIOUS
<1>1. TypeOK
  BY DEF Init, TypeOK, NoRow, NoKeys, Blank, Memory
<1>2. Live = {} /\ Cardinality(Live) = 0
  BY FS_EmptySet DEF Init, NoKeys, Live
<1> QED  BY <1>1, <1>2, LifecycleAssumption DEF Init, IInv, LockHeld, RoomHeld, KeysBounded, KeysNamed,
     LateIsDead, NotServedLate, LockSteps, Workers

\* The invariant that the theorems below are parts of.
THEOREM Invariance == Spec => []IInv
<1>1. IInv /\ [Next]_vars => IInv'
  <2> SUFFICES ASSUME IInv, [Next]_vars PROVE IInv'
    OBVIOUS
  <2>1. CASE Next
    BY <2>1, TypeStep, LockStep, RoomStep, NameStep, AnswerStep DEF IInv
  <2>2. CASE UNCHANGED vars
    BY <2>2 DEF vars, IInv, TypeOK, LockHeld, RoomHeld, KeysBounded, KeysNamed, LateIsDead,
       NotServedLate, Live
  <2> QED BY <2>1, <2>2
<1> QED  BY <1>1, InitInv, PTL DEF Spec

\* The row, the tombstone, the keys and every command keep their types.
THEOREM TypeCorrect == Spec => []TypeOK
<1>1. IInv => TypeOK
  BY DEF IInv
<1> QED  BY <1>1, Invariance, PTL

\* A user never has more live keys than MAX_ACTIVE_KEYS, however many commands issue and
\* rotate at once and wherever one dies (registry_admin.py, issue_key).
THEOREM KeysAreBounded == Spec => []KeysBounded
<1>1. IInv => KeysBounded
  BY DEF IInv
<1> QED  BY <1>1, Invariance, PTL

\* No answer with a key that was gone before the request's last check began
\* (identity_registry.py, assert_active).
THEOREM ServedInTime == Spec => []NotServedLate
<1>1. IInv => NotServedLate
  BY DEF IInv
<1> QED  BY <1>1, Invariance, PTL

-----------------------------------------------------------------------------
(* Lives that do not overlap                                                   *)

\* A deletion under way is alone.
Turns ==
  \A d \in Deletes, v \in Registers \cup Deletes :
    v # d /\ pc[d] \notin {"idle", "done"} => pc[v] \in {"idle", "done"}

\* A registration has made what it goes on with.
Built ==
  \A r \in Registers : /\ pc[r] \in {"lock", "dek", "commit"} => HasStore
                       /\ pc[r] = "commit" => files = Files

\* A deletion past its first transaction finds the account closed.
Closed ==
  \A d \in Deletes :
    pc[d] \in {"drain", "lock", "wipe", "rmtree", "final"} => row.status = "deleting"

\* An account that is not closed has its store, and a key on its way has one.
Stored == row.status \in {"usable", "disabled"} => files = Files
Indexed == \A i \in Issues : pc[i] \in {"add", "index"} => HasStore

Lives == Turns /\ Built /\ Closed /\ Stored /\ Indexed /\ NoKeyLeadsNowhere

\* A deletion stays alone.
LEMMA TurnStep ==
  ASSUME Serial, TypeOK, LockHeld, Lives, Next PROVE Turns'
<1> USE DEF Lives, TypeOK, Goto, Remember, Leave, Unlock, Steps, LockSteps, Blank, registryVars,
    storeVars, Workers,
    Turns, Turn
<1>1. ASSUME NEW w \in Workers, Waiting(w) PROVE Turns'
  BY <1>1, Disjoint, SMTT(60) DEF Waiting, TakeUserLock, LockTimeout, Crash, AfterLock
<1>2. ASSUME NEW r \in Registers, Registration(r) PROVE Turns'
  BY <1>2, Disjoint, SMTT(60) DEF Registration, RegisterStart, InitStore, CreateDek, RegisterCommit,
      RegisterRefused
<1>3. ASSUME NEW i \in Issues, Issue(i) PROVE Turns'
  BY <1>3, Disjoint, SMTT(60) DEF Issue, IssueStart, CountKeys, AddKey, IndexKey, KeyExpires
<1>4. ASSUME NEW v \in Revokes, Revocation(v) PROVE Turns'
  BY <1>4, Disjoint, SMTT(60) DEF Revocation, RevokeStart, Revoke
<1>5. ASSUME NEW d \in Deletes, Deletion(d) PROVE Turns'
  BY <1>5, Disjoint, SMTT(60) DEF Deletion, DeleteStart, CloseAccount, Drain, WipeStore,
      RemoveFiles, RemoveFails, Forget
<1>6. ASSUME NEW q \in Requests, Request(q) PROVE Turns'
  BY <1>6, Disjoint, SMTT(60) DEF Request, LookupKid, ReadUser, ReadKey, CheckUser, CheckKey
<1>7. ASSUME SetStatus PROVE Turns'
  BY <1>7, Disjoint, SMTT(60) DEF SetStatus
<1> QED  BY <1>1, <1>2, <1>3, <1>4, <1>5, <1>6, <1>7, NextIsOne

\* What is built stays while no deletion is under way.
LEMMA BuiltStep ==
  ASSUME Serial, TypeOK, LockHeld, Lives, Next PROVE Built'
<1> USE DEF Lives, TypeOK, Goto, Remember, Leave, Unlock, Steps, LockSteps, Blank, registryVars,
    storeVars, Workers,
    Turns, Built, HasStore, Files
<1>1. ASSUME NEW w \in Workers, Waiting(w) PROVE Built'
  BY <1>1, Disjoint, SMTT(60) DEF Waiting, TakeUserLock, LockTimeout, Crash, AfterLock
<1>2. ASSUME NEW r \in Registers, Registration(r) PROVE Built'
  <2>1. CASE RegisterStart(r)
    BY <2>1 DEF RegisterStart
  <2>2. CASE InitStore(r)
    BY <2>2 DEF InitStore
  <2>3. CASE CreateDek(r)
    <3>1. HasStore /\ files' = Files
      BY <2>3 DEF CreateDek
    <3> QED BY <2>3, <3>1 DEF CreateDek
  <2>4. CASE RegisterCommit(r) \/ RegisterRefused(r)
    BY <2>4 DEF RegisterCommit, RegisterRefused
  <2> QED BY <1>2, <2>1, <2>2, <2>3, <2>4 DEF Registration
<1>3. ASSUME NEW i \in Issues, Issue(i) PROVE Built'
  BY <1>3, Disjoint, SMTT(60) DEF Issue, IssueStart, CountKeys, AddKey, IndexKey, KeyExpires
<1>4. ASSUME NEW v \in Revokes, Revocation(v) PROVE Built'
  BY <1>4, Disjoint, SMTT(60) DEF Revocation, RevokeStart, Revoke
<1>5. ASSUME NEW d \in Deletes, Deletion(d) PROVE Built'
  BY <1>5, Disjoint, SMTT(60) DEF Deletion, DeleteStart, CloseAccount, Drain, WipeStore,
      RemoveFiles, RemoveFails, Forget
<1>6. ASSUME NEW q \in Requests, Request(q) PROVE Built'
  BY <1>6, Disjoint, SMTT(60) DEF Request, LookupKid, ReadUser, ReadKey, CheckUser, CheckKey
<1>7. ASSUME SetStatus PROVE Built'
  BY <1>7, Disjoint, SMTT(60) DEF SetStatus
<1> QED  BY <1>1, <1>2, <1>3, <1>4, <1>5, <1>6, <1>7, NextIsOne

\* Only its deletion leads a closed account on.
LEMMA ClosedStep ==
  ASSUME Serial, TypeOK, LockHeld, Lives, Next PROVE Closed'
<1> USE DEF Lives, TypeOK, Goto, Remember, Leave, Unlock, Steps, LockSteps, Blank, registryVars,
    storeVars, Workers,
    Turns, Closed
<1>1. ASSUME NEW w \in Workers, Waiting(w) PROVE Closed'
  BY <1>1, Disjoint, SMTT(60) DEF Waiting, TakeUserLock, LockTimeout, Crash, AfterLock
<1>2. ASSUME NEW r \in Registers, Registration(r) PROVE Closed'
  BY <1>2, Disjoint, SMTT(60) DEF Registration, RegisterStart, InitStore, CreateDek, RegisterCommit,
      RegisterRefused
<1>3. ASSUME NEW i \in Issues, Issue(i) PROVE Closed'
  BY <1>3, Disjoint, SMTT(60) DEF Issue, IssueStart, CountKeys, AddKey, IndexKey, KeyExpires
<1>4. ASSUME NEW v \in Revokes, Revocation(v) PROVE Closed'
  BY <1>4, Disjoint, SMTT(60) DEF Revocation, RevokeStart, Revoke
<1>5. ASSUME NEW d \in Deletes, Deletion(d) PROVE Closed'
  BY <1>5, Disjoint, SMTT(60) DEF Deletion, DeleteStart, CloseAccount, Drain, WipeStore,
      RemoveFiles, RemoveFails, Forget
<1>6. ASSUME NEW q \in Requests, Request(q) PROVE Closed'
  BY <1>6, Disjoint, SMTT(60) DEF Request, LookupKid, ReadUser, ReadKey, CheckUser, CheckKey
<1>7. ASSUME SetStatus PROVE Closed'
  BY <1>7, Disjoint, SMTT(60) DEF SetStatus
<1> QED  BY <1>1, <1>2, <1>3, <1>4, <1>5, <1>6, <1>7, NextIsOne

\* A store is taken only from a closed account.
LEMMA StoredStep ==
  ASSUME Serial, TypeOK, LockHeld, Lives, Next PROVE Stored'
<1> USE DEF Lives, TypeOK, Goto, Remember, Leave, Unlock, Steps, LockSteps, Blank, registryVars,
    storeVars, Workers,
    Turns, Built, Closed, Stored, Files, NoRow
<1>1. ASSUME NEW w \in Workers, Waiting(w) PROVE Stored'
  BY <1>1, Disjoint, SMTT(60) DEF Waiting, TakeUserLock, LockTimeout, Crash, AfterLock
<1>2. ASSUME NEW r \in Registers, Registration(r) PROVE Stored'
  BY <1>2, Disjoint, SMTT(60) DEF Registration, RegisterStart, InitStore, CreateDek, RegisterCommit,
      RegisterRefused
<1>3. ASSUME NEW i \in Issues, Issue(i) PROVE Stored'
  BY <1>3, Disjoint, SMTT(60) DEF Issue, IssueStart, CountKeys, AddKey, IndexKey, KeyExpires
<1>4. ASSUME NEW v \in Revokes, Revocation(v) PROVE Stored'
  BY <1>4, Disjoint, SMTT(60) DEF Revocation, RevokeStart, Revoke
<1>5. ASSUME NEW d \in Deletes, Deletion(d) PROVE Stored'
  BY <1>5, Disjoint, SMTT(60) DEF Deletion, DeleteStart, CloseAccount, Drain, WipeStore,
      RemoveFiles, RemoveFails, Forget
<1>6. ASSUME NEW q \in Requests, Request(q) PROVE Stored'
  BY <1>6, Disjoint, SMTT(60) DEF Request, LookupKid, ReadUser, ReadKey, CheckUser, CheckKey
<1>7. ASSUME SetStatus PROVE Stored'
  BY <1>7, Disjoint, SMTT(60) DEF SetStatus
<1> QED  BY <1>1, <1>2, <1>3, <1>4, <1>5, <1>6, <1>7, NextIsOne

\* A store is not taken from under a key on its way.
LEMMA IndexedStep ==
  ASSUME Serial, TypeOK, LockHeld, Lives, Next PROVE Indexed'
<1> USE DEF Lives, TypeOK, Goto, Remember, Leave, Unlock, Steps, LockSteps, Blank, registryVars,
    storeVars, Workers,
    LockHeld, Indexed, HasStore, Files
<1>1. ASSUME NEW w \in Workers, Waiting(w) PROVE Indexed'
  BY <1>1, Disjoint, SMTT(60) DEF Waiting, TakeUserLock, LockTimeout, Crash, AfterLock
<1>2. ASSUME NEW r \in Registers, Registration(r) PROVE Indexed'
  BY <1>2, Disjoint, SMTT(60) DEF Registration, RegisterStart, InitStore, CreateDek, RegisterCommit,
      RegisterRefused
<1>3. ASSUME NEW i \in Issues, Issue(i) PROVE Indexed'
  BY <1>3, Disjoint, SMTT(60) DEF Issue, IssueStart, CountKeys, AddKey, IndexKey, KeyExpires
<1>4. ASSUME NEW v \in Revokes, Revocation(v) PROVE Indexed'
  BY <1>4, Disjoint, SMTT(60) DEF Revocation, RevokeStart, Revoke
<1>5. ASSUME NEW d \in Deletes, Deletion(d) PROVE Indexed'
  BY <1>5, Disjoint, SMTT(60) DEF Deletion, DeleteStart, CloseAccount, Drain, WipeStore,
      RemoveFiles, RemoveFails, Forget
<1>6. ASSUME NEW q \in Requests, Request(q) PROVE Indexed'
  BY <1>6, Disjoint, SMTT(60) DEF Request, LookupKid, ReadUser, ReadKey, CheckUser, CheckKey
<1>7. ASSUME SetStatus PROVE Indexed'
  BY <1>7, Disjoint, SMTT(60) DEF SetStatus
<1> QED  BY <1>1, <1>2, <1>3, <1>4, <1>5, <1>6, <1>7, NextIsOne

\* The index is emptied with the account.
LEMMA NowhereStep ==
  ASSUME Serial, TypeOK, LockHeld, Lives, Next PROVE NoKeyLeadsNowhere'
<1> USE DEF Lives, TypeOK, Goto, Remember, Leave, Unlock, Steps, LockSteps, Blank, registryVars,
    storeVars, Workers,
    Closed, Indexed, HasStore, NoKeyLeadsNowhere, NoRow
<1>1. ASSUME NEW w \in Workers, Waiting(w) PROVE NoKeyLeadsNowhere'
  BY <1>1, Disjoint, SMTT(60) DEF Waiting, TakeUserLock, LockTimeout, Crash, AfterLock
<1>2. ASSUME NEW r \in Registers, Registration(r) PROVE NoKeyLeadsNowhere'
  BY <1>2, Disjoint, SMTT(60) DEF Registration, RegisterStart, InitStore, CreateDek, RegisterCommit,
      RegisterRefused
<1>3. ASSUME NEW i \in Issues, Issue(i) PROVE NoKeyLeadsNowhere'
  BY <1>3, Disjoint, SMTT(60) DEF Issue, IssueStart, CountKeys, AddKey, IndexKey, KeyExpires
<1>4. ASSUME NEW v \in Revokes, Revocation(v) PROVE NoKeyLeadsNowhere'
  BY <1>4, Disjoint, SMTT(60) DEF Revocation, RevokeStart, Revoke
<1>5. ASSUME NEW d \in Deletes, Deletion(d) PROVE NoKeyLeadsNowhere'
  BY <1>5, Disjoint, SMTT(60) DEF Deletion, DeleteStart, CloseAccount, Drain, WipeStore,
      RemoveFiles, RemoveFails, Forget
<1>6. ASSUME NEW q \in Requests, Request(q) PROVE NoKeyLeadsNowhere'
  BY <1>6, Disjoint, SMTT(60) DEF Request, LookupKid, ReadUser, ReadKey, CheckUser, CheckKey
<1>7. ASSUME SetStatus PROVE NoKeyLeadsNowhere'
  BY <1>7, Disjoint, SMTT(60) DEF SetStatus
<1> QED  BY <1>1, <1>2, <1>3, <1>4, <1>5, <1>6, <1>7, NextIsOne

\* The invariant of lives that do not overlap.
THEOREM LivesApart == ASSUME Serial PROVE Spec => []Lives
<1>1. Init => Lives
  BY DEF Init, NoRow, Lives, Turns, Built, Closed, Stored, Indexed, NoKeyLeadsNowhere, Workers
<1>2. IInv /\ Lives /\ [Next]_vars => Lives'
  <2> SUFFICES ASSUME IInv, Lives, [Next]_vars PROVE Lives'
    OBVIOUS
  <2>1. CASE Next
    BY <2>1, TurnStep, BuiltStep, ClosedStep, StoredStep, IndexedStep, NowhereStep DEF IInv, Lives
  <2>2. CASE UNCHANGED vars
    BY <2>2 DEF vars, Lives, Turns, Built, Closed, Stored, Indexed, NoKeyLeadsNowhere, HasStore
  <2> QED BY <2>1, <2>2
<1> QED  BY <1>1, <1>2, Invariance, PTL DEF Spec

\* A user that may be served has its auth.db and its data key, whichever commands died on
\* the way there (registry_admin.py, register_user and delete_user).
THEOREM ServedFromItsStore == ASSUME Serial PROVE Spec => []UsableHasStore
<1>1. Lives => UsableHasStore
  BY DEF Lives, Stored, UsableHasStore, Usable
<1> QED  BY <1>1, LivesApart, PTL

\* Once a user is gone with its directory, no key leads to it.
THEOREM IndexEmptied == ASSUME Serial PROVE Spec => []NoKeyLeadsNowhere
<1>1. Lives => NoKeyLeadsNowhere
  BY DEF Lives
<1> QED  BY <1>1, LivesApart, PTL

-----------------------------------------------------------------------------
(* The account the registry promises                                           *)

\* A step of the lifecycle is one of the account, or none.
LEMMA AccountStep == ASSUME TypeOK, Lives, Next
  PROVE [Promised!Next]_<<IF row.status = "none" THEN "absent" ELSE row.status,
                          IF row.status = "none" THEN tomb ELSE row.epoch>>
<1> USE DEF Promised!Next, Promised!Register, Promised!Change, Promised!Vanish, TypeOK, registryVars
<1>1. ASSUME UNCHANGED row, UNCHANGED tomb
      PROVE  UNCHANGED <<IF row.status = "none" THEN "absent" ELSE row.status,
                         IF row.status = "none" THEN tomb ELSE row.epoch>>
  BY <1>1
<1>2. ASSUME NEW w \in Workers, Waiting(w) PROVE UNCHANGED row /\ UNCHANGED tomb
  BY <1>2 DEF Waiting, TakeUserLock, LockTimeout, Crash
<1>3. ASSUME NEW i \in Issues, Issue(i) PROVE UNCHANGED row /\ UNCHANGED tomb
  BY <1>3 DEF Issue, IssueStart, CountKeys, AddKey, IndexKey, KeyExpires
<1>4. ASSUME NEW v \in Revokes, Revocation(v) PROVE UNCHANGED row /\ UNCHANGED tomb
  BY <1>4 DEF Revocation, RevokeStart, Revoke
<1>5. ASSUME NEW q \in Requests, Request(q) PROVE UNCHANGED row /\ UNCHANGED tomb
  BY <1>5 DEF Request, LookupKid, ReadUser, ReadKey, CheckUser, CheckKey
<1>6. ASSUME NEW r \in Registers, Registration(r)
      PROVE  Promised!Register \/ (UNCHANGED row /\ UNCHANGED tomb)
  BY <1>6 DEF Registration, RegisterStart, InitStore, CreateDek, RegisterCommit, RegisterRefused
<1>7. ASSUME NEW d \in Deletes, Deletion(d)
      PROVE  Promised!Change \/ Promised!Vanish \/ (UNCHANGED row /\ UNCHANGED tomb)
  BY <1>7 DEF Deletion, DeleteStart, CloseAccount, Drain, WipeStore, RemoveFiles, RemoveFails,
     Forget, Lives, Closed, NoRow
<1>8. ASSUME SetStatus PROVE Promised!Change
  BY <1>8 DEF SetStatus
<1> QED  BY <1>1, <1>2, <1>3, <1>4, <1>5, <1>6, <1>7, <1>8, NextIsOne

\* Lives that do not overlap add up to the account of Account: no epoch is used twice, and
\* only a closed account is deleted (session/_registry_db.py).
THEOREM KeepsItsPromise == ASSUME Serial PROVE Spec => AccountSpec
<1> DEFINE phase == IF row.status = "none" THEN "absent" ELSE row.status
           epoch == IF row.status = "none" THEN tomb ELSE row.epoch
<1>1. Init => Promised!Init
  BY DEF Init, NoRow, Promised!Init
<1>2. IInv /\ Lives /\ [Next]_vars => [Promised!Next]_<<phase, epoch>>
  <2>1. CASE Next
    BY <2>1, AccountStep DEF IInv
  <2>2. CASE UNCHANGED vars
    BY <2>2 DEF vars
  <2> QED BY <2>1, <2>2
<1> QED  BY <1>1, <1>2, Invariance, LivesApart, PTL DEF Spec, AccountSpec, Promised!Spec

=============================================================================
