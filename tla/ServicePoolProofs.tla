-------------------------- MODULE ServicePoolProofs --------------------------
(* What holds of the pool for any number of users, requests and drains: no      *)
(* service is closed under a request, none is forgotten, and a drain that        *)
(* reports success has left its user without one.                               *)
EXTENDS ServicePool, FiniteSetTheorems, TLAPS

\* The leases of an entry are the requests that are on their way with it.
Leases ==
  \A r \in Requests :
    /\ pc[r] \in Leasing => entry[r] \in Requests
    /\ \A e \in Requests : r \in leases[e] <=> pc[r] \in Leasing /\ entry[r] = e

\* What is in the pool was made, or is being made, and nobody closes it.
PoolOpen == \A e \in pool : close[e] = "open" /\ ready[e] \in {"pending", "ok"}

\* What is leased is in the pool, unless its creation failed, or the one who leases it
\* found it as it expired.
LeasedKept ==
  \A e \in Requests : leases[e] # {} =>
    \/ e \in pool
    \/ ready[e] = "failed"
    \/ ready[e] = "ok" /\ \E r \in stale : leases[e] = {r}

\* An entry is made by its own request, once, and closed only after it was made.
Unmade ==
  \A e \in Requests : /\ pc[e] = "idle" => ready[e] = "none"
                      /\ ready[e] = "none" => close[e] = "open"

\* A creator's entry waits for it.
Creators ==
  \A r \in Requests : pc[r] = "creating" \/ (pc[r] = "evicting" /\ entry[r] = r) =>
    entry[r] = r /\ ready[r] = "pending"

\* Who drains keeps its user out; no two drain the same user.
DrainersApart == \A c, d \in Drainers : DrainOf[c] = DrainOf[d] => c = d
DrainingHeld == \A d \in Drainers : pc[d] \notin {"idle", "true", "false"} => DrainOf[d] \in draining

\* A drain that waits for the last closes has left no lease and nothing it could close, and
\* waits for every close under way.
DrainClean ==
  \A d \in Drainers : pc[d] = "retry" => \A e \in Entries(DrainOf[d]) :
    /\ e \in pool => leases[e] = {} /\ ready[e] = "pending"
    /\ close[e] \in {"queued", "closing"} => e \in waits[d]

\* The inductive invariant of leases, entries and closes.
IInv == TypeOK /\ Leases /\ PoolOpen /\ LeasedKept /\ Unmade /\ Creators /\ NothingForgotten

-----------------------------------------------------------------------------
(* Steps                                                                       *)

\* A request that goes, from wherever it awaits but the creation.
Leave(r) == pc[r] \in Leasing \ {"creating"} /\ Release(r)

\* The steps of a request.
OfRequest(r) ==
  \/ RefuseDraining(r) \/ RefuseInvalid(r) \/ Join(r) \/ Create(r) \/ Overloaded(r)
  \/ EvictionDone(r) \/ CreateOk(r) \/ CreateFails(r) \/ Leave(r) \/ TakeSlot(r) \/ AwaitSlot(r)

\* A step is one of these.
LEMMA NextIsOne ==
  Next => \/ \E r \in Requests : OfRequest(r)
          \/ \E e \in Requests : CloseStart(e) \/ CloseEnd(e)
          \/ \E d \in Drainers : DrainStart(d) \/ Drain(d)
          \/ Shutdown
<1> SUFFICES ASSUME NEW r \in Requests, LeaseSection(r) \/ Progress(r) \/ Cancel(r)
             PROVE  OfRequest(r)
  BY Zenon DEF Next, CloseTask
<1>1. GiveUp(r) \/ CreationFailed(r) \/ SlotTimeout(r) \/ Finish(r) => Leave(r)
  BY DEF GiveUp, CreationFailed, SlotTimeout, Finish, Leave, Leasing
<1> QED  BY <1>1 DEF LeaseSection, Progress, Cancel, OfRequest, Leave

\* What is collected and what gives way is idle.
LEMMA IdleOnly ==
  ASSUME NEW r \in Requests, NEW gone \in Collected(r)
  PROVE  /\ gone \subseteq Idle
         /\ \A v \in Victims(gone) : v \subseteq Idle
  BY DEF Collected, Victims

\* Every step keeps the types.
LEMMA TypeStep ==
  ASSUME PoolAssumption, TypeOK, Next PROVE TypeOK'
<1> USE DEF PoolAssumption, TypeOK, Callers, Leasing, Goto, ScheduleClose, Idle, poolVars
<1>1. ASSUME NEW r \in Requests, OfRequest(r) PROVE TypeOK'
  <2>1. CASE RefuseDraining(r)
    BY <2>1, SMTT(30) DEF RefuseDraining
  <2>2. CASE RefuseInvalid(r)
    BY <2>2, SMTT(30) DEF RefuseInvalid, Marked, Superseded
  <2>3. CASE Join(r)
    BY <2>3, IdleOnly, SMTT(30) DEF Join, Marked, Superseded
  <2>4. CASE Create(r)
    BY <2>4, IdleOnly, SMTT(30) DEF Create, Marked, Superseded
  <2>5. CASE Overloaded(r)
    BY <2>5, IdleOnly, SMTT(30) DEF Overloaded, Marked, Superseded
  <2>6. CASE EvictionDone(r)
    BY <2>6, SMTT(30) DEF EvictionDone
  <2>7. CASE CreateOk(r)
    BY <2>7, SMTT(30) DEF CreateOk
  <2>8. CASE CreateFails(r)
    BY <2>8, SMTT(30) DEF CreateFails
  <2>9. CASE Leave(r)
    <3>1. leases' \in [Requests -> SUBSET Requests]
      BY <2>9 DEF Leave, Release
    <3>2. pool' \subseteq Requests /\ close' \in [Requests -> {"open", "queued", "closing", "closed", "failed"}]
      BY <2>9 DEF Leave, Release
    <3> QED BY <2>9, <3>1, <3>2 DEF Leave, Release
  <2>10. CASE TakeSlot(r)
    BY <2>10, SMTT(30) DEF TakeSlot
  <2>11. CASE AwaitSlot(r)
    BY <2>11, SMTT(30) DEF AwaitSlot
  <2> QED BY <1>1, <2>1, <2>2, <2>3, <2>4, <2>5, <2>6, <2>7, <2>8, <2>9, <2>10, <2>11 DEF OfRequest
<1>2. ASSUME NEW e \in Requests, CloseStart(e) \/ CloseEnd(e) PROVE TypeOK'
  BY <1>2, SMTT(30) DEF CloseStart, CloseEnd
<1>3. ASSUME NEW d \in Drainers, DrainStart(d) \/ Drain(d) PROVE TypeOK'
  <2>1. CASE DrainStart(d)
    BY <2>1, SMTT(30) DEF DrainStart
  <2>2. CASE DrainInvalidate(d)
    BY <2>2, SMTT(30) DEF DrainInvalidate, Invalidate
  <2>3. CASE DrainWaits(d)
    BY <2>3, SMTT(30) DEF DrainWaits
  <2>4. CASE DrainEmpty(d)
    BY <2>4, SMTT(30) DEF DrainEmpty, Invalidate, FailedOf, Entries
  <2>5. CASE DrainReport(d)
    BY <2>5, SMTT(30) DEF DrainReport, DrainEnd
  <2>6. CASE DrainTimeout(d)
    BY <2>6, SMTT(30) DEF DrainTimeout, DrainEnd
  <2> QED BY <1>3, <2>1, <2>2, <2>3, <2>4, <2>5, <2>6 DEF Drain
<1>4. ASSUME Shutdown PROVE TypeOK'
  BY <1>4, SMTT(30) DEF Shutdown
<1> QED  BY <1>1, <1>2, <1>3, <1>4, NextIsOne

\* Every step counts the leases right.
LEMMA LeaseStep ==
  ASSUME PoolAssumption, IInv, Next PROVE Leases'
<1> USE DEF PoolAssumption, IInv, Leases, PoolOpen, LeasedKept, Unmade, TypeOK, Callers, Leasing,
    Goto, ScheduleClose, Idle, poolVars
<1>1. ASSUME NEW r \in Requests, OfRequest(r) PROVE Leases'
  <2>1. CASE RefuseDraining(r)
    BY <2>1, SMTT(30) DEF RefuseDraining
  <2>2. CASE RefuseInvalid(r)
    BY <2>2, SMTT(30) DEF RefuseInvalid
  <2>3. CASE Join(r)
    BY <2>3, IdleOnly, SMTT(30) DEF Join
  <2>4. CASE Create(r)
    <3>1. leases[r] = {}
      BY <2>4 DEF Create
    <3>2. /\ pc' = [pc EXCEPT ![r] = pc'[r]] /\ pc'[r] \in {"creating", "evicting"}
          /\ entry' = [entry EXCEPT ![r] = r] /\ leases' = [leases EXCEPT ![r] = {r}]
      BY <2>4 DEF Create
    <3>3. pc[r] = "idle"
      BY <2>4 DEF Create
    <3>4. \A q \in Requests : q # r => pc'[q] = pc[q] /\ entry'[q] = entry[q]
      BY <3>2
    <3>5. \A e \in Requests : e # r => leases'[e] = leases[e]
      BY <3>2
    <3>6. pc'[r] \in Leasing /\ entry'[r] = r /\ leases'[r] = {r}
      BY <3>2
    <3>7. \A e \in Requests : r \notin leases[e]
      BY <3>3
    <3> HIDE DEF LeasedKept, PoolOpen, Unmade, TypeOK, Leasing
    <3> QED BY <3>1, <3>4, <3>5, <3>6, <3>7
  <2>5. CASE Overloaded(r)
    BY <2>5, IdleOnly, SMTT(30) DEF Overloaded
  <2>6. CASE EvictionDone(r)
    BY <2>6, SMTT(30) DEF EvictionDone
  <2>7. CASE CreateOk(r)
    BY <2>7, SMTT(30) DEF CreateOk
  <2>8. CASE CreateFails(r)
    BY <2>8, SMTT(30) DEF CreateFails
  <2>9. CASE Leave(r)
    BY <2>9, SMTT(30) DEF Leave, Release
  <2>10. CASE TakeSlot(r)
    BY <2>10, SMTT(30) DEF TakeSlot
  <2>11. CASE AwaitSlot(r)
    BY <2>11, SMTT(30) DEF AwaitSlot
  <2> QED BY <1>1, <2>1, <2>2, <2>3, <2>4, <2>5, <2>6, <2>7, <2>8, <2>9, <2>10, <2>11 DEF OfRequest
<1>2. ASSUME NEW e \in Requests, CloseStart(e) \/ CloseEnd(e) PROVE Leases'
  BY <1>2, SMTT(30) DEF CloseStart, CloseEnd
<1>3. ASSUME NEW d \in Drainers, DrainStart(d) \/ Drain(d) PROVE Leases'
  <2>1. CASE DrainStart(d)
    BY <2>1, SMTT(30) DEF DrainStart
  <2>2. CASE DrainInvalidate(d)
    BY <2>2, SMTT(30) DEF DrainInvalidate, Invalidate
  <2>3. CASE DrainWaits(d)
    BY <2>3, SMTT(30) DEF DrainWaits
  <2>4. CASE DrainEmpty(d)
    BY <2>4, SMTT(30) DEF DrainEmpty, Invalidate, FailedOf, Entries
  <2>5. CASE DrainReport(d)
    BY <2>5, SMTT(30) DEF DrainReport, DrainEnd
  <2>6. CASE DrainTimeout(d)
    BY <2>6, SMTT(30) DEF DrainTimeout, DrainEnd
  <2> QED BY <1>3, <2>1, <2>2, <2>3, <2>4, <2>5, <2>6 DEF Drain
<1>4. ASSUME Shutdown PROVE Leases'
  BY <1>4, SMTT(30) DEF Shutdown
<1> QED  BY <1>1, <1>2, <1>3, <1>4, NextIsOne

\* Every step closes only what has left the pool.
LEMMA OpenStep ==
  ASSUME PoolAssumption, IInv, Next PROVE PoolOpen'
<1> USE DEF PoolAssumption, IInv, PoolOpen, Unmade, Creators, TypeOK, Callers, Leasing, Goto,
    ScheduleClose, Idle, poolVars
<1>1. ASSUME NEW r \in Requests, OfRequest(r) PROVE PoolOpen'
  <2>1. CASE RefuseDraining(r)
    BY <2>1, SMTT(30) DEF RefuseDraining
  <2>2. CASE RefuseInvalid(r)
    BY <2>2, SMTT(30) DEF RefuseInvalid
  <2>3. CASE Join(r)
    BY <2>3, IdleOnly, SMTT(30) DEF Join
  <2>4. CASE Create(r)
    BY <2>4, IdleOnly, SMTT(30) DEF Create
  <2>5. CASE Overloaded(r)
    BY <2>5, IdleOnly, SMTT(30) DEF Overloaded
  <2>6. CASE EvictionDone(r)
    BY <2>6, SMTT(30) DEF EvictionDone
  <2>7. CASE CreateOk(r)
    BY <2>7, SMTT(30) DEF CreateOk
  <2>8. CASE CreateFails(r)
    BY <2>8, SMTT(30) DEF CreateFails
  <2>9. CASE Leave(r)
    BY <2>9, SMTT(30) DEF Leave, Release
  <2>10. CASE TakeSlot(r)
    BY <2>10, SMTT(30) DEF TakeSlot
  <2>11. CASE AwaitSlot(r)
    BY <2>11, SMTT(30) DEF AwaitSlot
  <2> QED BY <1>1, <2>1, <2>2, <2>3, <2>4, <2>5, <2>6, <2>7, <2>8, <2>9, <2>10, <2>11 DEF OfRequest
<1>2. ASSUME NEW e \in Requests, CloseStart(e) \/ CloseEnd(e) PROVE PoolOpen'
  BY <1>2, SMTT(30) DEF CloseStart, CloseEnd
<1>3. ASSUME NEW d \in Drainers, DrainStart(d) \/ Drain(d) PROVE PoolOpen'
  <2>1. CASE DrainStart(d)
    BY <2>1, SMTT(30) DEF DrainStart
  <2>2. CASE DrainInvalidate(d)
    BY <2>2, SMTT(30) DEF DrainInvalidate, Invalidate
  <2>3. CASE DrainWaits(d)
    BY <2>3, SMTT(30) DEF DrainWaits
  <2>4. CASE DrainEmpty(d)
    BY <2>4, SMTT(30) DEF DrainEmpty, Invalidate, FailedOf, Entries
  <2>5. CASE DrainReport(d)
    BY <2>5, SMTT(30) DEF DrainReport, DrainEnd
  <2>6. CASE DrainTimeout(d)
    BY <2>6, SMTT(30) DEF DrainTimeout, DrainEnd
  <2> QED BY <1>3, <2>1, <2>2, <2>3, <2>4, <2>5, <2>6 DEF Drain
<1>4. ASSUME Shutdown PROVE PoolOpen'
  BY <1>4, SMTT(30) DEF Shutdown
<1> QED  BY <1>1, <1>2, <1>3, <1>4, NextIsOne

\* Every step leaves what is leased in the pool.
LEMMA KeptStep ==
  ASSUME PoolAssumption, IInv, Next PROVE LeasedKept'
<1> USE DEF PoolAssumption, IInv, Leases, PoolOpen, LeasedKept, Creators, Same, Superseded, Marked,
    TypeOK, Callers, Leasing, Goto, ScheduleClose, Idle, poolVars
<1>1. ASSUME NEW r \in Requests, OfRequest(r) PROVE LeasedKept'
  <2>1. CASE RefuseDraining(r)
    <3>1. UNCHANGED <<pool, ready, leases, stale>>
      BY <2>1 DEF RefuseDraining
    <3> QED BY <3>1
  <2>2. CASE RefuseInvalid(r)
    BY <2>2, SMTT(30) DEF RefuseInvalid
  <2>3. CASE Join(r)
    <3>1. PICK e \in pool, gone \in Collected(r) :
            /\ pool' = pool \ gone
            /\ leases' = [leases EXCEPT ![e] = @ \cup {r}]
            /\ stale' = IF e \in gone THEN stale \cup {r} ELSE stale
      BY <2>3 DEF Join
    <3>2. gone \subseteq Idle /\ ready' = ready
      BY <2>3, IdleOnly DEF Join
    <3>3. ASSUME NEW f \in Requests, f # e, leases'[f] # {}
          PROVE  f \in pool' \/ ready'[f] = "failed" \/ (ready'[f] = "ok" /\ \E q \in stale' : leases'[f] = {q})
      <4>1. leases'[f] = leases[f] /\ f \notin gone
        BY <3>1, <3>2, <3>3
      <4> QED BY <3>1, <3>2, <3>3, <4>1
    <3>4. CASE e \in gone
      <4>1. ready[e] = "ok" /\ leases[e] = {}
        BY <3>2, <3>4
      <4>2. leases'[e] = {r} /\ r \in stale'
        BY <3>1, <3>4, <4>1
      <4> QED BY <3>2, <3>3, <4>1, <4>2
    <3>5. CASE e \notin gone
      BY <3>1, <3>3, <3>5
    <3> QED BY <3>4, <3>5
  <2>4. CASE Create(r)
    BY <2>4, IdleOnly, SMTT(30) DEF Create
  <2>5. CASE Overloaded(r)
    BY <2>5, IdleOnly, SMTT(30) DEF Overloaded
  <2>6. CASE EvictionDone(r)
    BY <2>6, SMTT(30) DEF EvictionDone
  <2>7. CASE CreateOk(r)
    BY <2>7, SMTT(30) DEF CreateOk
  <2>8. CASE CreateFails(r)
    BY <2>8, SMTT(30) DEF CreateFails
  <2>9. CASE Leave(r)
    <3>1. PICK e \in Requests :
            /\ leases' = [leases EXCEPT ![e] = @ \ {r}]
            /\ pool' = pool \ (IF e \in pool \cap invalid /\ leases[e] = {r} THEN {e} ELSE {})
      BY <2>9 DEF Leave, Release
    <3>2. ready' = ready /\ stale' = stale
      BY <2>9 DEF Leave, Release
    <3>3. leases'[e] # {} => leases[e] # {} /\ leases[e] # {r}
      BY <3>1
    <3>4. \A f \in Requests : f # e => leases'[f] = leases[f]
      BY <3>1
    <3>5. \A q : leases[e] = {q} => leases'[e] = {q} \/ leases'[e] = {}
      BY <3>1
    <3> HIDE DEF Leases, TypeOK
    <3> QED BY <3>1, <3>2, <3>3, <3>4, <3>5
  <2>10. CASE TakeSlot(r)
    BY <2>10, SMTT(30) DEF TakeSlot
  <2>11. CASE AwaitSlot(r)
    BY <2>11, SMTT(30) DEF AwaitSlot
  <2> QED BY <1>1, <2>1, <2>2, <2>3, <2>4, <2>5, <2>6, <2>7, <2>8, <2>9, <2>10, <2>11 DEF OfRequest
<1>2. ASSUME NEW e \in Requests, CloseStart(e) \/ CloseEnd(e) PROVE LeasedKept'
  <2>1. UNCHANGED <<pool, ready, leases, stale>>
    BY <1>2 DEF CloseStart, CloseEnd
  <2> QED BY <2>1
<1>3. ASSUME NEW d \in Drainers, DrainStart(d) \/ Drain(d) PROVE LeasedKept'
  <2>1. CASE DrainStart(d)
    BY <2>1, SMTT(30) DEF DrainStart
  <2>2. CASE DrainInvalidate(d)
    BY <2>2, SMTT(30) DEF DrainInvalidate, Invalidate
  <2>3. CASE DrainWaits(d)
    BY <2>3, SMTT(30) DEF DrainWaits
  <2>4. CASE DrainEmpty(d)
    BY <2>4, SMTT(30) DEF DrainEmpty, Invalidate, FailedOf, Entries
  <2>5. CASE DrainReport(d)
    BY <2>5, SMTT(30) DEF DrainReport, DrainEnd
  <2>6. CASE DrainTimeout(d)
    BY <2>6, SMTT(30) DEF DrainTimeout, DrainEnd
  <2> QED BY <1>3, <2>1, <2>2, <2>3, <2>4, <2>5, <2>6 DEF Drain
<1>4. ASSUME Shutdown PROVE LeasedKept'
  <2> HIDE DEF Leases
  <2>a. \A r \in Requests : pc[r] \notin Leasing
    BY <1>4 DEF Shutdown
  <2>b. \A e \in Requests : leases[e] \subseteq Requests
    OBVIOUS
  <2> HIDE DEF Leasing, IInv
  <2>1. \A e \in Requests : leases[e] = {}
    BY <2>a, <2>b DEF IInv, Leases
  <2>2. leases' = leases
    BY <1>4 DEF Shutdown
  <2> QED BY <2>1, <2>2
<1> QED  BY <1>1, <1>2, <1>3, <1>4, NextIsOne

\* Every step makes an entry once.
LEMMA UnmadeStep ==
  ASSUME PoolAssumption, IInv, Next PROVE Unmade'
<1> USE DEF PoolAssumption, IInv, PoolOpen, Unmade, Creators, TypeOK, Callers, Leasing, Goto,
    ScheduleClose, Idle, poolVars
<1>1. ASSUME NEW r \in Requests, OfRequest(r) PROVE Unmade'
  <2>1. CASE RefuseDraining(r)
    BY <2>1, SMTT(30) DEF RefuseDraining
  <2>2. CASE RefuseInvalid(r)
    BY <2>2, SMTT(30) DEF RefuseInvalid
  <2>3. CASE Join(r)
    BY <2>3, IdleOnly, SMTT(30) DEF Join
  <2>4. CASE Create(r)
    BY <2>4, IdleOnly, SMTT(30) DEF Create
  <2>5. CASE Overloaded(r)
    BY <2>5, IdleOnly, SMTT(30) DEF Overloaded
  <2>6. CASE EvictionDone(r)
    BY <2>6, SMTT(30) DEF EvictionDone
  <2>7. CASE CreateOk(r)
    BY <2>7, SMTT(30) DEF CreateOk
  <2>8. CASE CreateFails(r)
    BY <2>8, SMTT(30) DEF CreateFails
  <2>9. CASE Leave(r)
    BY <2>9, SMTT(30) DEF Leave, Release
  <2>10. CASE TakeSlot(r)
    BY <2>10, SMTT(30) DEF TakeSlot
  <2>11. CASE AwaitSlot(r)
    BY <2>11, SMTT(30) DEF AwaitSlot
  <2> QED BY <1>1, <2>1, <2>2, <2>3, <2>4, <2>5, <2>6, <2>7, <2>8, <2>9, <2>10, <2>11 DEF OfRequest
<1>2. ASSUME NEW e \in Requests, CloseStart(e) \/ CloseEnd(e) PROVE Unmade'
  BY <1>2, SMTT(30) DEF CloseStart, CloseEnd
<1>3. ASSUME NEW d \in Drainers, DrainStart(d) \/ Drain(d) PROVE Unmade'
  <2>1. CASE DrainStart(d)
    BY <2>1, SMTT(30) DEF DrainStart
  <2>2. CASE DrainInvalidate(d)
    BY <2>2, SMTT(30) DEF DrainInvalidate, Invalidate
  <2>3. CASE DrainWaits(d)
    BY <2>3, SMTT(30) DEF DrainWaits
  <2>4. CASE DrainEmpty(d)
    BY <2>4, SMTT(30) DEF DrainEmpty, Invalidate, FailedOf, Entries
  <2>5. CASE DrainReport(d)
    BY <2>5, SMTT(30) DEF DrainReport, DrainEnd
  <2>6. CASE DrainTimeout(d)
    BY <2>6, SMTT(30) DEF DrainTimeout, DrainEnd
  <2> QED BY <1>3, <2>1, <2>2, <2>3, <2>4, <2>5, <2>6 DEF Drain
<1>4. ASSUME Shutdown PROVE Unmade'
  BY <1>4, SMTT(30) DEF Shutdown
<1> QED  BY <1>1, <1>2, <1>3, <1>4, NextIsOne

\* Every step leaves an entry to its creator.
LEMMA CreatorStep ==
  ASSUME PoolAssumption, IInv, Next PROVE Creators'
<1> USE DEF PoolAssumption, IInv, PoolOpen, Unmade, Creators, TypeOK, Callers, Leasing, Goto,
    ScheduleClose, Idle, poolVars
<1>1. ASSUME NEW r \in Requests, OfRequest(r) PROVE Creators'
  <2>1. CASE RefuseDraining(r)
    BY <2>1, SMTT(30) DEF RefuseDraining
  <2>2. CASE RefuseInvalid(r)
    BY <2>2, SMTT(30) DEF RefuseInvalid
  <2>3. CASE Join(r)
    BY <2>3, IdleOnly, SMTT(30) DEF Join
  <2>4. CASE Create(r)
    BY <2>4, IdleOnly, SMTT(30) DEF Create
  <2>5. CASE Overloaded(r)
    BY <2>5, IdleOnly, SMTT(30) DEF Overloaded
  <2>6. CASE EvictionDone(r)
    BY <2>6, SMTT(30) DEF EvictionDone
  <2>7. CASE CreateOk(r)
    BY <2>7, SMTT(30) DEF CreateOk
  <2>8. CASE CreateFails(r)
    BY <2>8, SMTT(30) DEF CreateFails
  <2>9. CASE Leave(r)
    BY <2>9, SMTT(30) DEF Leave, Release
  <2>10. CASE TakeSlot(r)
    BY <2>10, SMTT(30) DEF TakeSlot
  <2>11. CASE AwaitSlot(r)
    BY <2>11, SMTT(30) DEF AwaitSlot
  <2> QED BY <1>1, <2>1, <2>2, <2>3, <2>4, <2>5, <2>6, <2>7, <2>8, <2>9, <2>10, <2>11 DEF OfRequest
<1>2. ASSUME NEW e \in Requests, CloseStart(e) \/ CloseEnd(e) PROVE Creators'
  BY <1>2, SMTT(30) DEF CloseStart, CloseEnd
<1>3. ASSUME NEW d \in Drainers, DrainStart(d) \/ Drain(d) PROVE Creators'
  <2>1. CASE DrainStart(d)
    BY <2>1, SMTT(30) DEF DrainStart
  <2>2. CASE DrainInvalidate(d)
    BY <2>2, SMTT(30) DEF DrainInvalidate, Invalidate
  <2>3. CASE DrainWaits(d)
    BY <2>3, SMTT(30) DEF DrainWaits
  <2>4. CASE DrainEmpty(d)
    BY <2>4, SMTT(30) DEF DrainEmpty, Invalidate, FailedOf, Entries
  <2>5. CASE DrainReport(d)
    BY <2>5, SMTT(30) DEF DrainReport, DrainEnd
  <2>6. CASE DrainTimeout(d)
    BY <2>6, SMTT(30) DEF DrainTimeout, DrainEnd
  <2> QED BY <1>3, <2>1, <2>2, <2>3, <2>4, <2>5, <2>6 DEF Drain
<1>4. ASSUME Shutdown PROVE Creators'
  BY <1>4, SMTT(30) DEF Shutdown
<1> QED  BY <1>1, <1>2, <1>3, <1>4, NextIsOne

\* Every step closes what it removes.
LEMMA ForgetStep ==
  ASSUME PoolAssumption, IInv, Next PROVE NothingForgotten'
<1> USE DEF PoolAssumption, IInv, NothingForgotten, Creators, TypeOK, Callers, Leasing, Goto,
    ScheduleClose, Idle, poolVars
<1>1. ASSUME NEW r \in Requests, OfRequest(r) PROVE NothingForgotten'
  <2>1. CASE RefuseDraining(r)
    BY <2>1, SMTT(30) DEF RefuseDraining
  <2>2. CASE RefuseInvalid(r)
    BY <2>2, SMTT(30) DEF RefuseInvalid
  <2>3. CASE Join(r)
    BY <2>3, IdleOnly, SMTT(30) DEF Join
  <2>4. CASE Create(r)
    BY <2>4, IdleOnly, SMTT(30) DEF Create
  <2>5. CASE Overloaded(r)
    BY <2>5, IdleOnly, SMTT(30) DEF Overloaded
  <2>6. CASE EvictionDone(r)
    BY <2>6, SMTT(30) DEF EvictionDone
  <2>7. CASE CreateOk(r)
    BY <2>7, SMTT(30) DEF CreateOk
  <2>8. CASE CreateFails(r)
    BY <2>8, SMTT(30) DEF CreateFails
  <2>9. CASE Leave(r)
    BY <2>9, SMTT(30) DEF Leave, Release
  <2>10. CASE TakeSlot(r)
    BY <2>10, SMTT(30) DEF TakeSlot
  <2>11. CASE AwaitSlot(r)
    BY <2>11, SMTT(30) DEF AwaitSlot
  <2> QED BY <1>1, <2>1, <2>2, <2>3, <2>4, <2>5, <2>6, <2>7, <2>8, <2>9, <2>10, <2>11 DEF OfRequest
<1>2. ASSUME NEW e \in Requests, CloseStart(e) \/ CloseEnd(e) PROVE NothingForgotten'
  BY <1>2, SMTT(30) DEF CloseStart, CloseEnd
<1>3. ASSUME NEW d \in Drainers, DrainStart(d) \/ Drain(d) PROVE NothingForgotten'
  <2>1. CASE DrainStart(d)
    BY <2>1, SMTT(30) DEF DrainStart
  <2>2. CASE DrainInvalidate(d)
    BY <2>2, SMTT(30) DEF DrainInvalidate, Invalidate
  <2>3. CASE DrainWaits(d)
    BY <2>3, SMTT(30) DEF DrainWaits
  <2>4. CASE DrainEmpty(d)
    BY <2>4, SMTT(30) DEF DrainEmpty, Invalidate, FailedOf, Entries
  <2>5. CASE DrainReport(d)
    BY <2>5, SMTT(30) DEF DrainReport, DrainEnd
  <2>6. CASE DrainTimeout(d)
    BY <2>6, SMTT(30) DEF DrainTimeout, DrainEnd
  <2> QED BY <1>3, <2>1, <2>2, <2>3, <2>4, <2>5, <2>6 DEF Drain
<1>4. ASSUME Shutdown PROVE NothingForgotten'
  BY <1>4, SMTT(30) DEF Shutdown
<1> QED  BY <1>1, <1>2, <1>3, <1>4, NextIsOne

\* Every drain keeps its user out until it ends.
LEMMA DrainingStep ==
  ASSUME PoolAssumption, DrainersApart, TypeOK, DrainingHeld, Next PROVE DrainingHeld'
<1> USE DEF PoolAssumption, DrainersApart, DrainingHeld, TypeOK, Callers, Leasing, Goto,
    ScheduleClose, Idle, poolVars
<1>1. ASSUME NEW r \in Requests, OfRequest(r) PROVE DrainingHeld'
  <2>1. CASE RefuseDraining(r)
    BY <2>1, SMTT(30) DEF RefuseDraining
  <2>2. CASE RefuseInvalid(r)
    BY <2>2, SMTT(30) DEF RefuseInvalid
  <2>3. CASE Join(r)
    BY <2>3, IdleOnly, SMTT(30) DEF Join
  <2>4. CASE Create(r)
    BY <2>4, IdleOnly, SMTT(30) DEF Create
  <2>5. CASE Overloaded(r)
    BY <2>5, IdleOnly, SMTT(30) DEF Overloaded
  <2>6. CASE EvictionDone(r)
    BY <2>6, SMTT(30) DEF EvictionDone
  <2>7. CASE CreateOk(r)
    BY <2>7, SMTT(30) DEF CreateOk
  <2>8. CASE CreateFails(r)
    BY <2>8, SMTT(30) DEF CreateFails
  <2>9. CASE Leave(r)
    BY <2>9, SMTT(30) DEF Leave, Release
  <2>10. CASE TakeSlot(r)
    BY <2>10, SMTT(30) DEF TakeSlot
  <2>11. CASE AwaitSlot(r)
    BY <2>11, SMTT(30) DEF AwaitSlot
  <2> QED BY <1>1, <2>1, <2>2, <2>3, <2>4, <2>5, <2>6, <2>7, <2>8, <2>9, <2>10, <2>11 DEF OfRequest
<1>2. ASSUME NEW e \in Requests, CloseStart(e) \/ CloseEnd(e) PROVE DrainingHeld'
  BY <1>2, SMTT(30) DEF CloseStart, CloseEnd
<1>3. ASSUME NEW d \in Drainers, DrainStart(d) \/ Drain(d) PROVE DrainingHeld'
  <2>1. CASE DrainStart(d)
    BY <2>1, SMTT(30) DEF DrainStart
  <2>2. CASE DrainInvalidate(d)
    BY <2>2, SMTT(30) DEF DrainInvalidate, Invalidate
  <2>3. CASE DrainWaits(d)
    BY <2>3, SMTT(30) DEF DrainWaits
  <2>4. CASE DrainEmpty(d)
    BY <2>4, SMTT(30) DEF DrainEmpty, Invalidate, FailedOf, Entries
  <2>5. CASE DrainReport(d)
    BY <2>5, SMTT(30) DEF DrainReport, DrainEnd
  <2>6. CASE DrainTimeout(d)
    BY <2>6, SMTT(30) DEF DrainTimeout, DrainEnd
  <2> QED BY <1>3, <2>1, <2>2, <2>3, <2>4, <2>5, <2>6 DEF Drain
<1>4. ASSUME Shutdown PROVE DrainingHeld'
  BY <1>4, SMTT(30) DEF Shutdown
<1> QED  BY <1>1, <1>2, <1>3, <1>4, NextIsOne

\* Every step leaves a user clean that is drained.
LEMMA CleanStep ==
  ASSUME PoolAssumption, DrainersApart, IInv, DrainingHeld, DrainClean, Next PROVE DrainClean'
<1> USE DEF PoolAssumption, DrainersApart, IInv, DrainingHeld, DrainClean, Leases, Creators,
    Admitted, Same, UserOf, Entries, Inflight, Closing, TypeOK, Callers, Leasing, Goto,
    ScheduleClose, Idle, poolVars
<1>1. ASSUME NEW r \in Requests, OfRequest(r) PROVE DrainClean'
  <2>1. CASE RefuseDraining(r)
    BY <2>1, SMTT(30) DEF RefuseDraining
  <2>2. CASE RefuseInvalid(r)
    BY <2>2, SMTT(30) DEF RefuseInvalid
  <2>3. CASE Join(r)
    <3>1. PICK e \in pool, gone \in Collected(r) :
            /\ Same(e, r) /\ pool' = pool \ gone /\ ScheduleClose(gone)
            /\ leases' = [leases EXCEPT ![e] = @ \cup {r}]
      BY <2>3 DEF Join
    <3>2. gone \subseteq Idle
      BY IdleOnly
    <3>3. \A d \in Drainers : pc'[d] = pc[d] /\ waits'[d] = waits[d]
      BY <2>3 DEF Join
    <3>4. UserOf(e) \notin draining /\ ready' = ready
      BY <2>3, <3>1 DEF Join
    <3>5. ASSUME NEW d \in Drainers, pc[d] = "retry", NEW f \in Entries(DrainOf[d])
          PROVE  leases'[f] = leases[f] /\ close'[f] = close[f]
      <4>1. f # e
        BY <3>4, <3>5
      <4>2. f \notin gone
        BY <3>2, <3>5
      <4> QED BY <3>1, <4>1, <4>2
    <3> QED BY <3>1, <3>3, <3>4, <3>5
  <2>4. CASE Create(r)
    BY <2>4, IdleOnly, SMTT(30) DEF Create
  <2>5. CASE Overloaded(r)
    BY <2>5, IdleOnly, SMTT(30) DEF Overloaded
  <2>6. CASE EvictionDone(r)
    BY <2>6, SMTT(30) DEF EvictionDone
  <2>7. CASE CreateOk(r)
    BY <2>7, SMTT(30) DEF CreateOk
  <2>8. CASE CreateFails(r)
    <3>1. pc[r] = "creating" /\ entry[r] = r /\ ready[r] = "pending" /\ r \in leases[r]
      BY <2>8 DEF CreateFails
    <3>2. r \in pool
      BY <3>1 DEF LeasedKept
    <3>3. ASSUME NEW d \in Drainers, pc[d] = "retry" PROVE r \notin Entries(DrainOf[d])
      BY <3>1, <3>2, <3>3
    <3>4. \A d \in Drainers : pc'[d] = pc[d] /\ waits'[d] = waits[d]
      BY <2>8 DEF CreateFails
    <3>5. \A e \in Requests : e # r => /\ ready'[e] = ready[e] /\ close'[e] = close[e]
                                     /\ leases'[e] = leases[e] /\ (e \in pool' => e \in pool)
      BY <2>8 DEF CreateFails
    <3> QED BY <3>3, <3>4, <3>5
  <2>9. CASE Leave(r)
    BY <2>9, SMTT(30) DEF Leave, Release
  <2>10. CASE TakeSlot(r)
    BY <2>10, SMTT(30) DEF TakeSlot
  <2>11. CASE AwaitSlot(r)
    BY <2>11, SMTT(30) DEF AwaitSlot
  <2> QED BY <1>1, <2>1, <2>2, <2>3, <2>4, <2>5, <2>6, <2>7, <2>8, <2>9, <2>10, <2>11 DEF OfRequest
<1>2. ASSUME NEW e \in Requests, CloseStart(e) \/ CloseEnd(e) PROVE DrainClean'
  BY <1>2, SMTT(30) DEF CloseStart, CloseEnd
<1>3. ASSUME NEW d \in Drainers, DrainStart(d) \/ Drain(d) PROVE DrainClean'
  <2>1. CASE DrainStart(d)
    BY <2>1, SMTT(30) DEF DrainStart
  <2>2. CASE DrainInvalidate(d)
    BY <2>2, SMTT(30) DEF DrainInvalidate, Invalidate
  <2>3. CASE DrainWaits(d)
    BY <2>3, SMTT(30) DEF DrainWaits
  <2>4. CASE DrainEmpty(d)
    BY <2>4, SMTT(30) DEF DrainEmpty, Invalidate, FailedOf, Entries
  <2>5. CASE DrainReport(d)
    BY <2>5, SMTT(30) DEF DrainReport, DrainEnd
  <2>6. CASE DrainTimeout(d)
    BY <2>6, SMTT(30) DEF DrainTimeout, DrainEnd
  <2> QED BY <1>3, <2>1, <2>2, <2>3, <2>4, <2>5, <2>6 DEF Drain
<1>4. ASSUME Shutdown PROVE DrainClean'
  BY <1>4, SMTT(30) DEF Shutdown
<1> QED  BY <1>1, <1>2, <1>3, <1>4, NextIsOne

-----------------------------------------------------------------------------
(* The theorems                                                                *)

\* Every variable of the pool keeps its type (service_pool.py).
THEOREM PoolTypeCorrect == ASSUME PoolAssumption PROVE Spec => []TypeOK
<1>1. Init => TypeOK
  BY DEF Init, TypeOK, Callers
<1>2. TypeOK /\ [Next]_vars => TypeOK'
  <2>1. ASSUME TypeOK, UNCHANGED vars PROVE TypeOK'
    BY <2>1 DEF TypeOK, vars
  <2> QED BY <2>1, TypeStep
<1> QED  BY <1>1, <1>2, PTL DEF Spec

\* The invariant of leases, entries and closes.
THEOREM Invariance == ASSUME PoolAssumption PROVE Spec => []IInv
<1>1. Init => IInv
  BY DEF Init, IInv, TypeOK, Callers, Leasing, Leases, PoolOpen, LeasedKept, Unmade, Creators,
     NothingForgotten, PoolAssumption
<1>2. IInv /\ [Next]_vars => IInv'
  <2> SUFFICES ASSUME IInv, [Next]_vars PROVE IInv'
    OBVIOUS
  <2>1. CASE Next
    BY <2>1, TypeStep, LeaseStep, OpenStep, KeptStep, UnmadeStep, CreatorStep, ForgetStep DEF IInv
  <2>2. CASE UNCHANGED vars
    BY <2>2 DEF vars, IInv, TypeOK, Leases, PoolOpen, LeasedKept, Unmade, Creators, NothingForgotten
  <2> QED BY <2>1, <2>2
<1> QED  BY <1>1, <1>2, PTL DEF Spec

\* A service is not closed, nor about to be, while a request is using it or on its way to
\* it: eviction, expiry, invalidation and drains wait for the last lease. Excepted is who
\* found the entry just as it expired, and that one alone has it (service_pool.py).
THEOREM OpenWhileUsed == ASSUME PoolAssumption PROVE Spec => []NotClosedInUse
<1>1. IInv => NotClosedInUse
  <2> SUFFICES ASSUME IInv, NEW r \in Requests, pc[r] \in {"waiting", "queued", "using"},
                      ready[entry[r]] = "ok"
               PROVE  \/ close[entry[r]] = "open"
                      \/ r \in stale /\ leases[entry[r]] = {r}
    BY DEF NotClosedInUse
  <2>1. entry[r] \in Requests /\ r \in leases[entry[r]]
    BY DEF IInv, Leases, Leasing
  <2>2. entry[r] \in pool \/ \E q \in stale : leases[entry[r]] = {q}
    BY <2>1 DEF IInv, LeasedKept
  <2>3. CASE entry[r] \in pool
    BY <2>3 DEF IInv, PoolOpen
  <2>4. CASE \E q \in stale : leases[entry[r]] = {q}
    BY <2>1, <2>4
  <2> QED BY <2>2, <2>3, <2>4
<1> QED  BY <1>1, Invariance, PTL

\* Whatever left the pool is being closed, was closed, or is remembered as failed.
THEOREM AllRemembered == ASSUME PoolAssumption PROVE Spec => []NothingForgotten
<1>1. IInv => NothingForgotten
  BY DEF IInv
<1> QED  BY <1>1, Invariance, PTL

\* The invariant of drains.
THEOREM DrainInvariance ==
  ASSUME PoolAssumption, DrainersApart PROVE Spec => [](DrainingHeld /\ DrainClean)
<1> DEFINE Drained == DrainingHeld /\ DrainClean
<1>1. Init => Drained
  BY DEF Init, DrainingHeld, DrainClean, Callers
<1>2. IInv /\ Drained /\ [Next]_vars => Drained'
  <2> SUFFICES ASSUME IInv, Drained, [Next]_vars PROVE Drained'
    OBVIOUS
  <2>1. CASE Next
    BY <2>1, DrainingStep, CleanStep DEF IInv
  <2>2. CASE UNCHANGED vars
    BY <2>2 DEF vars, DrainingHeld, DrainClean
  <2> QED BY <2>1, <2>2
<1> QED  BY <1>1, <1>2, Invariance, PTL DEF Spec

\* No lease of a user is granted while a drain of that user is under way.
THEOREM DrainKeepsOut ==
  ASSUME PoolAssumption, DrainersApart PROVE Spec => [][AdmissionBlocked]_vars
<1>1. IInv /\ DrainingHeld /\ [Next]_vars => [AdmissionBlocked]_vars
  <2> SUFFICES ASSUME IInv, DrainingHeld, Next, NEW r \in Requests, entry'[r] # entry[r]
               PROVE  UserOf(r) \notin draining
    BY DEF AdmissionBlocked, DrainingHeld
  <2> USE DEF IInv, TypeOK, Callers, poolVars, Goto
  <2>1. ASSUME NEW q \in Requests, OfRequest(q) PROVE UserOf(r) \notin draining
    <3>1. CASE Join(q) \/ Create(q)
      BY <3>1 DEF Join, Create, Admitted
    <3>2. CASE ~(Join(q) \/ Create(q))
      BY <2>1, <3>2, SMTT(30) DEF OfRequest, RefuseDraining, RefuseInvalid, Overloaded, EvictionDone,
         CreateOk, CreateFails, Leave, Release, TakeSlot, AwaitSlot
    <3> QED BY <3>1, <3>2
  <2>2. ASSUME NEW e \in Requests, CloseStart(e) \/ CloseEnd(e) PROVE FALSE
    BY <2>2 DEF CloseStart, CloseEnd
  <2>3. ASSUME NEW d \in Drainers, DrainStart(d) \/ Drain(d) PROVE FALSE
    BY <2>3 DEF DrainStart, Drain, DrainInvalidate, DrainWaits, DrainEmpty, DrainReport, DrainTimeout,
       DrainEnd, Invalidate
  <2>4. ASSUME Shutdown PROVE FALSE
    BY <2>4 DEF Shutdown
  <2> QED BY <2>1, <2>2, <2>3, <2>4, NextIsOne
<1> QED  BY <1>1, Invariance, DrainInvariance, PTL DEF Spec

\* When drain() reports success, nobody uses a service of the user but who found it just as
\* it expired, none is being closed, and none is left whose close failed.
THEOREM DrainReportsQuiet ==
  ASSUME PoolAssumption, DrainersApart PROVE Spec => [][DrainMeansQuiet]_vars
<1>1. IInv /\ DrainClean /\ [Next]_vars => [DrainMeansQuiet]_vars
  <2> SUFFICES ASSUME IInv, DrainClean, Next, NEW d \in Drainers, pc[d] # "true", pc'[d] = "true",
                      NEW e \in Entries(DrainOf[d])
               PROVE  /\ ready[e] = "ok" => leases[e] \subseteq stale
                      /\ close[e] \notin {"queued", "closing", "failed"}
    BY DEF DrainMeansQuiet
  <2>1. DrainReport(d) /\ FailedOf(DrainOf[d]) = {}
    <3> USE DEF IInv, TypeOK, Callers, poolVars, Goto, Leasing
    <3>1. ASSUME NEW r \in Requests, OfRequest(r) PROVE FALSE
      <4>1. d \in Callers /\ d # r
        BY DEF PoolAssumption
      <4>2. CASE RefuseDraining(r) \/ RefuseInvalid(r) \/ Join(r) \/ Create(r) \/ Overloaded(r)
        BY <4>1, <4>2 DEF RefuseDraining, RefuseInvalid, Join, Create, Overloaded
      <4>3. CASE EvictionDone(r) \/ CreateOk(r) \/ CreateFails(r)
        BY <4>1, <4>3 DEF EvictionDone, CreateOk, CreateFails
      <4>4. CASE Leave(r) \/ TakeSlot(r) \/ AwaitSlot(r)
        BY <4>1, <4>4 DEF Leave, Release, TakeSlot, AwaitSlot
      <4> QED BY <3>1, <4>2, <4>3, <4>4 DEF OfRequest
    <3>2. ASSUME NEW f \in Requests, CloseStart(f) \/ CloseEnd(f) PROVE FALSE
      BY <3>2 DEF CloseStart, CloseEnd
    <3>3. ASSUME NEW c \in Drainers, DrainStart(c) \/ Drain(c)
          PROVE  DrainReport(d) /\ FailedOf(DrainOf[d]) = {}
      BY <3>3, SMTT(30) DEF DrainStart, Drain, DrainInvalidate, DrainWaits, DrainEmpty, DrainReport,
         DrainTimeout, DrainEnd
    <3>4. ASSUME Shutdown PROVE FALSE
      BY <3>4 DEF Shutdown
    <3> QED BY <3>1, <3>2, <3>3, <3>4, NextIsOne
  <2>2. pc[d] = "retry" /\ waits[d] = {} /\ e \in Requests
    BY <2>1 DEF DrainReport, Entries
  <2>3. close[e] \notin {"queued", "closing"} /\ (e \in pool => leases[e] = {})
    BY <2>2 DEF DrainClean
  <2>4. e \notin pool /\ leases[e] # {} => ready[e] = "failed" \/ leases[e] \subseteq stale
    BY <2>2 DEF IInv, LeasedKept
  <2>5. close[e] # "failed"
    BY <2>1, <2>2 DEF FailedOf
  <2> QED BY <2>3, <2>4, <2>5
<1> QED  BY <1>1, Invariance, DrainInvariance, PTL DEF Spec

=============================================================================
