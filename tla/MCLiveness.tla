------------------------------ MODULE MCLiveness -------------------------------
(* Whether every call comes to an end: a behaviour is one of a user's connection to *)
(* Graph (GraphConnection), of the pool of services (ServicePool), of attachments   *)
(* or of files converted to text (Conversions). The variables of the components     *)
(* that are not at work are Off.                                                    *)
EXTENDS MCGraphConnection

CONSTANTS m1, m2, f1,                  \* Conversions
          a, b, q1, q2, q3, drainA, NoEntry, \* ServicePool
          Off

VARIABLES part, call, thread, taken, deferred, closing,
          pool, ready, close, invalid, leases, draining, poolPc, entry, waits, stale

\* Two calls for the one slot of the mail domain; a file call over two files.
Extracts == INSTANCE Conversions
              WITH MailCalls <- {m1, m2}, FileCalls <- {}, MaxWorkers <- 1, Items <- 2,
                   Size <- <<1, 2>>, Budget <- 2, MaxFileSize <- 2, MaxFiles <- 2
Converts == INSTANCE Conversions
              WITH MailCalls <- {}, FileCalls <- {f1}, MaxWorkers <- 1, Items <- 2,
                   Size <- <<1, 2>>, Budget <- 2, MaxFileSize <- 2, MaxFiles <- 2
ASSUME Extracts!ConversionAssumption
ASSUME Converts!ConversionAssumption

\* Three requests of two users for a pool of one entry, and a drain of one of them.
Pool == INSTANCE ServicePool
          WITH Users <- {a, b}, Requests <- {q1, q2, q3}, Drainers <- {drainA},
               KeyOf <- [q \in {q1, q2, q3} |-> [user |-> IF q = q3 THEN b ELSE a, epoch |-> 0]],
               DrainOf <- [q \in {drainA} |-> a], MaxEntries <- 1, PerUser <- 1,
               Cancellable <- {q1}, pc <- poolPc
ASSUME Pool!PoolAssumption

-----------------------------------------------------------------------------
convertVars == <<call, thread, taken, deferred, closing>>
poolVars == <<pool, ready, close, invalid, leases, draining, poolPc, entry, waits, stale>>
allVars == <<part, vars, convertVars, poolVars>>

GraphOff == /\ user = Off /\ row = Off /\ flock = Off /\ plock = Off /\ pc = Off
            /\ mem = Off /\ links = Off /\ dead = Off /\ late = Off /\ crashes = Off
ConvertsOff == call = Off /\ thread = Off /\ taken = Off /\ deferred = Off /\ closing = Off
PoolOff == /\ pool = Off /\ ready = Off /\ close = Off /\ invalid = Off /\ leases = Off
           /\ draining = Off /\ poolPc = Off /\ entry = Off /\ waits = Off /\ stale = Off

InGraph(step) == part = "graph" /\ step /\ UNCHANGED <<part, convertVars, poolVars>>
InExtracts(step) == part = "extracts" /\ step /\ UNCHANGED <<part, vars, poolVars>>
InConverts(step) == part = "converts" /\ step /\ UNCHANGED <<part, vars, poolVars>>
InPool(step) == part = "pool" /\ step /\ UNCHANGED <<part, vars, convertVars>>

LiveInit ==
  \/ part = "graph" /\ Init /\ ConvertsOff /\ PoolOff
  \/ part = "extracts" /\ Extracts!ConvertInit /\ GraphOff /\ PoolOff
  \/ part = "converts" /\ Converts!ConvertInit /\ GraphOff /\ PoolOff
  \/ part = "pool" /\ Pool!Init /\ GraphOff /\ ConvertsOff

GraphStep == InGraph(Next)
ExtractStep == InExtracts(Extracts!ConvertNext)
ConvertStep == InConverts(Converts!ConvertNext)
PoolStep == InPool(Pool!Next)

LiveNext == GraphStep \/ ExtractStep \/ ConvertStep \/ PoolStep

\* The callers of the components, numbered, and the steps of each.
Callers == 1 .. 4
Worker == <<r1, r2, c1, u1>>
Asker == <<q1, q2, q3>>
Extract == <<m1, m2>>

GraphSteps(i) == CASE Worker[i] \in Requests -> RequestStep(Worker[i])
                   [] Worker[i] \in Callbacks -> CommitStep(Worker[i])
                   [] Worker[i] \in Unlinks -> UnlinkStep(Worker[i])
LockSteps(i) == TakeFileLock(Worker[i]) \/ LockTimeout(Worker[i])

\* What GraphConnection's Fairness, ServicePool's FairSpec and Conversions'
\* ConvertFairness ask for. Only one component is ever at work, so that fairness to a
\* caller of either of them is fairness to each.
LiveFairness ==
  \A i \in Callers :
    /\ SF_allVars(InGraph(TakeProcLock(Worker[i])))
    /\ WF_allVars(\/ InGraph(LockSteps(i))
                  \/ i \in DOMAIN Asker /\ InPool(Pool!CloseTask(Asker[i]))
                  \/ i \in DOMAIN Extract /\ InExtracts(Extracts!Deadline(Extract[i]))
                  \/ i = 1 /\ InConverts(Converts!Deadline(f1)))
    /\ WF_allVars(\/ InGraph(GraphSteps(i))
                  \/ i \in DOMAIN Asker /\ InPool(Pool!Progress(Asker[i]))
                  \/ i = 4 /\ InPool(Pool!Drain(drainA))
                  \/ i \in DOMAIN Extract /\ InExtracts(Extracts!MailSteps(Extract[i]))
                  \/ i = 1 /\ InConverts(Converts!FileSteps(f1)))

LiveSpec == LiveInit /\ [][LiveNext]_allVars /\ LiveFairness

-----------------------------------------------------------------------------
\* Every token request, commit and disconnect comes to an end: none waits for ever for a
\* lock, whatever the other workers do (EveryCallReturns, token_store.py); every tool
\* call that converts a file is answered, although a converter may run for ever
\* (CallsAnswered, conversion_workers.py, file_manager.py); and every request for a
\* service gets it and returns it or is refused (EveryRequestEnds, service_pool.py).
EveryCallEnds ==
  \A i \in Callers :
    (\/ part = "graph" /\ pc[Worker[i]] # "idle"
     \/ part = "extracts" /\ i \in DOMAIN Extract /\ call[Extract[i]].pc = "slot"
     \/ part = "converts" /\ i = 1 /\ call[f1].pc \in {"fetch", "slot"}
     \/ part = "pool" /\ i \in DOMAIN Asker /\ poolPc[Asker[i]] \in Pool!Leasing)
    ~>
    (\/ part = "graph" /\ pc[Worker[i]] = "idle"
     \/ part = "extracts" /\ i \in DOMAIN Extract /\ call[Extract[i]].pc = "over"
     \/ part = "converts" /\ call[f1].pc = "over"
     \/ part = "pool" /\ i \in DOMAIN Asker /\ (poolPc[Asker[i]] = "done" \/ ~Pool!PendingHasCreator))

\* The pool closes no service that is in use (NotClosedInUse) and loses none that left it
\* (NothingForgotten): service_pool.py.
PoolHolds == part = "pool" => Pool!NotClosedInUse /\ Pool!NothingForgotten

\* While a drain is under way its user is granted no lease (AdmissionBlocked), and when it
\* reports success the user's services are quiet (DrainMeansQuiet): service_pool.py.
DrainKeepsItsPromise ==
  [][part = "pool" => Pool!AdmissionBlocked /\ Pool!DrainMeansQuiet]_allVars
=============================================================================
