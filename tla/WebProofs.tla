------------------------------ MODULE WebProofs ------------------------------
(***************************************************************************)
(* What the parts of MCWeb promise: the asynchronous exports of one        *)
(* runtime, for any number of calls, of writers, of jobs and of items, and *)
(* the lines of messages, each in order and once, for any number of them.  *)
(***************************************************************************)
EXTENDS MCWeb, HttpProofs


-----------------------------------------------------------------------------
(* The asynchronous exports *)

Entering == {"entering", "initializing", "refreshing"}
Live == {"running", "cleanup"} \cup Draining

\* The type invariant, its two flags apart from the rest
FlagsOK == restored \in BOOLEAN /\ refreshed \in BOOLEAN
StatesOK ==
    /\ initState \in {"NotStarted", "InProgress", "WizerPreInitialized", "Done"}
    /\ evaluated \in Nat /\ scheduled \in Nat
    /\ call \in [Calls -> CallStates] /\ drivers \in [Calls -> {"none", "held", "dropped"}]
    /\ jobs \in [Calls -> Nat]
WaitersOK == activationWaiters \subseteq Calls /\ inactivityWaiters \subseteq Calls /\ activated \subseteq Calls
WritersOK ==
    /\ writer \in [Writers -> WriterStates] /\ kind \in [Writers -> {"future", "stream"}]
    /\ items \in [Writers -> Nat] /\ taskOf \in [Writers -> Calls \cup {Nobody}]
    /\ visible \in [Writers -> Calls \cup {Nobody}]

\* The driver of a call is held from its start to its end.
DriversOK == \A c \in Calls :
    /\ drivers[c] = "held" <=> call[c] \in Live
    /\ drivers[c] = "none" => call[c] \in Entering \cup {"idle", "cancelled"}

\* A writer that was made has the task of a call.
TasksOK == \A w \in Writers : writer[w] # "none" => taskOf[w] \in Calls

\* Whoever drains is known to the lease, or has been told.
DrainsOK == \A c \in Calls : call[c] \in Draining => c \in activationWaiters \cup activated

\* A drain that has ended, and a call that has returned, leave no job behind.
JobsOK == \A c \in Calls : call[c] \in {"idled", "cleanup-idled", "returned"} => jobs[c] = 0

\* One call initializes, the others wait; a restored instance is evaluated already.
InitOK ==
    /\ initState = "NotStarted" => ~restored /\ evaluated = 0
    /\ initState = "WizerPreInitialized" => restored /\ evaluated = 1
    /\ initState = "Done" => evaluated = 1 /\ (restored => refreshed)
    /\ evaluated <= 1
    /\ \A c \in Calls :
        /\ call[c] = "initializing" => initState = "InProgress" /\ ~restored /\ evaluated = 0
        /\ call[c] = "refreshing" => initState = "InProgress" /\ evaluated = 1
        /\ drivers[c] # "none" => initState = "Done"
    /\ \A c, d \in Calls :
        call[c] \in {"initializing", "refreshing"} /\ call[d] \in {"initializing", "refreshing"} => c = d

\* The inductive invariant
TypesOK == FlagsOK /\ StatesOK /\ WaitersOK /\ WritersOK
ExportsIInv ==
    /\ TypesOK
    /\ DriversOK /\ TasksOK /\ DrainsOK /\ JobsOK /\ InitOK
    /\ WritersAreDriven /\ WaitersAreWoken

\* The type invariant is its parts.
LEMMA TypeParts == ExportsTypeOK <=> TypesOK
  BY Zenon DEF ExportsTypeOK, TypesOK, FlagsOK, StatesOK, WaitersOK, WritersOK

-----------------------------------------------------------------------------
(* Types *)

\* Types are kept by every step.
LEMMA TypeStep == TypesOK /\ [ExportsNext]_ExportVars => TypesOK'
<1> SUFFICES ASSUME TypesOK, [ExportsNext]_ExportVars PROVE TypesOK'
  OBVIOUS
<1> USE ExportsAssumption
<1>0. FlagsOK'
  <2>1. ASSUME NEW c \in Calls, EndsInit(c) PROVE FlagsOK'
    BY <2>1, Zenon DEF EndsInit, FlagsOK, TypesOK
  <2>2. UNCHANGED <<restored, refreshed>> => FlagsOK'
    BY Zenon DEF FlagsOK, TypesOK
  <2>3. ASSUME NEW c \in Calls, Call(c) \/ StartsInit(c) \/ EntersDone(c) PROVE FlagsOK'
    BY <2>2, <2>3 DEF Call, StartsInit, EntersDone, initVars
  <2>4. ASSUME NEW c \in Calls, Idles(c) \/ FoundIdle(c) \/ Retries(c) \/ CleanupTask(c)
                                \/ PromiseSettles(c) \/ CancelCall(c) PROVE FlagsOK'
    BY <2>2, <2>4 DEF Idles, FoundIdle, Retries, CleanupTask, PromiseSettles, CancelCall, initVars
  <2>5. ASSUME NEW c \in Calls, NEW d \in Calls, RunJob(c, d) PROVE FlagsOK'
    BY <2>2, <2>5 DEF RunJob, initVars
  <2>6. ASSUME NEW w \in Writers, Produces(w) \/ HostReads(w) PROVE FlagsOK'
    BY <2>2, <2>6 DEF Produces, HostReads, initVars
  <2>7. CASE UNCHANGED ExportVars
    BY <2>2, <2>7 DEF ExportVars, initVars
  <2> QED BY <2>1, <2>3, <2>4, <2>5, <2>6, <2>7 DEF ExportsNext, Polled
<1>1. ASSUME NEW c \in Calls, Call(c) \/ StartsInit(c) \/ EndsInit(c) \/ EntersDone(c)
      PROVE  StatesOK' /\ WaitersOK' /\ WritersOK'
  <2>1. WaitersOK' /\ WritersOK'
    BY <1>1 DEF TypesOK, WaitersOK, WritersOK, Call, StartsInit, EndsInit, EntersDone, leaseVars, writerVars
  <2>2. CASE Call(c)
    BY <2>1, <2>2 DEF TypesOK, StatesOK, CallStates, Call, initVars
  <2>3. CASE StartsInit(c)
    BY <2>1, <2>3 DEF TypesOK, StatesOK, CallStates, StartsInit
  <2>4. StartExport(c) => call' \in [Calls -> CallStates] /\ scheduled' \in Nat
                          /\ drivers' \in [Calls -> {"none", "held", "dropped"}] /\ jobs' \in [Calls -> Nat]
    BY DEF TypesOK, StatesOK, CallStates, StartExport
  <2>5. CASE EndsInit(c)
    <3>1. evaluated' \in Nat /\ initState' = "Done"
      BY <2>5 DEF TypesOK, StatesOK, EndsInit
    <3> QED BY <2>1, <2>4, <2>5, <3>1 DEF EndsInit, StatesOK
  <2>6. CASE EntersDone(c)
    BY <2>1, <2>4, <2>6 DEF TypesOK, StatesOK, EntersDone, initVars
  <2> QED BY <1>1, <2>2, <2>3, <2>5, <2>6
<1>2. ASSUME NEW c \in Calls, Idles(c) \/ FoundIdle(c) \/ Retries(c) \/ CleanupTask(c) \/ CancelCall(c)
      PROVE  StatesOK' /\ WaitersOK' /\ WritersOK'
  <2>1. WritersOK'
    BY <1>2 DEF TypesOK, WritersOK, Idles, FoundIdle, Retries, CleanupTask, CancelCall, writerVars
  <2>2. WaitersOK'
    BY <1>2 DEF TypesOK, WaitersOK, Idles, FoundIdle, Retries, CleanupTask, CancelCall, leaseVars,
                DropWaiter, Registers
  <2>3. UNCHANGED <<initVars, jobs, scheduled>>
    BY <1>2 DEF Idles, FoundIdle, Retries, CleanupTask, CancelCall
  <2>4. call' \in [Calls -> CallStates]
    BY <1>2 DEF TypesOK, StatesOK, CallStates, Idles, FoundIdle, Retries, CleanupTask, CancelCall, FinishExport
  <2>5. drivers' \in [Calls -> {"none", "held", "dropped"}]
    BY <1>2 DEF TypesOK, StatesOK, Idles, FoundIdle, Retries, CleanupTask, CancelCall
  <2> QED BY <2>1, <2>2, <2>3, <2>4, <2>5 DEF TypesOK, StatesOK, initVars
<1>3. ASSUME NEW c \in Calls, PromiseSettles(c) PROVE StatesOK' /\ WaitersOK' /\ WritersOK'
  <2>1. call' \in [Calls -> CallStates]
    BY <1>3 DEF TypesOK, StatesOK, CallStates, PromiseSettles, FinishExport
  <2>2. StatesOK'
    BY <1>3, <2>1 DEF TypesOK, StatesOK, PromiseSettles, initVars
  <2>3. WaitersOK'
    BY <1>3 DEF TypesOK, WaitersOK, PromiseSettles, Registers, RegisterWriter
  <2>4. WritersOK'
    BY <1>3 DEF TypesOK, WritersOK, WriterStates, PromiseSettles, writerVars
  <2> QED BY <2>2, <2>3, <2>4
<1>4. ASSUME NEW c \in Calls, NEW d \in Calls, RunJob(c, d) PROVE StatesOK' /\ WaitersOK' /\ WritersOK'
  <2>1. jobs' \in [Calls -> Nat] /\ scheduled' \in Nat
    BY <1>4 DEF TypesOK, StatesOK, RunJob
  <2>2. StatesOK'
    BY <1>4, <2>1 DEF TypesOK, StatesOK, RunJob, initVars
  <2>3. WaitersOK'
    BY <1>4 DEF TypesOK, WaitersOK, RunJob, RegisterWriter
  <2>4. WritersOK'
    BY <1>4 DEF TypesOK, WritersOK, WriterStates, RunJob, writerVars
  <2> QED BY <2>2, <2>3, <2>4
<1>5. ASSUME NEW w \in Writers, Produces(w) \/ HostReads(w) PROVE StatesOK' /\ WaitersOK' /\ WritersOK'
  <2>1. StatesOK'
    BY <1>5 DEF TypesOK, StatesOK, Produces, HostReads, initVars, callVars
  <2>2. WaitersOK'
    BY <1>5 DEF TypesOK, WaitersOK, Produces, HostReads, DropGuard
  <2>3. WritersOK'
    BY <1>5 DEF TypesOK, WritersOK, WriterStates, Produces, HostReads
  <2> QED BY <2>1, <2>2, <2>3
<1>6. CASE UNCHANGED ExportVars
  <2>1. StatesOK'
    BY <1>6 DEF TypesOK, StatesOK, ExportVars, initVars, callVars
  <2>2. WaitersOK' /\ WritersOK'
    BY <1>6 DEF TypesOK, WaitersOK, WritersOK, ExportVars, leaseVars, writerVars
  <2> QED BY <1>0, <2>1, <2>2 DEF TypesOK
<1> QED BY <1>0, <1>1, <1>2, <1>3, <1>4, <1>5, <1>6 DEF ExportsNext, Polled, TypesOK

-----------------------------------------------------------------------------
(* Initialization *)

\* One call at a time initializes, and the state stays once it is there.
LEMMA InitStep ==
    TypesOK /\ DriversOK /\ InitOK /\ [ExportsNext]_ExportVars => InitOK'
<1> SUFFICES ASSUME TypesOK, DriversOK, InitOK, [ExportsNext]_ExportVars PROVE InitOK'
  OBVIOUS
<1> USE DEF TypesOK, StatesOK
\* A step that neither starts nor ends an initialization, nor spawns a driver
<1>0. ASSUME UNCHANGED initVars,
             \A c \in Calls : call'[c] \in {"initializing", "refreshing"} => call'[c] = call[c],
             \A c \in Calls : drivers'[c] # "none" => drivers[c] # "none" \/ initState = "Done"
      PROVE  InitOK'
  BY <1>0 DEF InitOK, initVars
<1>1. ASSUME NEW c \in Calls, Call(c) \/ Idles(c) \/ FoundIdle(c) \/ Retries(c) \/ CleanupTask(c)
                              \/ PromiseSettles(c) PROVE InitOK'
  <2>1. UNCHANGED initVars
    BY <1>1 DEF Call, Idles, FoundIdle, Retries, CleanupTask, PromiseSettles
  <2>2. \A b \in Calls : call'[b] \in {"initializing", "refreshing"} => call'[b] = call[b]
    BY <1>1 DEF Call, Idles, FoundIdle, Retries, CleanupTask, PromiseSettles, FinishExport
  <2>3. \A b \in Calls : drivers'[b] # "none" => drivers[b] # "none"
    BY <1>1 DEF Call, Idles, FoundIdle, Retries, CleanupTask, PromiseSettles, DriversOK, Entering
  <2> QED BY <1>0, <2>1, <2>2, <2>3
<1>2. ASSUME NEW c \in Calls, CancelCall(c) PROVE InitOK'
  <2>1. UNCHANGED initVars /\ \A b \in Calls : call'[b] \in {"initializing", "refreshing"} => call'[b] = call[b]
    BY <1>2 DEF CancelCall
  <2>2. \A b \in Calls : drivers'[b] # "none" => drivers[b] # "none"
    BY <1>2 DEF CancelCall
  <2> QED BY <1>0, <2>1, <2>2
<1>3. ASSUME NEW c \in Calls, NEW d \in Calls, RunJob(c, d) PROVE InitOK'
  BY <1>0, <1>3 DEF RunJob
<1>4. ASSUME NEW w \in Writers, Produces(w) \/ HostReads(w) PROVE InitOK'
  BY <1>0, <1>4 DEF Produces, HostReads, callVars
<1>5. CASE UNCHANGED ExportVars
  BY <1>0, <1>5 DEF ExportVars, callVars
<1>6. ASSUME NEW c \in Calls, StartsInit(c) PROVE InitOK'
  <2>1. \A b \in Calls : call[b] \notin {"initializing", "refreshing"} /\ drivers[b] = "none"
    BY <1>6 DEF StartsInit, InitOK
  <2>2. \A b \in Calls : b # c => call'[b] = call[b]
    BY <1>6 DEF StartsInit
  <2> QED BY <1>6, <2>1, <2>2 DEF StartsInit, InitOK
<1>7. ASSUME NEW c \in Calls, EndsInit(c) PROVE InitOK'
  <2>1. evaluated' = 1 /\ initState' = "Done" /\ restored' = restored
    BY <1>7 DEF EndsInit, InitOK
  <2>2. restored => refreshed'
    BY <1>7 DEF EndsInit, InitOK
  <2>3. \A b \in Calls : call'[b] \notin {"initializing", "refreshing"}
    BY <1>7 DEF EndsInit, StartExport, InitOK
  <2> QED BY <2>1, <2>2, <2>3 DEF InitOK
<1>8. ASSUME NEW c \in Calls, EntersDone(c) PROVE InitOK'
  <2>1. UNCHANGED initVars /\ initState = "Done"
    BY <1>8 DEF EntersDone
  <2>2. \A b \in Calls : call'[b] \in {"initializing", "refreshing"} => call'[b] = call[b]
    BY <1>8 DEF EntersDone, StartExport
  <2> QED BY <1>0, <2>1, <2>2
<1> QED BY <1>1, <1>2, <1>3, <1>4, <1>5, <1>6, <1>7, <1>8 DEF ExportsNext, Polled

-----------------------------------------------------------------------------
(* Drivers, writers and waiters *)

\* The part of the invariant that ties drivers, jobs and waiters to the calls
Ties == DriversOK /\ TasksOK /\ DrainsOK /\ JobsOK /\ WritersAreDriven /\ WaitersAreWoken

\* A step of the initialization ties no knot and loosens none.
LEMMA EnterKeeps ==
    ASSUME TypesOK, Ties, NEW c \in Calls, Call(c) \/ StartsInit(c) \/ EndsInit(c) \/ EntersDone(c)
    PROVE  Ties'
<1> USE DEF TypesOK, StatesOK
<1>1. UNCHANGED <<leaseVars, writerVars>>
  BY DEF Call, StartsInit, EndsInit, EntersDone
<1>2. CASE Call(c) \/ StartsInit(c)
  <2>1. UNCHANGED <<drivers, jobs>> /\ call[c] \in {"idle", "entering"}
        /\ call' \in {[call EXCEPT ![c] = s] : s \in Entering}
    BY <1>2 DEF Call, StartsInit, Entering
  <2> QED BY <1>1, <2>1 DEF Ties, DriversOK, TasksOK, DrainsOK, JobsOK, WritersAreDriven, WaitersAreWoken,
                            Entering, Live, Draining, Active, has_active_writers, leaseVars, writerVars
<1>3. CASE EndsInit(c) \/ EntersDone(c)
  <2>1. call[c] \in Entering /\ call' = [call EXCEPT ![c] = "running"]
        /\ drivers' = [drivers EXCEPT ![c] = "held"]
        /\ \A b \in Calls : b # c => jobs'[b] = jobs[b]
    BY <1>3 DEF EndsInit, EntersDone, StartExport, Entering
  <2>2. DriversOK' /\ DrainsOK' /\ JobsOK'
    BY <1>1, <2>1 DEF Ties, DriversOK, DrainsOK, JobsOK, Entering, Live, Draining, leaseVars
  <2>3. TasksOK' /\ WritersAreDriven' /\ WaitersAreWoken'
    BY <1>1, <2>1 DEF Ties, TasksOK, WritersAreDriven, WaitersAreWoken, Active, has_active_writers,
                      leaseVars, writerVars
  <2> QED BY <2>2, <2>3 DEF Ties
<1> QED BY <1>2, <1>3

\* A call that ends keeps its driver, or lets it go with no writer left.
LEMMA CallEndKeeps ==
    ASSUME TypesOK, Ties, NEW c \in Calls,
           Idles(c) \/ FoundIdle(c) \/ Retries(c) \/ CleanupTask(c) \/ CancelCall(c)
    PROVE  Ties'
<1> USE DEF TypesOK, StatesOK
<1>1. UNCHANGED writerVars /\ jobs' = jobs
  BY DEF Idles, FoundIdle, Retries, CleanupTask, CancelCall
<1>2. Active(writer') = Active(writer) /\ (has_active_writers' <=> has_active_writers)
  BY <1>1 DEF writerVars, Active, has_active_writers
<1>3. TasksOK'
  BY <1>1 DEF Ties, TasksOK, writerVars
<1>4. CASE Idles(c)
  <2>1. jobs[c] = 0 /\ UNCHANGED <<drivers, leaseVars>>
    BY <1>4 DEF Idles, JsWork
  <2>2. DriversOK' /\ DrainsOK' /\ JobsOK'
    BY <1>1, <1>4, <2>1 DEF Idles, Ties, DriversOK, DrainsOK, JobsOK, Entering, Live, Draining, leaseVars
  <2>3. WritersAreDriven' /\ WaitersAreWoken'
    BY <1>1, <1>2, <2>1 DEF Ties, WritersAreDriven, WaitersAreWoken, leaseVars, writerVars
  <2> QED BY <1>3, <2>2, <2>3 DEF Ties
<1>5. CASE FoundIdle(c)
  <2>1. Active(writer) = {}
    BY <1>5 DEF FoundIdle, WriterCame, Ties, DrainsOK, Draining, WaitersAreWoken, has_active_writers
  <2>2. DriversOK' /\ DrainsOK' /\ JobsOK'
    BY <1>1, <1>5 DEF FoundIdle, DropWaiter, Ties, DriversOK, DrainsOK, JobsOK, Entering, Live, Draining
  <2>3. WritersAreDriven' /\ WaitersAreWoken'
    BY <1>2, <1>5, <2>1 DEF FoundIdle, Ties, WritersAreDriven, WaitersAreWoken, has_active_writers
  <2> QED BY <1>3, <2>2, <2>3 DEF Ties
<1>6. CASE Retries(c)
  <2>1. UNCHANGED <<drivers, inactivityWaiters>> /\ call[c] \in {"draining", "idled"}
    BY <1>6 DEF Retries
  <2>2. DriversOK' /\ DrainsOK' /\ JobsOK'
    BY <1>1, <1>6, <2>1 DEF Retries, FinishExport, DropWaiter, Registers, has_active_writers,
                            Ties, DriversOK, DrainsOK, JobsOK, Entering, Live, Draining
  <2>3. WritersAreDriven' /\ WaitersAreWoken'
    BY <1>1, <1>2, <1>6, <2>1 DEF Retries, DropWaiter, Registers, Ties, WritersAreDriven, WaitersAreWoken, writerVars
  <2> QED BY <1>3, <2>2, <2>3 DEF Ties
<1>7. CASE CleanupTask(c)
  <2>1. UNCHANGED drivers /\ call[c] \in {"cleanup", "cleanup-draining", "cleanup-idled"}
    BY <1>7 DEF CleanupTask
  <2>2. DriversOK' /\ DrainsOK' /\ JobsOK'
    BY <1>1, <1>7, <2>1 DEF CleanupTask, DropWaiter, Registers, Ties, DriversOK, DrainsOK, JobsOK,
                            Entering, Live, Draining
  <2>3. WritersAreDriven' /\ WaitersAreWoken'
    BY <1>1, <1>2, <1>7, <2>1 DEF CleanupTask, DropWaiter, Registers, Ties, WritersAreDriven, WaitersAreWoken,
                                  writerVars
  <2> QED BY <1>3, <2>2, <2>3 DEF Ties
<1>8. CASE CancelCall(c)
  <2>1. DriversOK' /\ DrainsOK' /\ JobsOK'
    BY <1>1, <1>8 DEF CancelCall, DropWaiter, Ties, DriversOK, DrainsOK, JobsOK, Entering, Live, Draining
  <2>2. WritersAreDriven'
    BY <1>1, <1>2, <1>8 DEF CancelCall, Ties, WritersAreDriven, TasksOK, Active, writerVars
  <2>3. WaitersAreWoken'
    BY <1>2, <1>8 DEF CancelCall, DropWaiter, Ties, WaitersAreWoken
  <2> QED BY <1>3, <2>1, <2>2, <2>3 DEF Ties
<1> QED BY <1>4, <1>5, <1>6, <1>7, <1>8

\* A writer that is made wakes those who drain, and is driven by the call that made it.
LEMMA NewWriterKeeps ==
    ASSUME TypesOK, TasksOK, WritersAreDriven, WaitersAreWoken,
           NEW w \in Writers, NEW d \in Calls, drivers[d] = "held", drivers' = drivers,
           writer[w] = "none", writer' = [writer EXCEPT ![w] = "js"],
           taskOf' = [taskOf EXCEPT ![w] = d], RegisterWriter, inactivityWaiters' = inactivityWaiters
    PROVE  /\ TasksOK' /\ WritersAreDriven' /\ WaitersAreWoken'
           /\ activationWaiters' \cup activated' = activationWaiters \cup activated
           /\ Active(writer') # {}
<1> USE DEF TypesOK, WritersOK
<1>1. w \in Active(writer')
  BY DEF Active
<1>2. activationWaiters' = {} /\ activationWaiters' \cup activated' = activationWaiters \cup activated
  BY DEF RegisterWriter, WaitersAreWoken
<1>3. TasksOK' /\ WritersAreDriven'
  BY DEF TasksOK, WritersAreDriven, Active
<1>4. WaitersAreWoken'
  BY <1>1, <1>2 DEF WaitersAreWoken, has_active_writers
<1> QED BY <1>1, <1>2, <1>3, <1>4

\* A promise that settles leaves a driver held.
LEMMA SettleKeeps == ASSUME TypesOK, Ties, NEW c \in Calls, PromiseSettles(c) PROVE Ties'
<1> USE DEF TypesOK, StatesOK
<1>1. call[c] = "running" /\ drivers[c] = "held" /\ UNCHANGED <<drivers, jobs, inactivityWaiters>>
  BY DEF PromiseSettles, Ties, DriversOK, Live
<1>2. call' \in {[call EXCEPT ![c] = s] : s \in {"cleanup", "draining"}}
  BY DEF PromiseSettles, FinishExport
<1>3. DriversOK' /\ JobsOK'
  BY <1>1, <1>2 DEF Ties, DriversOK, JobsOK, Entering, Live, Draining
<1>4. CASE FinishExport(c, writer) /\ UNCHANGED writerVars
           /\ IF has_active_writers THEN UNCHANGED <<activationWaiters, activated>> ELSE Registers(c)
  <2>1. DrainsOK'
    BY <1>1, <1>4 DEF Ties, DrainsOK, FinishExport, has_active_writers, Registers, Draining
  <2>2. TasksOK' /\ WritersAreDriven' /\ WaitersAreWoken'
    BY <1>1, <1>4 DEF Ties, TasksOK, WritersAreDriven, WaitersAreWoken, Active, has_active_writers,
                      Registers, writerVars
  <2> QED BY <1>3, <2>1, <2>2 DEF Ties
<1>5. CASE \E w \in Writers :
            /\ writer[w] = "none" /\ writer' = [writer EXCEPT ![w] = "js"]
            /\ taskOf' = [taskOf EXCEPT ![w] = c]
            /\ RegisterWriter /\ FinishExport(c, writer')
  <2>1. PICK w \in Writers : writer[w] = "none" /\ writer' = [writer EXCEPT ![w] = "js"]
                             /\ taskOf' = [taskOf EXCEPT ![w] = c]
                             /\ RegisterWriter /\ FinishExport(c, writer')
    BY <1>5
  <2>2. TasksOK' /\ WritersAreDriven' /\ WaitersAreWoken' /\ Active(writer') # {}
        /\ activationWaiters' \cup activated' = activationWaiters \cup activated
    BY <1>1, <2>1, NewWriterKeeps DEF Ties
  <2>3. DrainsOK'
    BY <2>1, <2>2 DEF Ties, DrainsOK, FinishExport, Draining
  <2> QED BY <1>3, <2>2, <2>3 DEF Ties
<1> QED BY <1>4, <1>5 DEF PromiseSettles

\* Jobs run on a driver that is held, and only a call that has some can get more.
LEMMA JobKeeps == ASSUME TypesOK, Ties, NEW c \in Calls, NEW d \in Calls, RunJob(c, d) PROVE Ties'
<1> USE DEF TypesOK, StatesOK
<1>1. UNCHANGED <<call, drivers, inactivityWaiters>> /\ drivers[d] = "held" /\ jobs[c] > 0
      /\ \A b \in Calls : jobs[b] = 0 => jobs'[b] = 0
  BY DEF RunJob, Drives
<1>2. DriversOK' /\ JobsOK'
  BY <1>1 DEF Ties, DriversOK, JobsOK
<1>3. CASE UNCHANGED <<activationWaiters, activated, writerVars>>
  BY <1>1, <1>2, <1>3 DEF Ties, DrainsOK, TasksOK, WritersAreDriven, WaitersAreWoken, Active,
                          has_active_writers, writerVars
<1>4. CASE \E w \in Writers :
            /\ writer[w] = "none" /\ writer' = [writer EXCEPT ![w] = "js"]
            /\ taskOf' = [taskOf EXCEPT ![w] = d] /\ RegisterWriter
  <2>1. PICK w \in Writers : writer[w] = "none" /\ writer' = [writer EXCEPT ![w] = "js"]
                             /\ taskOf' = [taskOf EXCEPT ![w] = d] /\ RegisterWriter
    BY <1>4
  <2>2. TasksOK' /\ WritersAreDriven' /\ WaitersAreWoken'
        /\ activationWaiters' \cup activated' = activationWaiters \cup activated
    BY <1>1, <2>1, NewWriterKeeps DEF Ties
  <2>3. DrainsOK'
    BY <1>1, <2>2 DEF Ties, DrainsOK
  <2> QED BY <1>2, <2>2, <2>3 DEF Ties
<1> QED BY <1>3, <1>4 DEF RunJob

\* The last writer that ends wakes those who wait for it.
LEMMA WriterKeeps == ASSUME TypesOK, Ties, NEW w \in Writers, Produces(w) \/ HostReads(w) PROVE Ties'
<1> USE DEF TypesOK, WritersOK
<1>1. UNCHANGED <<call, drivers, jobs, activationWaiters, activated, taskOf>>
  BY DEF Produces, HostReads, callVars
<1>2. w \in Active(writer) /\ Active(writer') \subseteq Active(writer)
  BY DEF Produces, HostReads, Active
<1>3. DriversOK' /\ DrainsOK' /\ JobsOK'
  BY <1>1 DEF Ties, DriversOK, DrainsOK, JobsOK
<1>4. TasksOK'
  BY <1>1 DEF Produces, HostReads, Ties, TasksOK
<1>5. WritersAreDriven'
  BY <1>1, <1>2 DEF Ties, WritersAreDriven
<1>6. ASSUME DropGuard(writer') PROVE WaitersAreWoken'
  BY <1>1, <1>2, <1>6 DEF DropGuard, Ties, WaitersAreWoken, has_active_writers
<1>7. ASSUME writer' = [writer EXCEPT ![w] = "host"], inactivityWaiters' = inactivityWaiters
      PROVE  WaitersAreWoken'
  <2>1. w \in Active(writer')
    BY <1>7 DEF Active
  <2> QED BY <1>1, <1>2, <1>7, <2>1 DEF Ties, WaitersAreWoken, has_active_writers
<1>8. WaitersAreWoken'
  BY <1>6, <1>7 DEF Produces, HostReads
<1> QED BY <1>3, <1>4, <1>5, <1>8 DEF Ties

\* No step breaks what ties the calls, the writers and the lease.
LEMMA TiesStep == TypesOK /\ Ties /\ [ExportsNext]_ExportVars => Ties'
<1> SUFFICES ASSUME TypesOK, Ties, [ExportsNext]_ExportVars PROVE Ties'
  OBVIOUS
<1>1. CASE UNCHANGED ExportVars
  BY <1>1 DEF ExportVars, callVars, leaseVars, writerVars, Ties, DriversOK, TasksOK, DrainsOK, JobsOK,
              WritersAreDriven, WaitersAreWoken, Active, has_active_writers
<1>2. ASSUME NEW c \in Calls, Call(c) \/ Polled(c) \/ PromiseSettles(c) \/ CancelCall(c) PROVE Ties'
  BY <1>2, EnterKeeps, CallEndKeeps, SettleKeeps DEF Polled
<1> QED BY <1>1, <1>2, JobKeeps, WriterKeeps DEF ExportsNext

\* The inductive invariant of the exports holds.
LEMMA ExportsInvariantHolds == ExportsSpec => []ExportsIInv
<1>1. ExportsInit => ExportsIInv
  <2> SUFFICES ASSUME ExportsInit PROVE ExportsIInv
    OBVIOUS
  <2>1. FlagsOK
    BY DEF ExportsInit, FlagsOK
  <2>2. StatesOK /\ WaitersOK /\ WritersOK
    BY DEF ExportsInit, StatesOK, CallStates, WaitersOK, WritersOK, WriterStates, Nobody
  <2>3. DriversOK /\ TasksOK /\ DrainsOK /\ JobsOK
    BY DEF ExportsInit, DriversOK, TasksOK, DrainsOK, JobsOK, Live, Draining, Entering
  <2>4. InitOK
    BY DEF ExportsInit, InitOK
  <2>5. Active(writer) = {}
    BY DEF ExportsInit, Active
  <2>6. WritersAreDriven /\ WaitersAreWoken
    BY <2>5 DEF ExportsInit, WritersAreDriven, WaitersAreWoken, has_active_writers
  <2> QED BY <2>1, <2>2, <2>3, <2>4, <2>6 DEF ExportsIInv, TypesOK
<1>2. ExportsIInv /\ [ExportsNext]_ExportVars => ExportsIInv'
  BY TypeStep, InitStep, TiesStep DEF ExportsIInv, Ties
<1> QED BY <1>1, <1>2, PTL DEF ExportsSpec

\* Concurrent exports evaluate the user's module once and before any of them runs, keep a
\* driver held as long as a writer needs it, run what a call has scheduled before its
\* driver goes, and leave nobody waiting for a writer that is not there (RuntimeWriterLease,
\* ensure_initialized and finish_async_export of internal/p3.rs).
THEOREM ExportsAreSafe == ExportsSpec => []ExportsInv
<1>1. ExportsIInv => ExportsInv
  <2> SUFFICES ASSUME ExportsIInv PROVE ExportsInv
    OBVIOUS
  <2>1. JobsRunFirst
    BY DEF ExportsIInv, JobsOK, JobsRunFirst
  <2>2. InitializedOnce
    BY DEF ExportsIInv, InitOK, InitializedOnce
  <2> QED BY <2>1, <2>2, TypeParts DEF ExportsIInv, ExportsInv
<1> QED BY <1>1, ExportsInvariantHolds, PTL

\* A stream or future whose host reads late is driven by the call that made it, also when
\* that call has returned (finish_async_export).
THEOREM ReturnedWritersAreDriven ==
    ExportsSpec => [](\A w \in Active(writer) : call[taskOf[w]] \in Live)
<1>1. ExportsIInv => \A w \in Active(writer) : call[taskOf[w]] \in Live
  BY DEF ExportsIInv, WritersAreDriven, DriversOK, TasksOK, Active
<1> QED BY <1>1, ExportsInvariantHolds, PTL

-----------------------------------------------------------------------------
(* The WebSocket: the inductive invariant *)

\* What was sent is the first messages that send() took, in order.
SentOK ==
    /\ accepted \in 0..Messages
    /\ sentMessages \in Seq(Nat) /\ Len(sentMessages) <= accepted
    /\ \A k \in 1..Len(sentMessages) : sentMessages[k] = k

\* The blob that is read is the next message, and the waiting is all that follow it.
QueueOK ==
    /\ reading \in 0..accepted /\ sendQueue \in Seq(Nat)
    /\ reading = 0 => sendQueue = <<>>
    /\ reading # 0 =>
        /\ reading = Len(sentMessages) + 1 /\ Len(sendQueue) = accepted - reading
        /\ \A k \in 1..Len(sendQueue) : sendQueue[k] = reading + k
    /\ reading = 0 /\ readyState = "OPEN" => Len(sentMessages) = accepted

\* The socket opens once, before anything is sent.
FreshSocket ==
    opens = 0 /\ ~closedFirst /\ accepted = 0 /\ ~connected /\ ~receiving /\ ~farewell /\ blobs = {}
SwitchesOK ==
    /\ connectJob \in BOOLEAN /\ connected \in BOOLEAN /\ pendingClose \in BOOLEAN
    /\ farewell \in BOOLEAN /\ receiving \in BOOLEAN /\ closedFirst \in BOOLEAN
LifeOK ==
    /\ readyState \in States /\ opens \in 0..1 /\ SwitchesOK
    /\ readyState = "none" => FreshSocket /\ ~connectJob
    /\ connectJob => FreshSocket /\ readyState \in {"CONNECTING", "CLOSED"}
    /\ readyState = "CONNECTING" => connectJob
    /\ readyState = "OPEN" => connected
    /\ farewell => readyState = "CLOSED" /\ Len(sentMessages) = accepted
    /\ blobs \subseteq 1..accepted

\* Each way to CLOSED is told of, and only Connects closes a closed socket.
CloseOK ==
    /\ closes \in Nat
    /\ closes <= (IF closedFirst THEN 1 ELSE 0) + (IF readyState = "CLOSED" THEN 1 ELSE 0)

SocketIInv == SentOK /\ QueueOK /\ LifeOK /\ CloseOK

\* The place where a drain stops exists.
LEMMA StopExists ==
  ASSUME NEW waiting \in Seq(Nat), NEW from \in Nat \ {0}, from <= Len(waiting) + 1
  PROVE  Stop(waiting, from) \in from..Len(waiting) + 1
<1> DEFINE n == Len(waiting)
           Here(k) == k = n + 1 \/ waiting[k] \in blobs'
           Places == {k \in from..n + 1 : Here(k)}
<1>1. n \in Nat
  OBVIOUS
<1> HIDE DEF n
<1>2. Places \subseteq Nat /\ n + 1 \in Places
  BY <1>1 DEF n
<1>3. PICK k \in Places : \A l \in Places : k <= l
  <2> HIDE DEF Places
  <2> QED BY <1>2, LeastOf
<1>4. \A l \in from..k - 1 : waiting[l] \notin blobs'
  BY <1>1, <1>3
<1>5. \E m \in from..n + 1 : (m = n + 1 \/ waiting[m] \in blobs')
                              /\ \A l \in from..m - 1 : waiting[l] \notin blobs'
  BY <1>3, <1>4
<1> QED BY <1>5 DEF Stop, n

\* How a drain ends: at a blob or at the end of the waiting, which are no change or the close
\* that waited for it, or in a failure.
GoesTo(n) ==
    /\ sentMessages' \in Seq(Nat) /\ Len(sentMessages') = n
    /\ \A k \in 1..n : sentMessages'[k] = k
Unchanged == UNCHANGED <<readyState, connected, pendingClose, farewell, closes>>

\* What a drain sends is the next messages.
LEMMA SendsNext ==
  ASSUME SentOK, NEW waiting \in Seq(Nat), NEW m \in 0..Len(waiting),
         \A k \in 1..Len(waiting) : waiting[k] = Len(sentMessages) + k,
         sentMessages' = sentMessages \o SubSeq(waiting, 1, m)
  PROVE  GoesTo(Len(sentMessages) + m)
<1> DEFINE n == Len(sentMessages)
           out == SubSeq(waiting, 1, m)
<1>1. n \in Nat /\ m \in Nat
  BY DEF SentOK
<1>2. out \in Seq(Nat) /\ Len(out) = m /\ \A i \in 1..m : out[i] = waiting[i]
  BY <1>1
<1>3. \A i \in 1..m : out[i] = n + i
  BY <1>1, <1>2
<1>4. sentMessages' = sentMessages \o out
  OBVIOUS
<1> HIDE DEF out
<1>5. /\ sentMessages' \in Seq(Nat) /\ Len(sentMessages') = n + m
      /\ \A i \in 1..n + m : sentMessages'[i] = IF i <= n THEN sentMessages[i] ELSE out[i - n]
  BY <1>1, <1>2, <1>4 DEF SentOK
<1>6. ASSUME NEW i \in 1..n + m PROVE sentMessages'[i] = i
  <2> HIDE DEF n
  <2>1. CASE i <= n
    BY <2>1, <1>1, <1>5 DEF SentOK, n
  <2>2. CASE ~(i <= n)
    <3>1. i - n \in 1..m
      BY <2>2, <1>1
    <3> QED BY <3>1, <2>2, <1>1, <1>3, <1>5
  <2> QED BY <2>1, <2>2
<1> QED BY <1>5, <1>6 DEF GoesTo


\* A drain keeps the order and ends at a blob, or with nothing left, or drops what is left.
LEMMA DrainKeeps ==
  ASSUME SentOK, accepted' \in 0..Messages, NEW waiting \in Seq(Nat), NEW from \in {1, 2},
         Len(waiting) > 0, accepted' = Len(sentMessages) + Len(waiting),
         \A k \in 1..Len(waiting) : waiting[k] = Len(sentMessages) + k,
         DrainQueue(waiting, from)
  PROVE  /\ SentOK'
         /\ \/ connected /\ readyState # "CLOSED" /\ Unchanged /\ QueueOK'
            \/ /\ connected /\ readyState # "CLOSED" /\ FinishClose
               /\ QueueOK' /\ Len(sentMessages') = accepted'
            \/ DrainFails /\ QueueOK' /\ readyState' = "CLOSED"
<1> DEFINE n == Len(sentMessages)
           size == Len(waiting)
           stop == Stop(waiting, from)
<1>1. /\ n \in Nat /\ size \in Nat /\ size > 0 /\ accepted' = n + size
      /\ waiting \in Seq(Nat) /\ Len(waiting) = size /\ Len(sentMessages) = n
      /\ \A k \in 1..size : waiting[k] = n + k
  BY DEF SentOK
<1>2. stop \in from..size + 1
  BY StopExists
<1>3. stop \in 1..size + 1 /\ stop \in Nat
  BY <1>1, <1>2
<1> HIDE DEF n, size, stop
<1>4. ASSUME NEW m \in 0..size, sentMessages' = sentMessages \o SubSeq(waiting, 1, m)
      PROVE  SentOK' /\ Len(sentMessages') = n + m
  <2>1. GoesTo(n + m)
    BY <1>1, <1>4, SendsNext
  <2>2. Len(sentMessages') = n + m /\ n + m <= accepted'
    BY <2>1, <1>1 DEF GoesTo
  <2>3. Len(sentMessages') <= accepted'
    BY <2>2
  <2> QED BY <2>1, <2>2, <2>3 DEF SentOK, GoesTo
<1>5. ASSUME connected, readyState # "CLOSED",
             sentMessages' = sentMessages \o SubSeq(waiting, 1, stop - 1),
             stop <= size, reading' = waiting[stop], sendQueue' = Left(waiting, stop + 1), Unchanged
      PROVE  SentOK' /\ QueueOK'
  <2>1. stop - 1 \in 0..size /\ stop \in 1..size
    BY <1>1, <1>3, <1>5
  <2>2. SentOK' /\ Len(sentMessages') = n + (stop - 1)
    BY <2>1, <1>5, <1>4
  <2>3. reading' = n + stop
    BY <2>1, <1>1, <1>5
  <2>4. sendQueue' = SubSeq(waiting, stop + 1, size)
    BY <1>1, <1>5 DEF Left
  <2>5. /\ sendQueue' \in Seq(Nat) /\ Len(sendQueue') = size - stop
        /\ \A k \in 1..size - stop : sendQueue'[k] = waiting[stop + k]
    BY <2>4, <2>1, <1>1
  <2>6. \A k \in 1..size - stop : stop + k \in 1..size
    BY <2>1, <1>1
  <2>7. \A k \in 1..size - stop : sendQueue'[k] = n + (stop + k)
    BY <2>5, <2>6, <1>1
  <2>8. reading' \in 0..accepted' /\ reading' # 0 /\ reading' = Len(sentMessages') + 1
    BY <2>2, <2>3, <2>1, <1>1
  <2>9. size - stop = accepted' - reading'
    BY <2>3, <2>1, <1>1
  <2>10. \A k \in 1..size - stop : sendQueue'[k] = reading' + k
    BY <2>3, <2>7, <2>1, <1>1
  <2> QED BY <2>2, <2>5, <2>8, <2>9, <2>10 DEF QueueOK
<1>6. ASSUME sentMessages' = sentMessages \o SubSeq(waiting, 1, stop - 1), ~(stop <= size),
             reading' = 0, sendQueue' = <<>>
      PROVE  SentOK' /\ QueueOK' /\ Len(sentMessages') = accepted'
  <2>1. stop - 1 = size
    BY <1>1, <1>3, <1>6
  <2>0. size \in 0..size
    BY <1>1
  <2>2. SentOK' /\ Len(sentMessages') = n + size
    BY <2>1, <2>0, <1>6, <1>4
  <2>3. 0 \in 0..accepted' /\ <<>> \in Seq(Nat)
    BY <1>1
  <2> QED BY <2>2, <2>3, <1>1, <1>6 DEF QueueOK
<1>7. ASSUME NEW m \in 0..stop - 2, sentMessages' = sentMessages \o SubSeq(waiting, 1, m)
      PROVE  SentOK'
  <2>1. m \in 0..size
    BY <1>1, <1>3
  <2> QED BY <2>1, <1>7, <1>4
<1>8. ASSUME sentMessages' = sentMessages PROVE SentOK'
  BY <1>8, <1>1 DEF SentOK
<1>9. ASSUME DrainFails PROVE QueueOK' /\ readyState' = "CLOSED"
  <2>1. 0 \in 0..accepted' /\ <<>> \in Seq(Nat)
    BY <1>1
  <2> QED BY <2>1, <1>9 DEF DrainFails, QueueOK
<1>10. CASE /\ connected /\ readyState # "CLOSED"
            /\ sentMessages' = sentMessages \o SubSeq(waiting, 1, stop - 1)
            /\ IF stop <= size
               THEN /\ reading' = waiting[stop] /\ sendQueue' = Left(waiting, stop + 1)
                    /\ UNCHANGED <<readyState, connected, pendingClose, farewell, closes>>
               ELSE reading' = 0 /\ sendQueue' = <<>> /\ Drained
  <2>1. CASE stop <= size
    BY <2>1, <1>10, <1>5 DEF Unchanged
  <2>2. CASE ~(stop <= size)
    <3>1. SentOK' /\ QueueOK' /\ Len(sentMessages') = accepted' /\ Drained
      BY <2>2, <1>10, <1>6
    <3>2. Unchanged \/ FinishClose
      BY <3>1 DEF Drained, Unchanged
    <3> QED BY <3>1, <3>2, <1>10
  <2> QED BY <2>1, <2>2
<1>11. CASE /\ connected /\ readyState # "CLOSED"
            /\ \E m \in 0..stop - 2 : sentMessages' = sentMessages \o SubSeq(waiting, 1, m)
            /\ DrainFails
  BY <1>11, <1>7, <1>9
<1>12. CASE /\ ~connected \/ readyState = "CLOSED"
            /\ stop > 1 /\ UNCHANGED sentMessages /\ DrainFails
  BY <1>12, <1>8, <1>9
<1> QED BY <1>10, <1>11, <1>12, Zenon DEF DrainQueue, stop, size

\* What a drain does to the rest of the socket
LEMMA ClosedRight ==
  ASSUME CloseOK, readyState # "CLOSED", readyState' = "CLOSED", closedFirst' = closedFirst,
         closes' = closes + 1, closedFirst \in BOOLEAN
  PROVE  CloseOK'
BY DEF CloseOK

\* A drain that fails closes the socket with the code of a failure.
LEMMA FailedRight ==
  ASSUME CloseOK, DrainFails, closedFirst' = closedFirst, closedFirst \in BOOLEAN
  PROVE  CloseOK'
BY DEF CloseOK, DrainFails, Told

\* send() and the bytes of a blob, whatever the drain does
LEMMA LifeAfterDrain ==
  ASSUME LifeOK, SentOK', UNCHANGED <<connectJob, receiving, closedFirst, opens>>, ~connectJob,
         readyState # "none", accepted' \in Nat, blobs' \subseteq 1..accepted',
         \/ Unchanged /\ ~farewell
         \/ /\ readyState # "CLOSED" /\ FinishClose
            /\ Len(sentMessages') = accepted'
         \/ DrainFails /\ ~farewell
  PROVE  LifeOK'
<1>1. CASE Unchanged /\ ~farewell
  BY <1>1 DEF LifeOK, SwitchesOK, Unchanged, States
<1>2. CASE readyState # "CLOSED" /\ FinishClose /\ Len(sentMessages') = accepted'
  BY <1>2 DEF LifeOK, SwitchesOK, FinishClose, States
<1>3. CASE DrainFails /\ ~farewell
  BY <1>3 DEF LifeOK, SwitchesOK, DrainFails, States
<1> QED BY <1>1, <1>2, <1>3

\* A close frame is told once, however the drain ends.
LEMMA CloseAfterDrain ==
  ASSUME CloseOK, closedFirst' = closedFirst, closedFirst \in BOOLEAN,
         \/ Unchanged
         \/ readyState # "CLOSED" /\ FinishClose
         \/ DrainFails
  PROVE  CloseOK'
<1>1. CASE Unchanged
  BY <1>1 DEF CloseOK, Unchanged
<1>2. CASE readyState # "CLOSED" /\ FinishClose
  BY <1>2, ClosedRight DEF FinishClose
<1>3. CASE DrainFails
  BY <1>3, FailedRight
<1> QED BY <1>1, <1>2, <1>3

\* send(): the message waits, or goes out with what follows it.
LEMMA SendMessageStep == SocketIInv /\ SendMessage => SocketIInv'
<1> SUFFICES ASSUME SocketIInv, SendMessage PROVE SocketIInv'
  OBVIOUS
<1> USE MessagesAssumption
<1> DEFINE n == Len(sentMessages)
<1>1. /\ readyState = "OPEN" /\ accepted < Messages /\ accepted' = accepted + 1
      /\ blobs' \in {blobs, blobs \cup {accepted + 1}}
      /\ UNCHANGED <<connectJob, receiving, closedFirst, opens>>
      /\ accepted \in Nat /\ accepted' \in 0..Messages /\ closedFirst \in BOOLEAN
  BY DEF SendMessage, SocketIInv, SentOK, LifeOK, SwitchesOK
<1>2. ~connectJob /\ readyState # "none" /\ ~farewell /\ blobs' \subseteq 1..accepted'
  BY <1>1 DEF SocketIInv, LifeOK, SwitchesOK
<1>3. CASE Busy
  <2>1. /\ sendQueue' = Append(sendQueue, accepted + 1)
        /\ UNCHANGED <<reading, sentMessages>> /\ Unchanged
    BY <1>3 DEF SendMessage, Unchanged
  <2>2. n \in Nat /\ n <= accepted /\ reading \in Nat /\ reading # 0 /\ accepted - reading \in Int
    BY <1>3, <1>1 DEF SocketIInv, SentOK, QueueOK, Busy
  <2>3. SentOK'
    BY <1>1, <2>1, <2>2 DEF SocketIInv, SentOK
  <2>4. QueueOK'
    <3>1. /\ sendQueue \in Seq(Nat) /\ Len(sendQueue) = accepted - reading
          /\ \A k \in 1..Len(sendQueue) : sendQueue[k] = reading + k
          /\ reading = n + 1 /\ reading <= accepted
      BY <2>2, <1>1 DEF SocketIInv, QueueOK
    <3>2. /\ sendQueue' \in Seq(Nat) /\ Len(sendQueue') = Len(sendQueue) + 1
          /\ \A k \in 1..Len(sendQueue) : sendQueue'[k] = sendQueue[k]
          /\ sendQueue'[Len(sendQueue) + 1] = accepted + 1
      BY <2>1, <3>1, <1>1
    <3>3. Len(sendQueue') = accepted' - reading'
      BY <3>1, <3>2, <2>1, <2>2, <1>1
    <3>4. ASSUME NEW k \in 1..Len(sendQueue') PROVE sendQueue'[k] = reading' + k
      <4>1. Len(sendQueue) \in Nat
        BY <3>1
      <4>2. CASE k \in 1..Len(sendQueue)
        BY <4>2, <3>1, <3>2, <2>1
      <4>3. CASE k = Len(sendQueue) + 1
        BY <4>3, <3>1, <3>2, <2>1, <2>2, <1>1
      <4> QED BY <4>1, <4>2, <4>3, <3>2
    <3>5. reading' \in 0..accepted'
      BY <2>1, <2>2, <3>1, <1>1
    <3> QED BY <3>1, <3>2, <3>3, <3>4, <3>5, <2>1, <2>2 DEF QueueOK
  <2>5. LifeOK'
    BY <2>1, <2>3, <1>1, <1>2, LifeAfterDrain DEF SocketIInv
  <2>6. CloseOK'
    BY <2>1, <1>1, CloseAfterDrain DEF SocketIInv
  <2> QED BY <2>3, <2>4, <2>5, <2>6 DEF SocketIInv
<1>4. CASE ~Busy
  <2>1. DrainQueue(<<accepted + 1>>, 1)
    BY <1>4 DEF SendMessage
  <2>2. reading = 0 /\ n = accepted
    BY <1>4, <1>1 DEF Busy, SocketIInv, QueueOK
  <2> DEFINE q == <<accepted + 1>>
  <2>3. q \in Seq(Nat) /\ Len(q) = 1 /\ \A k \in 1..Len(q) : q[k] = n + k
    BY <2>2, <1>1
  <2> HIDE DEF q
  <2>4. Len(q) > 0 /\ accepted' = n + Len(q)
    BY <2>2, <2>3, <1>1
  <2>5. DrainQueue(q, 1)
    BY <2>1 DEF q
  <2>6. /\ SentOK'
        /\ \/ connected /\ readyState # "CLOSED" /\ Unchanged /\ QueueOK'
           \/ /\ connected /\ readyState # "CLOSED" /\ FinishClose
              /\ QueueOK' /\ Len(sentMessages') = accepted'
           \/ DrainFails /\ QueueOK' /\ readyState' = "CLOSED"
    BY <2>3, <2>4, <2>5, <1>1, DrainKeeps DEF SocketIInv
  <2>7. LifeOK'
    BY <2>6, <1>1, <1>2, LifeAfterDrain DEF SocketIInv
  <2>8. CloseOK'
    BY <2>6, <1>1, CloseAfterDrain DEF SocketIInv
  <2> QED BY <2>6, <2>7, <2>8 DEF SocketIInv
<1> QED BY <1>3, <1>4

\* A blob is read: it goes out, or fails the socket.
LEMMA BlobReadStep == SocketIInv /\ BlobRead => SocketIInv'
<1> SUFFICES ASSUME SocketIInv, BlobRead PROVE SocketIInv'
  OBVIOUS
<1> USE MessagesAssumption
<1> DEFINE n == Len(sentMessages)
<1>1. /\ reading # 0 /\ UNCHANGED <<accepted, blobs, connectJob, receiving, closedFirst, opens>>
      /\ DrainQueue(<<reading>> \o sendQueue, 2) \/ (UNCHANGED sentMessages /\ DrainFails)
      /\ accepted \in Nat /\ accepted' \in 0..Messages /\ closedFirst \in BOOLEAN
  BY DEF BlobRead, SocketIInv, SentOK, LifeOK, SwitchesOK
<1>2. /\ n \in Nat /\ reading = n + 1 /\ reading \in 1..accepted
      /\ sendQueue \in Seq(Nat) /\ Len(sendQueue) = accepted - reading
      /\ \A k \in 1..Len(sendQueue) : sendQueue[k] = reading + k
  BY <1>1 DEF SocketIInv, SentOK, QueueOK
<1>3. n < accepted /\ accepted # 0
  BY <1>1, <1>2
<1>4. ~farewell /\ ~connectJob /\ readyState # "none" /\ blobs' \subseteq 1..accepted'
  BY <1>1, <1>2, <1>3 DEF SocketIInv, LifeOK, SwitchesOK, FreshSocket
<1>5. /\ SentOK'
      /\ \/ connected /\ readyState # "CLOSED" /\ Unchanged /\ QueueOK'
         \/ /\ connected /\ readyState # "CLOSED" /\ FinishClose
            /\ QueueOK' /\ Len(sentMessages') = accepted'
         \/ DrainFails /\ QueueOK' /\ readyState' = "CLOSED"
  <2> DEFINE q == <<reading>> \o sendQueue
  <2>1. CASE DrainQueue(q, 2)
    <3>1. q \in Seq(Nat) /\ Len(q) = 1 + Len(sendQueue) /\ q[1] = reading
          /\ \A k \in 1..1 + Len(sendQueue) : k > 1 => q[k] = sendQueue[k - 1]
      BY <1>2
    <3> HIDE DEF q
    <3>2. Len(sendQueue) \in Nat
      BY <1>2
    <3>3. ASSUME NEW k \in 1..Len(q) PROVE q[k] = n + k
      <4>1. CASE k = 1
        BY <4>1, <3>1, <1>2
      <4>2. CASE k > 1
        <5>1. k - 1 \in 1..Len(sendQueue)
          BY <4>2, <3>1, <3>2
        <5> QED BY <5>1, <4>2, <3>1, <1>2
      <4> QED BY <4>1, <4>2, <3>1, <3>2
    <3>4. Len(q) > 0 /\ accepted' = n + Len(q)
      BY <3>1, <3>2, <1>1, <1>2
    <3> QED BY <2>1, <3>1, <3>3, <3>4, <1>1, DrainKeeps DEF SocketIInv
  <2>2. CASE UNCHANGED sentMessages /\ DrainFails
    <3>1. SentOK'
      BY <2>2, <1>1 DEF SocketIInv, SentOK
    <3>2. 0 \in 0..accepted' /\ <<>> \in Seq(Nat)
      BY <1>1
    <3>3. QueueOK' /\ readyState' = "CLOSED"
      BY <2>2, <3>2 DEF DrainFails, QueueOK
    <3> QED BY <2>2, <3>1, <3>3
  <2> QED BY <2>1, <2>2, <1>1
<1>6. LifeOK'
  BY <1>1, <1>4, <1>5, LifeAfterDrain DEF SocketIInv
<1>7. CloseOK'
  BY <1>1, <1>5, CloseAfterDrain DEF SocketIInv
<1> QED BY <1>5, <1>6, <1>7 DEF SocketIInv

\* The steps that send nothing
LEMMA NothingSentStep ==
  ASSUME SocketIInv, UNCHANGED drain, readyState' = "OPEN" => readyState = "OPEN" \/ accepted = 0
  PROVE  SentOK' /\ QueueOK'
<1>1. UNCHANGED <<accepted, blobs, reading, sendQueue, sentMessages>>
  BY DEF drain
<1>2. SentOK'
  BY <1>1 DEF SocketIInv, SentOK
<1>3. accepted = 0 => Len(sentMessages) = accepted
  BY DEF SocketIInv, SentOK
<1>4. QueueOK'
  BY <1>1, <1>3 DEF SocketIInv, QueueOK
<1> QED BY <1>2, <1>4

\* connect, close() and what the peer does send nothing.
LEMMA OtherSocketSteps ==
  ASSUME SocketIInv,
         Construct \/ Connects \/ CloseSocket \/ ReceiveMessage \/ ReceiveEnd
  PROVE  SocketIInv'
<1> SUFFICES LifeOK' /\ CloseOK' /\ UNCHANGED drain
             /\ (readyState' = "OPEN" => readyState = "OPEN" \/ accepted = 0)
  BY NothingSentStep DEF SocketIInv
<1> USE DEF SocketIInv, LifeOK, CloseOK, States, drain, FreshSocket
<1>1. CASE Construct
  BY <1>1 DEF Construct, SwitchesOK
<1>2. CASE Connects
  <2>1. connectJob /\ connectJob' = FALSE /\ closedFirst' \in BOOLEAN /\ UNCHANGED <<drain, pendingClose, farewell>>
    BY <1>2 DEF Connects
  <2>2. CASE connected' /\ readyState' = "OPEN" /\ opens' = opens + 1 /\ receiving' /\ closes' = closes
    <3>1. connected' = TRUE /\ receiving' = TRUE
      BY <2>2, <1>2 DEF Connects
    <3>0. SwitchesOK'
      BY <2>1, <2>2, <3>1 DEF SwitchesOK
    <3>2. LifeOK'
      BY <2>1, <2>2, <3>0, <3>1
    <3>3. closedFirst' <=> readyState = "CLOSED"
      BY <1>2 DEF Connects
    <3>4. CloseOK'
      BY <2>1, <2>2, <3>3
    <3> QED BY <2>1, <2>2, <3>2, <3>4
  <2>3. CASE readyState' = "CLOSED" /\ closes' = closes + 1 /\ UNCHANGED <<connected, opens, receiving>>
    <3>0. SwitchesOK'
      BY <2>1, <2>3 DEF SwitchesOK
    <3>2. LifeOK'
      BY <2>1, <2>3, <3>0
    <3>3. closedFirst' <=> readyState = "CLOSED"
      BY <1>2 DEF Connects
    <3>4. CloseOK'
      BY <2>1, <2>3, <3>3
    <3> QED BY <2>1, <2>3, <3>2, <3>4
  <2> QED BY <2>2, <2>3, <1>2 DEF Connects
<1>3. CASE CloseSocket
  <2>1. reading = 0 => readyState = "CONNECTING" \/ Len(sentMessages) = accepted
    BY <1>3 DEF CloseSocket, QueueOK
  <2>2. /\ readyState \in {"CONNECTING", "OPEN"} /\ UNCHANGED <<connectJob, drain, receiving, closedFirst, opens>>
        /\ ~farewell
    BY <1>3 DEF CloseSocket
  <2>3. CASE reading # 0
    <3>1. /\ readyState' = "CLOSING" /\ pendingClose' = TRUE
          /\ UNCHANGED <<connected, farewell, closes>>
      BY <2>3, <1>3 DEF CloseSocket, Busy
    <3>2. readyState = "OPEN"
      BY <2>2, <2>3 DEF QueueOK
    <3> QED BY <2>2, <3>1, <3>2 DEF SwitchesOK
  <2>4. CASE reading = 0
    <3>1. /\ readyState' = "CLOSED" /\ ~connected' /\ ~pendingClose' /\ closes' = closes + 1
          /\ farewell' <=> (farewell \/ connected)
          /\ connected' \in BOOLEAN /\ pendingClose' \in BOOLEAN /\ farewell' \in BOOLEAN
      BY <2>4, <1>3 DEF CloseSocket, FinishClose, Busy
    <3>2. CloseOK'
      BY <2>2, <3>1
    <3>3. LifeOK'
      BY <2>1, <2>2, <2>4, <3>1 DEF SwitchesOK
    <3> QED BY <2>2, <3>1, <3>2, <3>3
  <2> QED BY <2>3, <2>4
<1>4. CASE ReceiveMessage
  BY <1>4 DEF ReceiveMessage, SwitchesOK
<1>5. CASE ReceiveEnd
  <2>1. /\ ~connectJob /\ readyState # "none" /\ ~receiving' /\ receiving' \in BOOLEAN
        /\ readyState' = "CLOSED"
        /\ UNCHANGED <<connectJob, connected, drain, pendingClose, farewell, closedFirst, opens>>
    BY <1>5 DEF ReceiveEnd
  <2>2. CloseOK'
    BY <2>1, <1>5 DEF ReceiveEnd, Told
  <2>3. LifeOK'
    BY <2>1 DEF SwitchesOK
  <2> QED BY <2>1, <2>2, <2>3
<1> QED BY <1>1, <1>2, <1>3, <1>4, <1>5

\* Every step of a WebSocket keeps the inductive invariant.
LEMMA WebSocketStep == SocketIInv /\ [WebSocketNext]_SocketVars => SocketIInv'
<1> SUFFICES ASSUME SocketIInv, [WebSocketNext]_SocketVars PROVE SocketIInv'
  OBVIOUS
<1>1. CASE SendMessage
  BY <1>1, SendMessageStep
<1>2. CASE BlobRead
  BY <1>2, BlobReadStep
<1>3. CASE Construct \/ Connects \/ CloseSocket \/ ReceiveMessage \/ ReceiveEnd
  BY <1>3, OtherSocketSteps
<1>4. CASE UNCHANGED SocketVars
  BY <1>4 DEF SocketVars, drain, SocketIInv, SentOK, QueueOK, LifeOK, CloseOK, FreshSocket, SwitchesOK
<1> QED BY <1>1, <1>2, <1>3, <1>4 DEF WebSocketNext

\* A new WebSocket satisfies the inductive invariant.
LEMMA WebSocketStarts == WebSocketInit => SocketIInv
<1> SUFFICES ASSUME WebSocketInit PROVE SocketIInv
  OBVIOUS
<1>1. <<>> \in Seq(Nat) /\ Len(<<>>) = 0
  OBVIOUS
<1>2. SentOK /\ QueueOK
  BY <1>1, MessagesAssumption DEF WebSocketInit, SentOK, QueueOK
<1>3. LifeOK
  <2>1. FreshSocket /\ SwitchesOK
    BY DEF WebSocketInit, FreshSocket, SwitchesOK
  <2> QED BY <2>1 DEF WebSocketInit, LifeOK, States
<1>4. CloseOK
  BY DEF WebSocketInit, CloseOK
<1> QED BY <1>2, <1>3, <1>4 DEF SocketIInv

\* The inductive invariant implies what the runs check.
LEMMA WebSocketImplied == SocketIInv => WebSocketInv
<1> SUFFICES ASSUME SocketIInv PROVE WebSocketInv
  OBVIOUS
<1> DEFINE n == Len(sentMessages)
<1>1. n \in Nat /\ accepted \in Nat /\ n <= accepted /\ sentMessages \in Seq(Nat)
      /\ \A k \in 1..n : sentMessages[k] = k
  BY MessagesAssumption DEF SocketIInv, SentOK
<1> HIDE DEF n
<1>2. \A k \in 1..n : sentMessages[k] \in 1..accepted
  BY <1>1
<1>3. sentMessages \in Seq(1..accepted)
  BY <1>1, <1>2 DEF n
<1>4. \A k \in 1..Len(sendQueue) : sendQueue[k] \in 1..accepted
  <2>1. CASE reading = 0
    BY <2>1 DEF SocketIInv, QueueOK
  <2>2. CASE reading # 0
    <3>1. /\ reading \in 1..accepted /\ Len(sendQueue) = accepted - reading
          /\ \A k \in 1..Len(sendQueue) : sendQueue[k] = reading + k
      BY <2>2, <1>1 DEF SocketIInv, QueueOK
    <3> QED BY <3>1, <1>1
  <2> QED BY <2>1, <2>2
<1>5. sendQueue \in Seq(1..accepted)
  <2>1. sendQueue \in Seq(Nat)
    BY DEF SocketIInv, QueueOK
  <2> QED BY <2>1, <1>1, <1>4
<1>6. closes \in 0..2
  BY DEF SocketIInv, CloseOK
<1>7. WebSocketTypeOK
  BY <1>3, <1>5, <1>6 DEF WebSocketTypeOK, SocketIInv, SentOK, QueueOK, LifeOK, SwitchesOK
<1>8. SentInOrder
  BY <1>1 DEF SentInOrder, n
<1>9. SentBeforeClose /\ ToldOnce
  BY DEF SentBeforeClose, ToldOnce, SocketIInv, LifeOK, SwitchesOK, CloseOK
<1> QED BY <1>7, <1>8, <1>9 DEF WebSocketInv

\* For any number of messages: they go out in the order of the calls of send(), each once,
\* whatever blobs are read on the way; close() comes after all of them, and is told once.
THEOREM WebSocketIsSafe == WebSocketSpec => []WebSocketInv
<1>1. WebSocketInit => SocketIInv
  BY WebSocketStarts
<1>2. SocketIInv /\ [WebSocketNext]_SocketVars => SocketIInv'
  BY WebSocketStep
<1>3. SocketIInv => WebSocketInv
  BY WebSocketImplied
<1> QED BY <1>1, <1>2, <1>3, PTL DEF WebSocketSpec

-----------------------------------------------------------------------------
(* What is posted to a port: the inductive invariant *)

\* What a port delivered and what waits are the messages it was given, in order.
PortShapes ==
    /\ DOMAIN deposited = Ports /\ DOMAIN portQueue = Ports /\ DOMAIN delivered = Ports
    /\ deposited = [p \in Ports |-> deposited[p]] /\ portQueue = [p \in Ports |-> portQueue[p]]
    /\ delivered = [p \in Ports |-> delivered[p]] /\ draining \in [Ports -> BOOLEAN]
    /\ disentangled \in BOOLEAN /\ microtasks \in Seq(Tasks)
    /\ activeDrain \in {"none"} \cup Ports /\ told \subseteq Ports /\ threw \subseteq Ports
LinesOK == \A p \in Ports : LineOK(delivered[p], portQueue[p], deposited[p], Posts)

\* A port is drained by one microtask, the one that runs or one that waits; a listener that
\* threw leaves it marked as drained for good.
DrainWaits(p, k) == k \in 1..Len(microtasks) /\ microtasks[k] = <<"drain", p>>
PortDrainOK(p) ==
    /\ draining[p] <=> p \in threw \/ activeDrain = p \/ \E k \in Nat : DrainWaits(p, k)
    /\ p \in threw => activeDrain # p
    /\ p \in threw \/ activeDrain = p => \A k \in Nat : ~DrainWaits(p, k)
    /\ \A k, l \in Nat : DrainWaits(p, k) /\ DrainWaits(p, l) => k = l
    /\ ~draining[p] => portQueue[p] = <<>>
DrainingOK == \A p \in Ports : PortDrainOK(p)

\* The microtask of close() is the last there is.
ClosingOK ==
    /\ \A k \in 1..Len(microtasks) :
          microtasks[k][1] = "close" => disentangled /\ k = Len(microtasks)
    /\ told # {} => disentangled /\ microtasks = <<>> /\ activeDrain = "none"

PortsIInv == PortShapes /\ LinesOK /\ DrainingOK /\ ClosingOK

\* The microtasks after one more, and after the first of them
LEMMA TasksAppended ==
  ASSUME microtasks \in Seq(Tasks), NEW t \in Tasks, microtasks' = Append(microtasks, t)
  PROVE  /\ microtasks' \in Seq(Tasks) /\ Len(microtasks') = Len(microtasks) + 1
         /\ Len(microtasks) \in Nat
         /\ microtasks'[Len(microtasks) + 1] = t
         /\ \A k \in 1..Len(microtasks) : microtasks'[k] = microtasks[k]
OBVIOUS

\* The microtask that runs leaves the queue.
LEMMA TasksPopped ==
  ASSUME microtasks \in Seq(Tasks), microtasks # <<>>, microtasks' = Tail(microtasks)
  PROVE  /\ microtasks' \in Seq(Tasks) /\ Len(microtasks') = Len(microtasks) - 1
         /\ Len(microtasks) \in Nat \ {0} /\ Head(microtasks) = microtasks[1]
         /\ \A k \in 1..Len(microtasks) - 1 : microtasks'[k] = microtasks[k + 1]
OBVIOUS

\* postMessage() deposits the message at the other port, or drops it at a closed one.
LEMMA PostStep == ASSUME PortsIInv, NEW p \in Ports, Post(p) PROVE PortsIInv'
<1> USE PortsAssumption
<1>1. /\ ~disentangled /\ deposited[p] < Posts
      /\ deposited' = [deposited EXCEPT ![p] = @ + 1]
      /\ portQueue' = [portQueue EXCEPT ![p] = Append(@, deposited'[p])]
      /\ Deposit(p)
      /\ UNCHANGED <<disentangled, activeDrain, delivered, told, threw>>
  BY DEF Post
<1>2. PortShapes /\ LinesOK /\ DrainingOK /\ ClosingOK
  BY DEF PortsIInv
<1>3. deposited'[p] = deposited[p] + 1 /\ portQueue'[p] = Append(portQueue[p], deposited[p] + 1)
      /\ \A q \in Ports : q # p => deposited'[q] = deposited[q] /\ portQueue'[q] = portQueue[q]
  BY <1>1, <1>2 DEF PortShapes
<1>4. LinesOK'
  <2>1. ASSUME NEW q \in Ports PROVE LineOK(delivered[q], portQueue'[q], deposited'[q], Posts)
    <3>1. LineOK(delivered[q], portQueue[q], deposited[q], Posts)
      BY <1>2 DEF LinesOK
    <3>2. CASE q = p
      BY <3>1, <3>2, <1>1, <1>3, LinePosted
    <3>3. CASE q # p
      BY <3>1, <3>3, <1>3
    <3> QED BY <3>2, <3>3
  <2> QED BY <2>1, <1>1 DEF LinesOK
<1>5. CASE draining[p]
  <2>1. UNCHANGED <<draining, microtasks>>
    BY <1>1, <1>5 DEF Deposit
  <2>2. PortShapes' /\ ClosingOK'
    BY <2>1, <1>1, <1>2 DEF PortShapes, ClosingOK
  <2>3. ASSUME NEW q \in Ports PROVE PortDrainOK(q)'
    <3>1. PortDrainOK(q) /\ (~draining[q] => q # p)
      BY <1>2, <1>5 DEF DrainingOK
    <3> QED BY <3>1, <2>1, <1>1, <1>3 DEF PortDrainOK, DrainWaits
  <2> QED BY <2>2, <2>3, <1>4 DEF PortsIInv, DrainingOK
<1>6. CASE ~draining[p]
  <2> DEFINE n == Len(microtasks)
             t == <<"drain", p>>
  <2>1. draining' = [draining EXCEPT ![p] = TRUE] /\ microtasks' = Append(microtasks, t)
    BY <1>1, <1>6 DEF Deposit, Enqueue
  <2>2. t \in Tasks /\ t[1] = "drain"
    BY DEF Tasks
  <2>3. /\ microtasks' \in Seq(Tasks) /\ Len(microtasks') = n + 1 /\ n \in Nat
        /\ microtasks'[n + 1] = t /\ \A k \in 1..n : microtasks'[k] = microtasks[k]
    BY <2>1, <2>2, <1>2, TasksAppended DEF PortShapes
  <2> HIDE DEF n
  <2>4. PortShapes'
    BY <2>1, <2>3, <1>1, <1>2 DEF PortShapes
  <2>5. ClosingOK'
    <3>1. told = {} /\ \A k \in 1..n : microtasks[k][1] # "close"
      BY <1>1, <1>2 DEF ClosingOK, n
    <3>2. \A k \in 1..n + 1 : microtasks'[k][1] # "close"
      BY <3>1, <2>2, <2>3
    <3> QED BY <3>1, <3>2, <2>3, <1>1 DEF ClosingOK
  <2>6. ASSUME NEW q \in Ports PROVE PortDrainOK(q)'
    <3>1. PortDrainOK(q) /\ PortDrainOK(p)
      BY <1>2 DEF DrainingOK
    <3>2. \A k \in Nat : DrainWaits(q, k)' <=> DrainWaits(q, k) \/ (q = p /\ k = n + 1)
      BY <2>3 DEF DrainWaits, n
    <3>3. ~DrainWaits(p, n + 1) /\ (~\E k \in Nat : DrainWaits(p, k)) /\ p \notin threw /\ activeDrain # p
      BY <3>1, <1>6, <2>3 DEF PortDrainOK, n
    <3>4. draining'[p] = TRUE /\ \A r \in Ports : r # p => draining'[r] = draining[r]
      BY <2>1, <1>2 DEF PortShapes
    <3>5. CASE q = p
      <4>1. \A k \in Nat : DrainWaits(p, k)' <=> k = n + 1
        BY <3>2, <3>3, <3>5
      <4>2. n + 1 \in Nat
        BY <2>3
      <4>3. draining'[p] = TRUE /\ threw' = threw /\ activeDrain' = activeDrain
        BY <3>4, <1>1
      <4> HIDE DEF t
      <4>4. PortDrainOK(p)'
        BY <4>1, <4>2, <4>3, <3>3 DEF PortDrainOK
      <4> QED BY <4>4, <3>5
    <3>6. CASE q # p
      BY <3>1, <3>2, <3>4, <3>6, <1>1, <1>3 DEF PortDrainOK
    <3> QED BY <3>5, <3>6
  <2> QED BY <2>4, <2>5, <2>6, <1>4 DEF PortsIInv, DrainingOK
<1> QED BY <1>5, <1>6

\* close(): neither port takes another message, and what waits stays.
LEMMA ClosePortStep == ASSUME PortsIInv, NEW p \in Ports, ClosePort(p) PROVE PortsIInv'
<1> DEFINE n == Len(microtasks)
           t == <<"close", p>>
<1>1. /\ ~disentangled /\ disentangled' = TRUE /\ microtasks' = Append(microtasks, t)
      /\ UNCHANGED <<deposited, portQueue, draining, activeDrain, delivered, told, threw>>
  BY DEF ClosePort, Enqueue
<1>2. PortShapes /\ LinesOK /\ DrainingOK /\ ClosingOK
  BY DEF PortsIInv
<1>3. t \in Tasks /\ t[1] = "close" /\ \A q \in Ports : t # <<"drain", q>>
  BY DEF Tasks
<1>4. /\ microtasks' \in Seq(Tasks) /\ Len(microtasks') = n + 1 /\ n \in Nat
      /\ microtasks'[n + 1] = t /\ \A k \in 1..n : microtasks'[k] = microtasks[k]
  BY <1>1, <1>2, <1>3, TasksAppended DEF PortShapes
<1> HIDE DEF n, t
<1>5. PortShapes' /\ LinesOK'
  BY <1>1, <1>2, <1>4 DEF PortShapes, LinesOK
<1>6. ClosingOK'
  <2>1. told = {} /\ \A k \in 1..n : microtasks[k][1] # "close"
    BY <1>1, <1>2 DEF ClosingOK, n
  <2>2. \A k \in 1..n + 1 : microtasks'[k][1] = "close" => k = n + 1
    BY <2>1, <1>4
  <2> QED BY <2>1, <2>2, <1>1, <1>4 DEF ClosingOK
<1>7. ASSUME NEW q \in Ports PROVE PortDrainOK(q)'
  <2>1. PortDrainOK(q)
    BY <1>2 DEF DrainingOK
  <2>2. \A k \in Nat : DrainWaits(q, k)' <=> DrainWaits(q, k)
    BY <1>3, <1>4 DEF DrainWaits, n
  <2> QED BY <2>1, <2>2, <1>1 DEF PortDrainOK
<1> QED BY <1>5, <1>6, <1>7 DEF PortsIInv, DrainingOK

\* A drain starts at a port that is still there.
LEMMA StartDrainStep == ASSUME PortsIInv, StartDrain PROVE PortsIInv'
<1> USE PortsAssumption
<1> DEFINE n == Len(microtasks)
           p == Head(microtasks)[2]
<1>1. /\ activeDrain = "none" /\ microtasks # <<>> /\ Head(microtasks)[1] = "drain"
      /\ activeDrain' = p /\ microtasks' = Tail(microtasks)
      /\ UNCHANGED <<deposited, portQueue, draining, disentangled, delivered, told, threw>>
  BY DEF StartDrain
<1>2. PortShapes /\ LinesOK /\ DrainingOK /\ ClosingOK
  BY DEF PortsIInv
<1>3. /\ microtasks' \in Seq(Tasks) /\ Len(microtasks') = n - 1 /\ n \in Nat \ {0}
      /\ Head(microtasks) = microtasks[1]
      /\ \A k \in 1..n - 1 : microtasks'[k] = microtasks[k + 1]
  BY <1>1, <1>2, TasksPopped DEF PortShapes
<1>4. p \in Ports /\ microtasks[1] = <<"drain", p>>
  <2>1. microtasks[1] \in Tasks
    BY <1>2, <1>3 DEF PortShapes
  <2> QED BY <2>1, <1>1, <1>3 DEF Tasks
<1> HIDE DEF n, p
<1>5. PortShapes' /\ LinesOK'
  BY <1>1, <1>2, <1>3, <1>4 DEF PortShapes, LinesOK
<1>6. ClosingOK'
  <2>1. told = {}
    BY <1>1, <1>2 DEF ClosingOK
  <2>2. \A k \in 1..n : microtasks[k][1] = "close" => disentangled /\ k = n
    BY <1>2 DEF ClosingOK, n
  <2>3. \A k \in 1..n - 1 : microtasks'[k][1] = "close" => disentangled /\ k = n - 1
    <3>1. TAKE k \in 1..n - 1
    <3>2. k + 1 \in 1..n /\ (k + 1 = n => k = n - 1)
      BY <1>3
    <3> QED BY <3>2, <2>2, <1>3
  <2> QED BY <2>1, <2>3, <1>1, <1>3 DEF ClosingOK
<1>7. ASSUME NEW q \in Ports PROVE PortDrainOK(q)'
  <2>1. PortDrainOK(q)
    BY <1>2 DEF DrainingOK
  <2>2. \A k \in Nat : DrainWaits(q, k)' <=> DrainWaits(q, k + 1) /\ k # 0
    BY <1>3 DEF DrainWaits, n
  <2>3. DrainWaits(q, 1) <=> q = p
    BY <1>3, <1>4 DEF DrainWaits, n
  <2>4. ~DrainWaits(q, 0)
    BY DEF DrainWaits
  <2>5. \A k \in Nat : k # 0 => k - 1 \in Nat /\ (k - 1) + 1 = k
    OBVIOUS
  <2>6. (\E k \in Nat : DrainWaits(q, k)) <=> q = p \/ \E k \in Nat : DrainWaits(q, k)'
    <3>1. ASSUME NEW k \in Nat, DrainWaits(q, k), q # p PROVE \E l \in Nat : DrainWaits(q, l)'
      <4>1. k # 0 /\ k # 1
        BY <3>1, <2>3, <2>4
      <4>2. k - 1 \in Nat /\ k - 1 # 0 /\ (k - 1) + 1 = k
        BY <4>1
      <4>3. DrainWaits(q, k - 1)'
        BY <4>2, <3>1, <2>2
      <4> QED BY <4>2, <4>3
    <3>2. ASSUME NEW k \in Nat, DrainWaits(q, k)' PROVE \E l \in Nat : DrainWaits(q, l)
      BY <3>2, <2>2
    <3> QED BY <3>1, <3>2, <2>3
  <2>7. q = p => \A k \in Nat : ~DrainWaits(q, k)'
    BY <2>1, <2>2, <2>3 DEF PortDrainOK
  <2>8. \A k, l \in Nat : DrainWaits(q, k)' /\ DrainWaits(q, l)' => k = l
    BY <2>1, <2>2 DEF PortDrainOK
  <2>9. q \in threw => \A k \in Nat : ~DrainWaits(q, k)
    BY <2>1 DEF PortDrainOK
  <2>10. activeDrain # q
    BY <1>1 DEF Ports
  <2>11. q \in threw => q # p /\ \A k \in Nat : ~DrainWaits(q, k)'
    BY <2>9, <2>3, <2>2
  <2> QED BY <2>1, <2>6, <2>7, <2>8, <2>10, <2>11, <1>1 DEF PortDrainOK
<1> QED BY <1>5, <1>6, <1>7 DEF PortsIInv, DrainingOK

\* The drain hands a message to the port's listener.
LEMMA DeliverStep == ASSUME PortsIInv, Deliver PROVE PortsIInv'
<1> USE PortsAssumption
<1> DEFINE p == activeDrain
<1>1. /\ p # "none" /\ portQueue[p] # <<>>
      /\ delivered' = [delivered EXCEPT ![p] = Append(@, Head(portQueue[p]))]
      /\ portQueue' = [portQueue EXCEPT ![p] = Tail(@)]
      /\ \/ UNCHANGED <<activeDrain, threw>>
         \/ activeDrain' = "none" /\ threw' = threw \cup {p}
      /\ UNCHANGED <<deposited, draining, disentangled, microtasks, told>>
  BY DEF Deliver, First
<1>2. PortShapes /\ LinesOK /\ DrainingOK /\ ClosingOK
  BY DEF PortsIInv
<1>3. p \in Ports /\ draining[p]
  BY <1>1, <1>2 DEF PortShapes, DrainingOK, PortDrainOK
<1>4. /\ delivered'[p] = Append(delivered[p], Head(portQueue[p])) /\ portQueue'[p] = Tail(portQueue[p])
      /\ \A q \in Ports : q # p => delivered'[q] = delivered[q] /\ portQueue'[q] = portQueue[q]
  BY <1>1, <1>2, <1>3 DEF PortShapes
<1>5. LinesOK'
  <2>1. ASSUME NEW q \in Ports PROVE LineOK(delivered'[q], portQueue'[q], deposited[q], Posts)
    <3>1. LineOK(delivered[q], portQueue[q], deposited[q], Posts)
      BY <1>2 DEF LinesOK
    <3>2. CASE q = p
      BY <3>1, <3>2, <1>1, <1>4, LineDelivered
    <3>3. CASE q # p
      BY <3>1, <3>3, <1>4
    <3> QED BY <3>2, <3>3
  <2> QED BY <2>1, <1>1 DEF LinesOK
<1>6. PortShapes' /\ ClosingOK'
  BY <1>1, <1>2, <1>3 DEF PortShapes, ClosingOK
<1>7. ASSUME NEW q \in Ports PROVE PortDrainOK(q)'
  <2>1. PortDrainOK(q) /\ PortDrainOK(p)
    BY <1>2, <1>3 DEF DrainingOK
  <2>2. \A k \in Nat : DrainWaits(q, k)' <=> DrainWaits(q, k)
    BY <1>1 DEF DrainWaits
  <2>3. CASE q = p
    <3>1. \A k \in Nat : ~DrainWaits(q, k)
      BY <2>1, <2>3 DEF PortDrainOK
    <3>2. p \in threw' \/ activeDrain' = p
      BY <1>1
    <3>3. p \in threw' => activeDrain' # p
      BY <1>1, <1>3, <2>1 DEF PortDrainOK
    <3> QED BY <2>2, <2>3, <3>1, <3>2, <3>3, <1>1, <1>3 DEF PortDrainOK
  <2>4. CASE q # p
    <3>1. (q \in threw' <=> q \in threw) /\ activeDrain' # q /\ activeDrain # q
      BY <2>4, <1>1 DEF Ports
    <3> QED BY <2>1, <2>2, <2>4, <3>1, <1>1, <1>4 DEF PortDrainOK
  <2> QED BY <2>3, <2>4
<1> QED BY <1>5, <1>6, <1>7 DEF PortsIInv, DrainingOK

\* The drain ends with nothing left to hand out.
LEMMA EndDrainStep == ASSUME PortsIInv, EndDrain PROVE PortsIInv'
<1> USE PortsAssumption
<1> DEFINE p == activeDrain
<1>1. /\ p # "none" /\ portQueue[p] = <<>>
      /\ draining' = [draining EXCEPT ![p] = FALSE] /\ activeDrain' = "none"
      /\ UNCHANGED <<deposited, portQueue, disentangled, microtasks, delivered, told, threw>>
  BY DEF EndDrain, IsDrained
<1>2. PortShapes /\ LinesOK /\ DrainingOK /\ ClosingOK
  BY DEF PortsIInv
<1>3. p \in Ports
  BY <1>1, <1>2 DEF PortShapes
<1>4. draining'[p] = FALSE /\ \A q \in Ports : q # p => draining'[q] = draining[q]
  BY <1>1, <1>2, <1>3 DEF PortShapes
<1>5. PortShapes' /\ LinesOK' /\ ClosingOK'
  BY <1>1, <1>2, <1>3 DEF PortShapes, LinesOK, ClosingOK
<1>6. ASSUME NEW q \in Ports PROVE PortDrainOK(q)'
  <2>1. PortDrainOK(q)
    BY <1>2 DEF DrainingOK
  <2>2. \A k \in Nat : DrainWaits(q, k)' <=> DrainWaits(q, k)
    BY <1>1 DEF DrainWaits
  <2>3. CASE q = p
    BY <2>1, <2>2, <2>3, <1>1, <1>4 DEF PortDrainOK
  <2>4. CASE q # p
    BY <2>1, <2>2, <2>4, <1>1, <1>4 DEF PortDrainOK, Ports
  <2> QED BY <2>3, <2>4
<1> QED BY <1>5, <1>6 DEF PortsIInv, DrainingOK

\* 'close' is dispatched at the port.
LEMMA TellClosedStep == ASSUME PortsIInv, TellClosed PROVE PortsIInv'
<1> USE PortsAssumption
<1> DEFINE n == Len(microtasks)
           p == Head(microtasks)[2]
<1>1. /\ activeDrain = "none" /\ microtasks # <<>> /\ Head(microtasks)[1] = "close"
      /\ told' = told \cup {p} \/ told' = told \cup {p, Other(p)}
      /\ microtasks' = Tail(microtasks)
      /\ UNCHANGED <<deposited, portQueue, draining, disentangled, activeDrain, delivered, threw>>
  BY DEF TellClosed
<1>2. PortShapes /\ LinesOK /\ DrainingOK /\ ClosingOK
  BY DEF PortsIInv
<1>3. /\ microtasks' \in Seq(Tasks) /\ Len(microtasks') = n - 1 /\ n \in Nat \ {0}
      /\ Head(microtasks) = microtasks[1]
  BY <1>1, <1>2, TasksPopped DEF PortShapes
<1>4. p \in Ports /\ Other(p) \in Ports /\ microtasks[1][1] = "close"
  <2>1. microtasks[1] \in Tasks
    BY <1>2, <1>3 DEF PortShapes
  <2> QED BY <2>1, <1>1, <1>3 DEF Tasks, Other, Ports
<1>5. disentangled /\ n = 1
  BY <1>2, <1>3, <1>4 DEF ClosingOK
<1>6. microtasks' = <<>>
  BY <1>3, <1>5
<1> HIDE DEF n, p
<1>7. PortShapes' /\ LinesOK' /\ ClosingOK'
  BY <1>1, <1>2, <1>4, <1>5, <1>6 DEF PortShapes, LinesOK, ClosingOK
<1>8. ASSUME NEW q \in Ports PROVE PortDrainOK(q)'
  <2>1. PortDrainOK(q)
    BY <1>2 DEF DrainingOK
  <2>2. microtasks[1] # <<"drain", q>>
    BY <1>4
  <2>3. \A k \in Nat : ~DrainWaits(q, k)' /\ ~DrainWaits(q, k)
    BY <2>2, <1>5, <1>6 DEF DrainWaits, n
  <2> QED BY <2>1, <2>3, <1>1 DEF PortDrainOK
<1> QED BY <1>7, <1>8 DEF PortsIInv, DrainingOK

\* Two new ports satisfy the inductive invariant.
LEMMA PortsStart == PortsInit => PortsIInv
<1> SUFFICES ASSUME PortsInit PROVE PortsIInv
  OBVIOUS
<1> USE PortsAssumption
<1>0. <<>> \in Seq(Tasks) /\ Len(<<>>) = 0
  OBVIOUS
<1>1. PortShapes /\ ClosingOK
  <2>1. PortShapes
    <3>1. /\ DOMAIN deposited = Ports /\ DOMAIN portQueue = Ports /\ DOMAIN delivered = Ports
          /\ deposited = [p \in Ports |-> deposited[p]] /\ portQueue = [p \in Ports |-> portQueue[p]]
          /\ delivered = [p \in Ports |-> delivered[p]]
      BY Zenon DEF PortsInit
    <3>2. draining \in [Ports -> BOOLEAN]
      BY DEF PortsInit
    <3>3. /\ disentangled \in BOOLEAN /\ activeDrain \in {"none"} \cup Ports
          /\ told \subseteq Ports /\ threw \subseteq Ports
      BY DEF PortsInit
    <3>4. microtasks \in Seq(Tasks)
      BY <1>0 DEF PortsInit
    <3> QED BY <3>1, <3>2, <3>3, <3>4 DEF PortShapes
  <2>2. ClosingOK
    BY <1>0 DEF PortsInit, ClosingOK
  <2> QED BY <2>1, <2>2
<1>2. LinesOK
  BY DEF PortsInit, LinesOK, LineOK
<1>3. DrainingOK
  BY DEF PortsInit, DrainingOK, PortDrainOK, DrainWaits, Ports
<1> QED BY <1>1, <1>2, <1>3 DEF PortsIInv

\* Every step of two ports keeps the inductive invariant.
LEMMA PortsStep == PortsIInv /\ [PortsNext]_PortVars => PortsIInv'
<1> SUFFICES ASSUME PortsIInv, [PortsNext]_PortVars PROVE PortsIInv'
  OBVIOUS
<1>1. ASSUME NEW p \in Ports, Post(p) PROVE PortsIInv'
  BY <1>1, PostStep
<1>2. ASSUME NEW p \in Ports, ClosePort(p) PROVE PortsIInv'
  BY <1>2, ClosePortStep
<1>3. CASE StartDrain
  BY <1>3, StartDrainStep
<1>4. CASE Deliver
  BY <1>4, DeliverStep
<1>5. CASE EndDrain
  BY <1>5, EndDrainStep
<1>6. CASE TellClosed
  BY <1>6, TellClosedStep
<1>7. CASE UNCHANGED PortVars
  BY <1>7 DEF PortVars, PortsIInv, PortShapes, LinesOK, DrainingOK, PortDrainOK, DrainWaits, ClosingOK
<1> QED BY <1>1, <1>2, <1>3, <1>4, <1>5, <1>6, <1>7 DEF PortsNext, RunMicrotasks

\* The inductive invariant implies what the runs check.
LEMMA PortsImplied == PortsIInv => PortsInv
<1> SUFFICES ASSUME PortsIInv PROVE PortsInv
  OBVIOUS
<1> USE PortsAssumption
<1>1. PortShapes /\ LinesOK /\ DrainingOK /\ ClosingOK
  BY DEF PortsIInv
<1>2. \A p \in Ports : /\ LineOK(delivered[p], portQueue[p], deposited[p], Posts)
                       /\ deposited[p] \in 0..Posts
                       /\ delivered[p] \in Seq(1..Posts) /\ portQueue[p] \in Seq(1..Posts)
  BY <1>1, LineInBounds DEF LinesOK, LineOK
<1>3. ASSUME NEW p \in Ports
      PROVE  <<"drain", p>> \in ToSet(microtasks) <=> \E k \in Nat : DrainWaits(p, k)
  <2> DEFINE t == <<"drain", p>>
             n == Len(microtasks)
  <2>1. n \in Nat /\ DOMAIN microtasks = 1..n
    BY <1>1 DEF PortShapes
  <2>2. t \in ToSet(microtasks) <=> \E k \in 1..n : microtasks[k] = t
    BY <2>1 DEF ToSet
  <2> HIDE DEF n, t
  <2>3. \A k \in 1..n : k \in Nat
    BY <2>1
  <2> QED BY <2>2, <2>3 DEF DrainWaits, n, t
<1>4. PortsTypeOK
  <2>1. deposited \in [Ports -> 0..Posts] /\ portQueue \in [Ports -> Seq(1..Posts)]
        /\ delivered \in [Ports -> Seq(1..Posts)]
    BY <1>1, <1>2 DEF PortShapes
  <2>2. \A p \in Ports : draining[p] <=>
            p \in threw \/ activeDrain = p \/ <<"drain", p>> \in ToSet(microtasks)
    BY <1>1, <1>3 DEF DrainingOK, PortDrainOK
  <2> QED BY <2>1, <2>2, <1>1 DEF PortsTypeOK, PortShapes
<1>5. DeliveredInOrder
  <2>1. ASSUME NEW p \in Ports PROVE delivered[p] = [k \in 1..Len(delivered[p]) |-> k]
    <3>1. delivered[p] \in Seq(Nat) /\ \A k \in 1..Len(delivered[p]) : delivered[p][k] = k
      BY <1>2 DEF LineOK
    <3> QED BY <3>1
  <2> QED BY <2>1 DEF DeliveredInOrder
<1>6. DrainedBeforeClose
  <2>1. SUFFICES ASSUME told # {}, NEW p \in Ports \ threw
                 PROVE  Len(delivered[p]) = deposited[p]
    BY DEF DrainedBeforeClose
  <2>2. microtasks = <<>> /\ activeDrain = "none"
    BY <2>1, <1>1 DEF ClosingOK
  <2>3. portQueue[p] = <<>>
    BY <2>2, <1>1 DEF DrainingOK, PortDrainOK, DrainWaits, Ports
  <2>4. LineOK(delivered[p], portQueue[p], deposited[p], Posts)
    BY <1>2
  <2> DEFINE n == Len(delivered[p])
  <2>5. n \in Nat /\ Len(<<>>) = 0 /\ deposited[p] = n + Len(<<>>)
    BY <2>3, <2>4 DEF LineOK
  <2> HIDE DEF n
  <2>6. deposited[p] = n
    BY <2>5
  <2> QED BY <2>6 DEF n
<1> QED BY <1>4, <1>5, <1>6 DEF PortsInv

\* For any number of messages: they are delivered in the order they were posted, and before
\* 'close' as long as no listener throws.
THEOREM PortsAreSafe == PortsSpec => []PortsInv
<1>1. PortsInit => PortsIInv
  BY PortsStart
<1>2. PortsIInv /\ [PortsNext]_PortVars => PortsIInv'
  BY PortsStep
<1>3. PortsIInv => PortsInv
  BY PortsImplied
<1> QED BY <1>1, <1>2, <1>3, PTL DEF PortsSpec

-----------------------------------------------------------------------------
(* The component stream: the inductive invariant *)

Pumps == {"unsent", "next", "item", "acking", "stopping", "closing", "failing", "abandoning",
          "done", "failed"}
PumpOver == {"done", "failed"}
NumbersOK == pumped \in 0..Items /\ returned \in 0..1 /\ pulls \in 0..Pulls
StreamFlags == guard \in BOOLEAN /\ returnCalled \in BOOLEAN
EndsOK == pump \in Pumps /\ writeTask \in {"waiting", "writing", "gone"} /\ reader \in {"open", "pulled", "dropped"}

\* What waits for the lock: the pulls in their order, each later than those that got an
\* item, and close() behind them
QueueShape == lockQueue \in Seq(Int) /\ \A j \in 1..Len(lockQueue) : lockQueue[j] \in 0..pulls
QueueOrdered == \A j, k \in 1..Len(lockQueue) : j < k => lockQueue[j] # 0 /\ (lockQueue[k] # 0 => lockQueue[j] < lockQueue[k])
OnlyPulls == ~returnCalled => \A j \in 1..Len(lockQueue) : lockQueue[j] # 0
Holder == reader = "pulled" => Len(lockQueue) > 0 /\ lockQueue[1] # 0 /\ ~returnCalled

ResultsShape ==
    /\ results \in Seq(Int \X Int)
    /\ \A k \in 1..Len(results) : results[k][1] \in 1..pulls /\ results[k][2] \in 0..pumped
Earlier == \A k \in 1..Len(results), j \in 1..Len(lockQueue) :
    results[k][2] # 0 /\ lockQueue[j] # 0 => results[k][1] < lockQueue[j]

\* The items up to the one the pump holds have been given.
HeldBack == IF pump \in {"item", "acking"} THEN pumped - 1 ELSE pumped
Delivered ==
    /\ pump \in {"item", "acking"} => pumped > 0 /\ \A k \in 1..Len(results) : results[k][2] < pumped
    /\ pump \in {"unsent", "next", "item", "acking"} /\ HeldBack > 0 =>
           \E k \in 1..Len(results) : results[k][2] = HeldBack

EarlyEnd == reader = "dropped" => returnCalled \/ writeTask = "gone"
PumpOK ==
    /\ pump = "acking" <=> writeTask = "writing"
    /\ pump = "unsent" => pumped = 0
    /\ pump \in {"unsent", "next", "item", "acking", "stopping", "failing"} => returned = 0

StreamIInv ==
    /\ NumbersOK /\ StreamFlags /\ EndsOK /\ QueueShape /\ QueueOrdered /\ OnlyPulls /\ Holder
    /\ ResultsShape /\ Earlier /\ Delivered /\ EarlyEnd /\ PumpOK
    /\ PullsInOrder /\ NoEarlyEnd /\ SourceIsReturned

\* An answer is the last one of the results.
LEMMA AnswerAdded ==
  ASSUME NEW s \in Seq(Int \X Int), NEW p \in Int, NEW i \in Int
  PROVE  /\ Append(s, <<p, i>>) \in Seq(Int \X Int) /\ Len(Append(s, <<p, i>>)) = Len(s) + 1
         /\ \A k \in 1..Len(s) : Append(s, <<p, i>>)[k] = s[k]
         /\ Append(s, <<p, i>>)[Len(s) + 1][1] = p /\ Append(s, <<p, i>>)[Len(s) + 1][2] = i
         /\ DOMAIN Append(s, <<p, i>>) = 1..(Len(s) + 1)
<1>1. <<p, i>> \in Int \X Int
  OBVIOUS
<1> DEFINE r == <<p, i>>
<1>2. r[1] = p /\ r[2] = i
  OBVIOUS
<1> HIDE DEF r
<1>3. /\ Append(s, r) \in Seq(Int \X Int) /\ Len(Append(s, r)) = Len(s) + 1
      /\ \A k \in 1..Len(s) : Append(s, r)[k] = s[k]
      /\ Append(s, r)[Len(s) + 1] = r /\ DOMAIN Append(s, r) = 1..(Len(s) + 1)
  BY <1>1 DEF r
<1> QED BY <1>2, <1>3 DEF r

\* A sequence of members of a set is a sequence over it.
LEMMA InSeq ==
  ASSUME NEW S, NEW T, NEW s \in Seq(T), \A k \in 1..Len(s) : s[k] \in S
  PROVE  s \in Seq(S)
<1>1. Len(s) \in Nat /\ s = [k \in 1..Len(s) |-> s[k]]
  OBVIOUS
<1> DEFINE n == Len(s)
<1> HIDE DEF n
<1>2. [k \in 1..n |-> s[k]] \in Seq(S)
  BY <1>1 DEF n
<1> QED BY <1>1, <1>2 DEF n

\* What joins the queue is the last of it.
LEMMA Queued ==
  ASSUME NEW s \in Seq(Int), NEW p \in Int
  PROVE  /\ Append(s, p) \in Seq(Int) /\ Len(Append(s, p)) = Len(s) + 1
         /\ \A k \in 1..Len(s) : Append(s, p)[k] = s[k]
         /\ Append(s, p)[Len(s) + 1] = p
OBVIOUS

\* What leaves the queue is the first of it.
LEMMA Unqueued ==
  ASSUME NEW s \in Seq(Int), Len(s) > 0
  PROVE  /\ Tail(s) \in Seq(Int) /\ Len(Tail(s)) = Len(s) - 1
         /\ \A k \in 1..(Len(s) - 1) : Tail(s)[k] = s[k + 1]
         /\ Head(s) = s[1]
OBVIOUS

\* PullsInOrder, by the indices of the results
LEMMA OrderByIndex ==
  ASSUME results \in Seq(Int \X Int)
  PROVE  PullsInOrder <=>
            /\ \A j, k \in 1..Len(results) : j < k /\ results[j][2] # 0 /\ results[k][2] # 0 =>
                 results[j][1] < results[k][1] /\ results[j][2] < results[k][2]
            /\ \A k \in 1..Len(results) : results[k][2] > 1 =>
                 \E j \in 1..(k - 1) : results[j][2] = results[k][2] - 1
<1>1. DOMAIN results = 1..Len(results)
  OBVIOUS
<1> QED BY <1>1 DEF PullsInOrder

\* What the results owe to the pulls: nothing that the pump's side of a step disturbs
QueueSide == QueueShape /\ QueueOrdered /\ OnlyPulls /\ Earlier

\* A step of the pump or of its write task leaves the pulls alone.
LEMMA PumpSide ==
  ASSUME StreamIInv, UNCHANGED readVars, NumbersOK', StreamFlags', EndsOK', pumped <= pumped',
         writeTask = "gone" => writeTask' = "gone", Delivered', PumpOK', SourceIsReturned'
  PROVE  StreamIInv'
<1>1. /\ QueueSide' /\ Holder' /\ PullsInOrder'
  BY DEF StreamIInv, QueueSide, QueueShape, QueueOrdered, OnlyPulls, Earlier, Holder, PullsInOrder, readVars
<1>2. NoEarlyEnd' /\ EarlyEnd'
  BY DEF StreamIInv, NoEarlyEnd, EarlyEnd, readVars
<1>3. ResultsShape'
  <2>1. ResultsShape /\ pumped \in Int /\ pumped' \in Int
    BY DEF StreamIInv, NumbersOK
  <2>2. results' = results /\ pulls' = pulls
    BY DEF readVars
  <2> QED BY <2>1, <2>2 DEF ResultsShape
<1> QED BY <1>1, <1>2, <1>3 DEF StreamIInv, QueueSide

\* The pump starts with nothing given.
LEMMA LowerStep == ASSUME StreamIInv, Lower PROVE StreamIInv'
<1> USE StreamAssumption
<1>1. /\ pump = "unsent" /\ pump' = "next" /\ guard' = TRUE
      /\ UNCHANGED <<pumped, returned, writeTask, readVars>>
  BY DEF Lower
<1>2. NumbersOK' /\ StreamFlags' /\ EndsOK' /\ pumped <= pumped'
  BY <1>1 DEF StreamIInv, NumbersOK, StreamFlags, EndsOK, Pumps, readVars
<1>3. pumped = 0
  BY <1>1 DEF StreamIInv, PumpOK
<1>4. Delivered'
  BY <1>1, <1>3 DEF Delivered, HeldBack
<1>5. PumpOK' /\ SourceIsReturned'
  BY <1>1 DEF StreamIInv, PumpOK, SourceIsReturned
<1> QED BY <1>1, <1>2, <1>4, <1>5, PumpSide

\* The source gives an item, which the pump holds, or is over.
LEMMA IteratorAnswersStep == ASSUME StreamIInv, IteratorAnswers PROVE StreamIInv'
<1> USE StreamAssumption
<1>1. /\ pump = "next" /\ UNCHANGED <<returned, writeTask, readVars>>
      /\ \/ pumped < Items /\ pumped' = pumped + 1 /\ pump' = "item" /\ guard' = guard
         \/ pump' \in PumpOver /\ guard' = FALSE /\ pumped' = pumped
  BY DEF IteratorAnswers, PumpEnds, PumpOver
<1>2. pumped \in Nat /\ ResultsShape /\ Delivered /\ NumbersOK
  BY DEF StreamIInv, NumbersOK
<1>3. NumbersOK' /\ StreamFlags' /\ EndsOK' /\ pumped <= pumped'
  <2>1. NumbersOK' /\ pumped <= pumped'
    BY <1>1, <1>2 DEF NumbersOK, readVars
  <2>2. StreamFlags' /\ EndsOK'
    BY <1>1 DEF StreamIInv, StreamFlags, EndsOK, Pumps, readVars, PumpOver
  <2> QED BY <2>1, <2>2
<1>4. Delivered'
  <2>1. CASE pump' = "item" /\ pumped' = pumped + 1
    <3>1. \A k \in 1..Len(results) : results[k][2] < pumped'
      BY <2>1, <1>2 DEF ResultsShape
    <3>2. pumped > 0 => \E k \in 1..Len(results) : results[k][2] = pumped
      BY <1>1, <1>2 DEF Delivered, HeldBack
    <3>3. pumped' - 1 = pumped /\ results' = results /\ pumped' > 0
      BY <2>1, <1>1, <1>2 DEF readVars
    <3> QED BY <2>1, <3>1, <3>2, <3>3 DEF Delivered, HeldBack
  <2>2. CASE pump' \in PumpOver
    BY <2>2 DEF Delivered, PumpOver
  <2> QED BY <2>1, <2>2, <1>1
<1>5. PumpOK' /\ SourceIsReturned'
  BY <1>1 DEF StreamIInv, PumpOK, SourceIsReturned, PumpOver
<1> QED BY <1>1, <1>3, <1>4, <1>5, PumpSide

\* The item goes to the write task, or the pump gives up.
LEMMA WriteOneStep == ASSUME StreamIInv, WriteOne PROVE StreamIInv'
<1>1. /\ pump = "item" /\ UNCHANGED <<pumped, returned, guard, readVars>>
      /\ \/ pump' = "failing" /\ writeTask' = writeTask
         \/ writeTask = "waiting" /\ pump' = "acking" /\ writeTask' = "writing"
         \/ writeTask = "gone" /\ pump' = "stopping" /\ writeTask' = writeTask
  BY DEF WriteOne
<1>2. NumbersOK' /\ StreamFlags' /\ EndsOK' /\ pumped <= pumped'
  BY <1>1, StreamAssumption DEF StreamIInv, NumbersOK, StreamFlags, EndsOK, Pumps, readVars
<1>3. Delivered'
  BY <1>1 DEF StreamIInv, Delivered, HeldBack, readVars
<1>4. PumpOK' /\ SourceIsReturned'
  BY <1>1 DEF StreamIInv, PumpOK, SourceIsReturned
<1> QED BY <1>1, <1>2, <1>3, <1>4, PumpSide

\* A pump that stops gives nothing more.
LEMMA PumpOnlyStep ==
  ASSUME StreamIInv, HungUp \/ ReturnsSource \/ SourceReturned \/ TaskEnds PROVE StreamIInv'
<1>1. UNCHANGED <<pumped, readVars>> /\ pump' \in {"stopping", "closing", "abandoning"} \cup PumpOver
  BY DEF HungUp, ReturnsSource, SourceReturned, TaskEnds, PumpEnds, PumpOver, pumpVars
<1>2. NumbersOK' /\ StreamFlags' /\ EndsOK' /\ pumped <= pumped'
  <2>1. returned' \in 0..1
    BY DEF HungUp, ReturnsSource, SourceReturned, TaskEnds, pumpVars, StreamIInv, NumbersOK, PumpOK
  <2>2. NumbersOK' /\ pumped <= pumped'
    BY <2>1, <1>1, StreamAssumption DEF readVars, StreamIInv, NumbersOK
  <2>3. StreamFlags' /\ pump' \in Pumps
    BY <1>1 DEF HungUp, ReturnsSource, SourceReturned, TaskEnds, PumpEnds, pumpVars, readVars,
       StreamIInv, StreamFlags, Pumps, PumpOver
  <2>4. writeTask' \in {"waiting", "writing", "gone"} /\ reader' = reader
    BY <1>1 DEF HungUp, ReturnsSource, SourceReturned, TaskEnds, readVars, StreamIInv, EndsOK
  <2> QED BY <2>2, <2>3, <2>4 DEF EndsOK, StreamIInv
<1>3. Delivered'
  BY <1>1 DEF Delivered, PumpOver
<1>4. PumpOK' /\ SourceIsReturned' /\ (writeTask = "gone" => writeTask' = "gone")
  BY DEF HungUp, ReturnsSource, SourceReturned, TaskEnds, PumpEnds, pumpVars, StreamIInv, NumbersOK,
     PumpOK, SourceIsReturned
<1> QED BY <1>1, <1>2, <1>3, <1>4, PumpSide

\* An answer with an item, or the end of the stream: the queue must be later than the pull.
LEMMA AnswerStep ==
  ASSUME StreamIInv, NEW p \in 1..pulls', NEW i \in 0..pumped, results' = Append(results, <<p, i>>),
         pulls <= pulls', NumbersOK', pumped' = pumped,
         i # 0 => /\ \A k \in 1..Len(results) : results[k][2] # 0 => results[k][1] < p /\ results[k][2] < i
                  /\ i > 1 => \E k \in 1..Len(results) : results[k][2] = i - 1,
         i = 0 => returnCalled' \/ writeTask' = "gone",
         returnCalled => returnCalled', writeTask = "gone" => writeTask' = "gone"
  PROVE  ResultsShape' /\ PullsInOrder' /\ NoEarlyEnd'
<1> DEFINE n == Len(results)
<1>1. /\ ResultsShape /\ results \in Seq(Int \X Int) /\ pulls \in Int /\ pulls' \in Int /\ pumped \in Int
  BY DEF StreamIInv, NumbersOK, ResultsShape
<1>2. p \in Int /\ i \in Int
  BY <1>1
<1>3. /\ results' \in Seq(Int \X Int) /\ Len(results') = n + 1 /\ DOMAIN results' = 1..(n + 1)
      /\ \A k \in 1..n : results'[k] = results[k]
      /\ results'[n + 1][1] = p /\ results'[n + 1][2] = i
  BY <1>1, <1>2, AnswerAdded
<1>4. n \in Nat /\ DOMAIN results = 1..n
  BY <1>1
<1>5. /\ \A j, k \in 1..n : j < k /\ results[j][2] # 0 /\ results[k][2] # 0 =>
           results[j][1] < results[k][1] /\ results[j][2] < results[k][2]
      /\ \A k \in 1..n : results[k][2] > 1 => \E j \in 1..(k - 1) : results[j][2] = results[k][2] - 1
  BY <1>1, OrderByIndex DEF StreamIInv
<1>6. \A k \in 1..n : results[k][1] \in 1..pulls /\ results[k][2] \in 0..pumped
  BY <1>1 DEF ResultsShape
<1>7. NoEarlyEnd
  BY DEF StreamIInv
<1> HIDE DEF n
<1>8. \A k \in 1..(n + 1) : k \in 1..n \/ k = n + 1
  BY <1>4
<1>9. ResultsShape'
  <2>1. \A k \in 1..(n + 1) : results'[k][1] \in 1..pulls' /\ results'[k][2] \in 0..pumped'
    <3>1. TAKE k \in 1..(n + 1)
    <3>2. CASE k \in 1..n
      <4>1. results[k][1] \in 1..pulls /\ results[k][2] \in 0..pumped /\ results'[k] = results[k]
        BY <3>2, <1>3, <1>6
      <4>2. results[k][1] \in 1..pulls' /\ pumped' = pumped
        BY <4>1, <1>1
      <4> QED BY <4>1, <4>2
    <3>3. CASE k = n + 1
      BY <3>3, <1>1, <1>3
    <3> QED BY <3>2, <3>3, <1>8
  <2> QED BY <2>1, <1>3 DEF ResultsShape
<1>10. PullsInOrder'
  <2>1. ASSUME NEW j \in 1..(n + 1), NEW k \in 1..(n + 1), j < k, results'[j][2] # 0, results'[k][2] # 0
        PROVE  results'[j][1] < results'[k][1] /\ results'[j][2] < results'[k][2]
    <3>1. j \in 1..n
      BY <2>1, <1>4
    <3>2. CASE k \in 1..n
      BY <3>1, <3>2, <2>1, <1>3, <1>5
    <3>3. CASE k = n + 1
      BY <3>1, <3>3, <2>1, <1>3 DEF n
    <3> QED BY <3>2, <3>3, <1>8
  <2>2. ASSUME NEW k \in 1..(n + 1), results'[k][2] > 1
        PROVE  \E j \in 1..(k - 1) : results'[j][2] = results'[k][2] - 1
    <3>1. CASE k \in 1..n
      <4>1. PICK j \in 1..(k - 1) : results[j][2] = results[k][2] - 1
        BY <3>1, <2>2, <1>3, <1>5
      <4>2. j \in 1..n
        BY <4>1, <3>1, <1>4
      <4> QED BY <4>1, <4>2, <3>1, <1>3
    <3>2. CASE k = n + 1
      <4>1. i > 1 /\ i # 0
        BY <3>2, <2>2, <1>3, <1>2
      <4>2. PICK j \in 1..n : results[j][2] = i - 1
        BY <4>1 DEF n
      <4>3. j \in 1..(k - 1)
        BY <4>2, <3>2, <1>4
      <4> QED BY <4>2, <4>3, <3>2, <1>3
    <3> QED BY <3>1, <3>2, <1>8
  <2>3. Len(results') = n + 1
    BY <1>3
  <2> QED BY <2>1, <2>2, <2>3, <1>3 DEF PullsInOrder
<1>11. NoEarlyEnd'
  <2>1. SUFFICES ASSUME NEW k \in 1..(n + 1), results'[k][2] = 0 PROVE returnCalled' \/ writeTask' = "gone"
    BY <1>3 DEF NoEarlyEnd
  <2>2. CASE k \in 1..n
    BY <2>1, <2>2, <1>3, <1>4, <1>7 DEF NoEarlyEnd
  <2>3. CASE k = n + 1
    BY <2>1, <2>3, <1>3
  <2> QED BY <2>2, <2>3, <1>8
<1> QED BY <1>9, <1>10, <1>11

\* An answer of "done" leaves what was given as it was.
LEMMA DoneKeeps ==
  ASSUME StreamIInv, NEW p \in 1..pulls', results' = Append(results, <<p, 0>>),
         pulls' \in Int, pumped' = pumped, pump' = pump
  PROVE  /\ Delivered'
         /\ \A k \in 1..Len(results') : results'[k][2] # 0 => k \in 1..Len(results) /\ results'[k] = results[k]
<1> DEFINE n == Len(results)
<1>1. /\ ResultsShape /\ results \in Seq(Int \X Int) /\ pumped \in Int /\ Delivered
  BY DEF StreamIInv, NumbersOK, ResultsShape
<1>2. /\ Len(results') = n + 1 /\ \A k \in 1..n : results'[k] = results[k]
      /\ results'[n + 1][2] = 0
  BY <1>1, AnswerAdded
<1>3. n \in Nat
  BY <1>1
<1> HIDE DEF n
<1>4. \A k \in 1..(n + 1) : k \in 1..n \/ k = n + 1
  BY <1>3
<1>5. \A k \in 1..Len(results') : results'[k][2] # 0 => k \in 1..n /\ results'[k] = results[k]
  BY <1>2, <1>4
<1>6. Delivered'
  <2>1. pump' \in {"item", "acking"} => pumped > 0 /\ \A k \in 1..Len(results') : results'[k][2] < pumped
    BY <1>1, <1>2, <1>4 DEF Delivered, n
  <2>2. HeldBack' = HeldBack
    BY DEF HeldBack
  <2>3. \A k \in 1..n : k \in 1..Len(results')
    BY <1>2, <1>3
  <2>4. pump' \in {"unsent", "next", "item", "acking"} /\ HeldBack > 0 =>
           \E k \in 1..Len(results') : results'[k][2] = HeldBack
    BY <2>3, <1>1, <1>2 DEF Delivered, n
  <2> QED BY <2>1, <2>2, <2>4 DEF Delivered
<1> QED BY <1>5, <1>6 DEF n

\* A pull, or close(), joins the queue.
LEMMA JoinsQueue ==
  ASSUME QueueSide, NumbersOK, NumbersOK', NEW p \in 0..pulls', pulls <= pulls', lockQueue' = Append(lockQueue, p),
         ~returnCalled, p # 0 => p > pulls, ~returnCalled' => p # 0, results' = results, ResultsShape
  PROVE  QueueSide' /\ Len(lockQueue') > 0 /\ (Len(lockQueue) > 0 => lockQueue'[1] = lockQueue[1])
<1> DEFINE n == Len(lockQueue)
<1>1. /\ lockQueue \in Seq(Int) /\ pulls \in Int /\ pulls' \in Int /\ p \in Int
  BY DEF QueueSide, QueueShape, NumbersOK
<1>2. /\ lockQueue' \in Seq(Int) /\ Len(lockQueue') = n + 1 /\ \A k \in 1..n : lockQueue'[k] = lockQueue[k]
      /\ lockQueue'[n + 1] = p
  BY <1>1, Queued
<1>3. n \in Nat
  BY <1>1
<1>4. /\ \A j \in 1..n : lockQueue[j] \in 0..pulls /\ lockQueue[j] # 0
      /\ \A j, k \in 1..n : j < k => lockQueue[j] < lockQueue[k]
  BY DEF QueueSide, QueueShape, QueueOrdered, OnlyPulls
<1>5. \A k \in 1..Len(results) : results[k][1] \in 1..pulls
  BY DEF ResultsShape
<1>6. \A k \in 1..Len(results), j \in 1..n : results[k][2] # 0 => results[k][1] < lockQueue[j]
  BY <1>4 DEF QueueSide, Earlier
<1> HIDE DEF n
<1>7. \A k \in 1..(n + 1) : k \in 1..n \/ k = n + 1
  BY <1>3
<1>8. QueueShape'
  <2>1. \A j \in 1..(n + 1) : lockQueue'[j] \in 0..pulls'
    BY <1>1, <1>2, <1>4, <1>7
  <2> QED BY <2>1, <1>2 DEF QueueShape
<1>9. QueueOrdered'
  <2>1. ASSUME NEW j \in 1..(n + 1), NEW k \in 1..(n + 1), j < k
        PROVE  lockQueue'[j] # 0 /\ (lockQueue'[k] # 0 => lockQueue'[j] < lockQueue'[k])
    <3>1. j \in 1..n
      BY <2>1, <1>3
    <3>2. CASE k \in 1..n
      BY <3>1, <3>2, <2>1, <1>2, <1>4
    <3>3. CASE k = n + 1
      BY <3>1, <3>3, <1>1, <1>2, <1>4
    <3> QED BY <3>2, <3>3, <1>7
  <2>2. Len(lockQueue') = n + 1
    BY <1>2
  <2> QED BY <2>1, <2>2 DEF QueueOrdered
<1>10. OnlyPulls'
  BY <1>2, <1>4, <1>7 DEF OnlyPulls
<1>11. Earlier'
  <2>1. ASSUME NEW k \in 1..Len(results), NEW j \in 1..(n + 1), results[k][2] # 0, lockQueue'[j] # 0
        PROVE  results[k][1] < lockQueue'[j]
    <3>1. CASE j \in 1..n
      BY <3>1, <2>1, <1>2, <1>6
    <3>2. CASE j = n + 1
      BY <3>2, <2>1, <1>1, <1>2, <1>5
    <3> QED BY <3>1, <3>2, <1>7
  <2> QED BY <2>1, <1>2 DEF Earlier
<1>12. Len(lockQueue') > 0 /\ (n > 0 => lockQueue'[1] = lockQueue[1])
  <2>1. n > 0 => 1 \in 1..n
    BY <1>3
  <2> QED BY <2>1, <1>2, <1>3
<1> QED BY <1>8, <1>9, <1>10, <1>11, <1>12 DEF QueueSide, n

\* The holder of the lock lets go of it; whoever follows is a later pull.
LEMMA LeavesQueue ==
  ASSUME QueueSide, NumbersOK, Len(lockQueue) > 0
  PROVE  /\ Tail(lockQueue) \in Seq(Int) /\ Len(Tail(lockQueue)) \in Nat
         /\ \A j \in 1..Len(Tail(lockQueue)) :
               /\ Tail(lockQueue)[j] \in 0..pulls
               /\ Tail(lockQueue)[j] # 0 => lockQueue[1] < Tail(lockQueue)[j]
               /\ ~returnCalled => Tail(lockQueue)[j] # 0
               /\ \A k \in 1..Len(results) : results[k][2] # 0 /\ Tail(lockQueue)[j] # 0 => results[k][1] < Tail(lockQueue)[j]
         /\ \A j, k \in 1..Len(Tail(lockQueue)) : j < k =>
               Tail(lockQueue)[j] # 0 /\ (Tail(lockQueue)[k] # 0 => Tail(lockQueue)[j] < Tail(lockQueue)[k])
<1> DEFINE n == Len(lockQueue)
           t == Tail(lockQueue)
<1>1. lockQueue \in Seq(Int) /\ n \in Nat /\ n > 0
  BY DEF QueueSide, QueueShape
<1>2. t \in Seq(Int) /\ Len(t) = n - 1 /\ \A k \in 1..(n - 1) : t[k] = lockQueue[k + 1]
  BY <1>1, Unqueued
<1>3. /\ \A j \in 1..n : lockQueue[j] \in 0..pulls /\ (~returnCalled => lockQueue[j] # 0)
      /\ \A j, k \in 1..n : j < k => lockQueue[j] # 0 /\ (lockQueue[k] # 0 => lockQueue[j] < lockQueue[k])
      /\ \A k \in 1..Len(results), j \in 1..n : results[k][2] # 0 /\ lockQueue[j] # 0 => results[k][1] < lockQueue[j]
  BY DEF QueueSide, QueueShape, QueueOrdered, OnlyPulls, Earlier
<1> HIDE DEF n, t
<1>4. ASSUME NEW j \in 1..(n - 1) PROVE j + 1 \in 1..n /\ 1 < j + 1 /\ 1 \in 1..n
  BY <1>1
<1>5. ASSUME NEW j \in 1..(n - 1)
      PROVE  /\ t[j] \in 0..pulls /\ (t[j] # 0 => lockQueue[1] < t[j]) /\ (~returnCalled => t[j] # 0)
             /\ \A k \in 1..Len(results) : results[k][2] # 0 /\ t[j] # 0 => results[k][1] < t[j]
  BY <1>2, <1>3, <1>4
<1>6. ASSUME NEW j \in 1..(n - 1), NEW k \in 1..(n - 1), j < k
      PROVE  t[j] # 0 /\ (t[k] # 0 => t[j] < t[k])
  <2>1. j + 1 < k + 1
    BY <1>1, <1>6
  <2> QED BY <2>1, <1>2, <1>3, <1>4
<1>7. Len(t) \in Nat
  BY <1>1, <1>2
<1> QED BY <1>2, <1>5, <1>6, <1>7 DEF t

\* What is left behind the holder, after an answer to it
LEMMA AfterTail ==
  ASSUME QueueSide, NumbersOK, Len(lockQueue) > 0, lockQueue' = Tail(lockQueue), pulls' = pulls,
         returnCalled' = returnCalled,
         \A k \in 1..Len(results') : results'[k][2] # 0 =>
            (k \in 1..Len(results) /\ results'[k] = results[k]) \/ results'[k][1] = lockQueue[1]
  PROVE  QueueSide'
<1> DEFINE t == Tail(lockQueue)
<1>1. /\ t \in Seq(Int)
      /\ \A j \in 1..Len(t) :
               /\ t[j] \in 0..pulls /\ (t[j] # 0 => lockQueue[1] < t[j]) /\ (~returnCalled => t[j] # 0)
               /\ \A k \in 1..Len(results) : results[k][2] # 0 /\ t[j] # 0 => results[k][1] < t[j]
      /\ \A j, k \in 1..Len(t) : j < k => t[j] # 0 /\ (t[k] # 0 => t[j] < t[k])
  BY LeavesQueue
<1>2. lockQueue' = t
  OBVIOUS
<1> HIDE DEF t
<1>3. QueueShape' /\ QueueOrdered' /\ OnlyPulls'
  BY <1>1, <1>2 DEF QueueShape, QueueOrdered, OnlyPulls
<1>4. Earlier'
  <2>1. SUFFICES ASSUME NEW k \in 1..Len(results'), NEW j \in 1..Len(t), results'[k][2] # 0, t[j] # 0
                 PROVE  results'[k][1] < t[j]
    BY <1>2 DEF Earlier
  <2>2. CASE k \in 1..Len(results) /\ results'[k] = results[k]
    BY <2>1, <2>2, <1>1
  <2>3. CASE results'[k][1] = lockQueue[1]
    BY <2>1, <2>3, <1>1
  <2> QED BY <2>1, <2>2, <2>3
<1> QED BY <1>3, <1>4 DEF QueueSide

\* What the steps use of the inductive invariant
LEMMA StreamUnpack ==
  ASSUME StreamIInv
  PROVE  /\ NumbersOK /\ StreamFlags /\ EndsOK /\ QueueSide /\ Holder /\ ResultsShape /\ Delivered
         /\ EarlyEnd /\ PumpOK /\ PullsInOrder /\ NoEarlyEnd /\ SourceIsReturned
         /\ pulls \in Int /\ Pulls \in Int /\ pumped \in Nat /\ lockQueue \in Seq(Int) /\ Len(lockQueue) \in Nat
BY StreamAssumption DEF StreamIInv, NumbersOK, QueueSide, QueueShape

\* next() joins the queue, or is answered at once.
LEMMA NextCallStep == ASSUME StreamIInv, NextCall PROVE StreamIInv'
<1>1. /\ pump # "unsent" /\ pulls < Pulls /\ pulls' = pulls + 1
      /\ IF returnCalled
         THEN results' = Append(results, <<pulls', 0>>) /\ lockQueue' = lockQueue
         ELSE lockQueue' = Append(lockQueue, pulls') /\ results' = results
      /\ UNCHANGED <<pump, pumped, returned, guard, writeTask, reader, returnCalled>>
  BY DEF NextCall, pumpVars
<1>2. /\ NumbersOK /\ StreamFlags /\ EndsOK /\ QueueSide /\ Holder /\ ResultsShape /\ Delivered
      /\ EarlyEnd /\ PumpOK /\ PullsInOrder /\ NoEarlyEnd /\ SourceIsReturned
      /\ pulls \in Int /\ Pulls \in Int /\ pumped \in Nat
  BY StreamUnpack
<1>3. NumbersOK' /\ pulls <= pulls' /\ pulls' \in Int /\ pulls' \in 1..pulls' /\ pulls' > pulls /\ pulls' # 0
  BY <1>1, <1>2 DEF NumbersOK
<1>4. StreamFlags' /\ EndsOK' /\ EarlyEnd' /\ PumpOK' /\ SourceIsReturned'
  BY <1>1, <1>2 DEF StreamFlags, EndsOK, EarlyEnd, PumpOK, SourceIsReturned
<1>5. CASE returnCalled
  <2>1. results' = Append(results, <<pulls', 0>>) /\ lockQueue' = lockQueue
    BY <1>1, <1>5
  <2>2. ResultsShape' /\ PullsInOrder' /\ NoEarlyEnd'
    BY <2>1, <1>1, <1>2, <1>3, <1>5, AnswerStep
  <2>3. /\ Delivered'
        /\ \A k \in 1..Len(results') : results'[k][2] # 0 => k \in 1..Len(results) /\ results'[k] = results[k]
    BY <2>1, <1>1, <1>3, DoneKeeps
  <2>4. QueueSide' /\ Holder'
    <3>1. QueueShape'
      BY <2>1, <1>1, <1>2 DEF QueueSide, QueueShape, NumbersOK
    <3>2. QueueOrdered' /\ OnlyPulls' /\ Holder'
      BY <2>1, <1>1, <1>2 DEF QueueSide, QueueOrdered, OnlyPulls, Holder
    <3>3. Earlier'
      BY <2>1, <2>3, <1>2 DEF QueueSide, Earlier
    <3> QED BY <3>1, <3>2, <3>3 DEF QueueSide
  <2> QED BY <2>2, <2>3, <2>4, <1>3, <1>4 DEF StreamIInv, QueueSide
<1>6. CASE ~returnCalled
  <2>1. results' = results /\ lockQueue' = Append(lockQueue, pulls')
    BY <1>1, <1>6
  <2>2. QueueSide' /\ Len(lockQueue') > 0 /\ (Len(lockQueue) > 0 => lockQueue'[1] = lockQueue[1])
    <3>1. pulls' \in 0..pulls'
      BY <1>3
    <3> QED BY <3>1, <2>1, <1>2, <1>3, <1>6, JoinsQueue
  <2>3. Holder'
    BY <2>2, <1>1, <1>2 DEF Holder
  <2>4. ResultsShape'
    BY <2>1, <1>1, <1>2 DEF ResultsShape
  <2>5. Delivered' /\ PullsInOrder' /\ NoEarlyEnd'
    BY <2>1, <1>1, <1>2 DEF Delivered, HeldBack, PullsInOrder, NoEarlyEnd
  <2> QED BY <2>2, <2>3, <2>4, <2>5, <1>3, <1>4 DEF StreamIInv, QueueSide
<1> QED BY <1>5, <1>6

\* A pull that has the lock awaits the reader, or is told of the end.
LEMMA TakesLockStep == ASSUME StreamIInv, NEW p \in 1..Pulls, TakesLock(p) PROVE StreamIInv'
<1>1. /\ lockQueue # <<>> /\ Head(lockQueue) = p /\ p # 0 /\ reader # "pulled"
      /\ UNCHANGED <<pump, pumped, returned, guard, writeTask, returnCalled, pulls>>
      /\ IF returnCalled \/ reader = "dropped"
         THEN reader' = "dropped" /\ results' = Append(results, <<p, 0>>) /\ lockQueue' = Tail(lockQueue)
         ELSE reader' = "pulled" /\ UNCHANGED <<results, lockQueue>>
  BY DEF TakesLock, HasLock, Resolves, Unlocks, pumpVars
<1>2. /\ NumbersOK /\ StreamFlags /\ EndsOK /\ QueueSide /\ Holder /\ ResultsShape /\ Delivered
      /\ EarlyEnd /\ PumpOK /\ PullsInOrder /\ NoEarlyEnd /\ SourceIsReturned
      /\ pulls \in Int /\ Pulls \in Int /\ pumped \in Nat /\ lockQueue \in Seq(Int)
  BY StreamUnpack
<1>3. Len(lockQueue) > 0 /\ Len(lockQueue) \in Nat /\ lockQueue[1] = p
  BY <1>1, <1>2
<1>4. p \in 1..pulls
  BY <1>1, <1>2, <1>3 DEF QueueSide, QueueShape
<1>5. NumbersOK' /\ StreamFlags' /\ PumpOK' /\ SourceIsReturned' /\ pulls' \in Int
  BY <1>1, <1>2 DEF NumbersOK, StreamFlags, PumpOK, SourceIsReturned
<1>6. CASE returnCalled \/ reader = "dropped"
  <2>1. reader' = "dropped" /\ results' = Append(results, <<p, 0>>) /\ lockQueue' = Tail(lockQueue)
    BY <1>1, <1>6
  <2>2. returnCalled \/ writeTask = "gone"
    BY <1>2, <1>6 DEF EarlyEnd
  <2>3. ResultsShape' /\ PullsInOrder' /\ NoEarlyEnd'
    <3>1. p \in 1..pulls' /\ 0 \in 0..pumped /\ pulls <= pulls' /\ pumped' = pumped
      BY <1>1, <1>2, <1>4
    <3>2. (returnCalled => returnCalled') /\ (writeTask = "gone" => writeTask' = "gone")
          /\ (returnCalled' \/ writeTask' = "gone")
      BY <2>2, <1>1
    <3> QED BY <3>1, <3>2, <2>1, <1>5, AnswerStep
  <2>4. /\ Delivered'
        /\ \A k \in 1..Len(results') : results'[k][2] # 0 => k \in 1..Len(results) /\ results'[k] = results[k]
    BY <2>1, <1>1, <1>4, <1>5, DoneKeeps
  <2>5. QueueSide'
    BY <2>1, <2>4, <1>1, <1>2, <1>3, AfterTail
  <2>6. EndsOK' /\ Holder' /\ EarlyEnd'
    BY <2>1, <2>2, <1>1, <1>2 DEF EndsOK, Holder, EarlyEnd
  <2> QED BY <2>3, <2>4, <2>5, <2>6, <1>5 DEF StreamIInv, QueueSide
<1>7. CASE ~returnCalled /\ reader # "dropped"
  <2>1. reader' = "pulled" /\ UNCHANGED <<results, lockQueue>>
    BY <1>1, <1>7
  <2>2. QueueSide' /\ ResultsShape' /\ Delivered' /\ PullsInOrder' /\ NoEarlyEnd'
    BY <2>1, <1>1, <1>2 DEF QueueSide, QueueShape, QueueOrdered, OnlyPulls, Earlier, ResultsShape,
       Delivered, HeldBack, PullsInOrder, NoEarlyEnd
  <2>3. EndsOK' /\ Holder' /\ EarlyEnd'
    BY <2>1, <1>1, <1>2, <1>3, <1>7 DEF EndsOK, Holder, EarlyEnd
  <2> QED BY <2>2, <2>3, <1>5 DEF StreamIInv, QueueSide
<1> QED BY <1>6, <1>7

\* The pull gets the item that the pump holds, or the end.
LEMMA ReaderAnswersStep == ASSUME StreamIInv, NEW p \in 1..Pulls, ReaderAnswers(p) PROVE StreamIInv'
<1>1. /\ lockQueue # <<>> /\ Head(lockQueue) = p /\ reader = "pulled" /\ lockQueue' = Tail(lockQueue)
      /\ UNCHANGED <<pumped, returned, guard, returnCalled, pulls>>
      /\ \/ /\ writeTask = "writing" /\ reader' = "open" /\ results' = Append(results, <<p, pumped>>)
            /\ writeTask' = "waiting" /\ pump' = "next"
         \/ /\ writeTask = "gone" /\ reader' = "dropped" /\ results' = Append(results, <<p, 0>>)
            /\ writeTask' = writeTask /\ pump' = pump
  BY DEF ReaderAnswers, HasLock, Resolves, Unlocks, pumpVars
<1>2. /\ NumbersOK /\ StreamFlags /\ EndsOK /\ QueueSide /\ Holder /\ ResultsShape /\ Delivered
      /\ EarlyEnd /\ PumpOK /\ PullsInOrder /\ NoEarlyEnd /\ SourceIsReturned
      /\ pulls \in Int /\ Pulls \in Int /\ pumped \in Nat /\ lockQueue \in Seq(Int)
  BY StreamUnpack
<1>3. Len(lockQueue) > 0 /\ Len(lockQueue) \in Nat /\ lockQueue[1] = p /\ p # 0
  BY <1>1, <1>2 DEF Holder
<1>4. p \in 1..pulls /\ p \in 1..pulls' /\ pulls <= pulls' /\ pumped' = pumped
  BY <1>1, <1>2, <1>3 DEF QueueSide, QueueShape
<1>5. NumbersOK' /\ StreamFlags' /\ pulls' \in Int /\ (returnCalled => returnCalled')
  BY <1>1, <1>2 DEF NumbersOK, StreamFlags
<1>6. CASE writeTask = "writing"
  <2>1. reader' = "open" /\ results' = Append(results, <<p, pumped>>) /\ writeTask' = "waiting" /\ pump' = "next"
    BY <1>1, <1>6
  <2>2. pump = "acking"
    BY <1>2, <1>6 DEF PumpOK
  <2>3. /\ pumped > 0 /\ \A k \in 1..Len(results) : results[k][2] < pumped
        /\ pumped > 1 => \E k \in 1..Len(results) : results[k][2] = pumped - 1
    BY <2>2, <1>2 DEF Delivered, HeldBack
  <2>4. \A k \in 1..Len(results) : results[k][2] # 0 => results[k][1] < p
    <3>1. 1 \in 1..Len(lockQueue) /\ Earlier
      BY <1>2, <1>3 DEF QueueSide
    <3> QED BY <3>1, <1>3 DEF Earlier
  <2>5. ResultsShape' /\ PullsInOrder' /\ NoEarlyEnd'
    <3>1. pumped \in 0..pumped /\ pumped # 0
      BY <2>3, <1>2
    <3>2. /\ \A k \in 1..Len(results) : results[k][2] # 0 => results[k][1] < p /\ results[k][2] < pumped
          /\ writeTask # "gone"
      BY <2>3, <2>4, <1>6
    <3> QED BY <3>1, <3>2, <2>1, <2>3, <1>4, <1>5, AnswerStep
  <2>6. /\ Len(results') = Len(results) + 1 /\ \A k \in 1..Len(results) : results'[k] = results[k]
        /\ results'[Len(results) + 1][1] = p /\ results'[Len(results) + 1][2] = pumped
    BY <2>1, <1>2, <1>4, AnswerAdded DEF ResultsShape
  <2>7. Len(results) \in Nat
    BY <1>2 DEF ResultsShape
  <2>8. Delivered'
    <3>1. Len(results) + 1 \in 1..Len(results')
      BY <2>6, <2>7
    <3> QED BY <3>1, <2>1, <2>6, <1>1 DEF Delivered, HeldBack
  <2>9. QueueSide'
    <3> DEFINE n == Len(results)
    <3>1. \A k \in 1..(n + 1) : k \in 1..n \/ k = n + 1
      BY <2>7
    <3>2. Len(results') = n + 1 /\ (\A k \in 1..n : results'[k] = results[k]) /\ results'[n + 1][1] = p
      BY <2>6
    <3>3. \A k \in 1..Len(results') : (k \in 1..n /\ results'[k] = results[k]) \/ results'[k][1] = p
      <4> HIDE DEF n
      <4> QED BY <3>1, <3>2
    <3> QED BY <3>3, <1>1, <1>2, <1>3, AfterTail
  <2>10. EndsOK' /\ Holder' /\ EarlyEnd'
    BY <2>1 DEF EndsOK, Holder, EarlyEnd, Pumps
  <2>11. PumpOK' /\ SourceIsReturned'
    BY <2>1, <2>2, <1>1, <1>2 DEF PumpOK, SourceIsReturned
  <2> QED BY <2>5, <2>8, <2>9, <2>10, <2>11, <1>5 DEF StreamIInv, QueueSide
<1>7. CASE writeTask = "gone"
  <2>1. reader' = "dropped" /\ results' = Append(results, <<p, 0>>) /\ writeTask' = writeTask /\ pump' = pump
    BY <1>1, <1>7
  <2>2. ResultsShape' /\ PullsInOrder' /\ NoEarlyEnd'
    <3>1. 0 \in 0..pumped /\ writeTask' = "gone"
      BY <2>1, <1>2, <1>7
    <3> QED BY <3>1, <2>1, <1>4, <1>5, AnswerStep
  <2>3. /\ Delivered'
        /\ \A k \in 1..Len(results') : results'[k][2] # 0 => k \in 1..Len(results) /\ results'[k] = results[k]
    BY <2>1, <1>4, <1>5, DoneKeeps
  <2>4. QueueSide'
    BY <2>3, <1>1, <1>2, <1>3, AfterTail
  <2>5. EndsOK' /\ Holder' /\ EarlyEnd'
    BY <2>1, <1>1, <1>2, <1>7 DEF EndsOK, Holder, EarlyEnd
  <2>6. PumpOK' /\ SourceIsReturned'
    BY <2>1, <1>1, <1>2 DEF PumpOK, SourceIsReturned
  <2> QED BY <2>2, <2>3, <2>4, <2>5, <2>6, <1>5 DEF StreamIInv, QueueSide
<1> QED BY <1>1, <1>6, <1>7

\* return() ends the pull under way, and waits for the lock.
LEMMA ReturnIteratorStep == ASSUME StreamIInv, ReturnIterator PROVE StreamIInv'
<1>1. /\ ~returnCalled /\ returnCalled' = TRUE
      /\ UNCHANGED <<pump, pumped, returned, guard, writeTask, pulls>>
      /\ IF reader = "pulled"
         THEN /\ reader' = "dropped" /\ results' = Append(results, <<Head(lockQueue), 0>>)
              /\ lockQueue' = Append(Tail(lockQueue), 0)
         ELSE lockQueue' = Append(lockQueue, 0) /\ UNCHANGED <<reader, results>>
  BY DEF ReturnIterator, Resolves, pumpVars
<1>2. /\ NumbersOK /\ StreamFlags /\ EndsOK /\ QueueSide /\ Holder /\ ResultsShape /\ Delivered
      /\ EarlyEnd /\ PumpOK /\ PullsInOrder /\ NoEarlyEnd /\ SourceIsReturned
      /\ pulls \in Int /\ Pulls \in Int /\ pumped \in Nat /\ lockQueue \in Seq(Int)
  BY StreamUnpack
<1>3. NumbersOK' /\ StreamFlags' /\ PumpOK' /\ SourceIsReturned' /\ pulls' \in Int /\ pulls <= pulls'
  BY <1>1, <1>2 DEF NumbersOK, StreamFlags, PumpOK, SourceIsReturned
<1>4. EndsOK' /\ Holder' /\ EarlyEnd'
  BY <1>1, <1>2 DEF EndsOK, Holder, EarlyEnd
<1>5. CASE reader = "pulled"
  <2>1. Len(lockQueue) > 0 /\ Head(lockQueue) = lockQueue[1]
    <3>1. Len(lockQueue) > 0
      BY <1>2, <1>5 DEF Holder
    <3> QED BY <3>1, <1>2, Unqueued
  <2> DEFINE p == lockQueue[1]
             t == Tail(lockQueue)
  <2>2. results' = Append(results, <<p, 0>>) /\ lockQueue' = Append(t, 0)
    BY <2>1, <1>1, <1>5
  <2>3. p \in 1..pulls /\ p \in 1..pulls'
    <3>1. 1 \in 1..Len(lockQueue)
      BY <2>1, <1>2
    <3> QED BY <3>1, <1>1, <1>2 DEF QueueSide, QueueShape, OnlyPulls
  <2>4. /\ t \in Seq(Int) /\ Len(t) \in Nat
        /\ \A j \in 1..Len(t) :
               /\ t[j] \in 0..pulls /\ t[j] # 0
               /\ \A k \in 1..Len(results) : results[k][2] # 0 => results[k][1] < t[j]
        /\ \A j, k \in 1..Len(t) : j < k => t[j] < t[k]
    <3>1. /\ t \in Seq(Int) /\ Len(t) \in Nat
          /\ \A j \in 1..Len(t) :
               /\ t[j] \in 0..pulls /\ (~returnCalled => t[j] # 0)
               /\ \A k \in 1..Len(results) : results[k][2] # 0 /\ t[j] # 0 => results[k][1] < t[j]
          /\ \A j, k \in 1..Len(t) : j < k => t[j] # 0 /\ (t[k] # 0 => t[j] < t[k])
      BY <2>1, <1>2, LeavesQueue
    <3> HIDE DEF t
    <3> QED BY <3>1, <1>1
  <2> HIDE DEF p, t
  <2>5. ResultsShape' /\ PullsInOrder' /\ NoEarlyEnd'
    <3>1. 0 \in 0..pumped /\ pumped' = pumped /\ (returnCalled => returnCalled')
          /\ (writeTask = "gone" => writeTask' = "gone")
      BY <1>1, <1>2
    <3> QED BY <3>1, <2>2, <2>3, <1>1, <1>3, AnswerStep
  <2>6. /\ Delivered'
        /\ \A k \in 1..Len(results') : results'[k][2] # 0 => k \in 1..Len(results) /\ results'[k] = results[k]
    BY <2>2, <2>3, <1>1, <1>3, DoneKeeps
  <2>7. /\ lockQueue' \in Seq(Int) /\ Len(lockQueue') = Len(t) + 1 /\ \A k \in 1..Len(t) : lockQueue'[k] = t[k]
        /\ lockQueue'[Len(t) + 1] = 0
    BY <2>2, <2>4, Queued
  <2>8. \A j \in 1..(Len(t) + 1) : j \in 1..Len(t) \/ j = Len(t) + 1
    BY <2>4
  <2>9. QueueShape'
    <3>1. 0 \in 0..pulls'
      BY <1>3 DEF NumbersOK
    <3> QED BY <3>1, <2>4, <2>7, <2>8, <1>1 DEF QueueShape
  <2>10. QueueOrdered'
    <3>1. ASSUME NEW j \in 1..(Len(t) + 1), NEW k \in 1..(Len(t) + 1), j < k
          PROVE  lockQueue'[j] # 0 /\ (lockQueue'[k] # 0 => lockQueue'[j] < lockQueue'[k])
      <4>1. j \in 1..Len(t)
        BY <3>1, <2>4
      <4> QED BY <4>1, <3>1, <2>4, <2>7, <2>8
    <3> QED BY <3>1, <2>7 DEF QueueOrdered
  <2>11. OnlyPulls'
    BY <1>1 DEF OnlyPulls
  <2>12. Earlier'
    BY <2>4, <2>6, <2>7, <2>8 DEF Earlier
  <2> QED BY <2>5, <2>6, <2>9, <2>10, <2>11, <2>12, <1>3, <1>4 DEF StreamIInv, QueueSide
<1>6. CASE reader # "pulled"
  <2>1. lockQueue' = Append(lockQueue, 0) /\ UNCHANGED <<reader, results>>
    BY <1>1, <1>6
  <2>2. QueueSide'
    <3>1. 0 \in 0..pulls'
      BY <1>3 DEF NumbersOK
    <3> QED BY <3>1, <2>1, <1>1, <1>2, <1>3, JoinsQueue
  <2>3. ResultsShape' /\ Delivered' /\ PullsInOrder' /\ NoEarlyEnd'
    BY <2>1, <1>1, <1>2 DEF ResultsShape, Delivered, HeldBack, PullsInOrder, NoEarlyEnd
  <2> QED BY <2>2, <2>3, <1>3, <1>4 DEF StreamIInv, QueueSide
<1> QED BY <1>5, <1>6

\* return() settles.
LEMMA IteratorReturnedStep == ASSUME StreamIInv, IteratorReturned PROVE StreamIInv'
<1>1. /\ lockQueue # <<>> /\ Head(lockQueue) = 0 /\ reader' = "dropped" /\ lockQueue' = Tail(lockQueue)
      /\ UNCHANGED <<pump, pumped, returned, guard, writeTask, returnCalled, pulls, results>>
  BY DEF IteratorReturned, HasLock, Unlocks, pumpVars
<1>2. /\ NumbersOK /\ StreamFlags /\ EndsOK /\ QueueSide /\ Holder /\ ResultsShape /\ Delivered
      /\ EarlyEnd /\ PumpOK /\ PullsInOrder /\ NoEarlyEnd /\ SourceIsReturned
      /\ lockQueue \in Seq(Int)
  BY StreamUnpack
<1>3. Len(lockQueue) > 0 /\ 1 \in 1..Len(lockQueue) /\ lockQueue[1] = 0
  BY <1>1, <1>2
<1>4. returnCalled
  BY <1>2, <1>3 DEF QueueSide, OnlyPulls
<1>5. QueueSide'
  BY <1>1, <1>2, <1>3, AfterTail
<1>6. /\ NumbersOK' /\ StreamFlags' /\ EndsOK' /\ Holder' /\ ResultsShape' /\ Delivered'
      /\ EarlyEnd' /\ PumpOK' /\ PullsInOrder' /\ NoEarlyEnd' /\ SourceIsReturned'
  BY <1>1, <1>2, <1>4 DEF NumbersOK, StreamFlags, EndsOK, Holder, ResultsShape, Delivered, HeldBack,
     EarlyEnd, PumpOK, PullsInOrder, NoEarlyEnd, SourceIsReturned
<1> QED BY <1>5, <1>6 DEF StreamIInv, QueueSide

\* A stream before it is lowered satisfies the inductive invariant.
LEMMA StreamStarts == StreamInit => StreamIInv
<1> SUFFICES ASSUME StreamInit PROVE StreamIInv
  OBVIOUS
<1>1. Len(lockQueue) = 0 /\ Len(results) = 0 /\ DOMAIN results = {}
      /\ lockQueue \in Seq(Int) /\ results \in Seq(Int \X Int)
  BY DEF StreamInit
<1>2. NumbersOK /\ StreamFlags /\ EndsOK /\ Holder /\ Delivered /\ EarlyEnd /\ PumpOK /\ SourceIsReturned
  <2>1. NumbersOK /\ Holder /\ EarlyEnd /\ PumpOK
    BY StreamAssumption DEF StreamInit, NumbersOK, Holder, EarlyEnd, PumpOK
  <2>2. StreamFlags /\ EndsOK /\ SourceIsReturned
    <3>1. guard = FALSE /\ returnCalled = FALSE /\ pump = "unsent" /\ writeTask = "waiting"
          /\ reader = "open" /\ returned = 0
      BY DEF StreamInit
    <3>2. StreamFlags /\ EndsOK
      BY <3>1 DEF StreamFlags, EndsOK, Pumps
    <3>3. SourceIsReturned
      BY <3>1 DEF SourceIsReturned
    <3> QED BY <3>2, <3>3
  <2>3. Delivered
    BY DEF StreamInit, Delivered, HeldBack
  <2> QED BY <2>1, <2>2, <2>3
<1>3. QueueSide /\ ResultsShape /\ PullsInOrder /\ NoEarlyEnd
  BY <1>1 DEF QueueSide, QueueShape, QueueOrdered, OnlyPulls, Earlier, ResultsShape, PullsInOrder, NoEarlyEnd
<1> QED BY <1>2, <1>3 DEF StreamIInv, QueueSide

\* Every step of a stream keeps the inductive invariant.
LEMMA StreamStep == StreamIInv /\ [StreamNext]_StreamVars => StreamIInv'
<1> SUFFICES ASSUME StreamIInv, [StreamNext]_StreamVars PROVE StreamIInv'
  OBVIOUS
<1>1. CASE Lower \/ IteratorAnswers \/ WriteOne
  BY <1>1, LowerStep, IteratorAnswersStep, WriteOneStep
<1>2. CASE HungUp \/ ReturnsSource \/ SourceReturned \/ TaskEnds
  BY <1>2, PumpOnlyStep
<1>3. CASE NextCall \/ ReturnIterator \/ IteratorReturned
  BY <1>3, NextCallStep, ReturnIteratorStep, IteratorReturnedStep
<1>4. ASSUME NEW p \in 1..Pulls, TakesLock(p) \/ ReaderAnswers(p) PROVE StreamIInv'
  BY <1>4, TakesLockStep, ReaderAnswersStep
<1>5. CASE UNCHANGED StreamVars
  <2>1. UNCHANGED readVars /\ UNCHANGED <<pump, pumped, returned, guard, writeTask>>
    BY <1>5 DEF StreamVars, pumpVars
  <2>2. /\ NumbersOK /\ StreamFlags /\ EndsOK /\ Delivered /\ PumpOK /\ SourceIsReturned /\ pumped \in Nat
    BY StreamUnpack
  <2>3. NumbersOK' /\ StreamFlags' /\ EndsOK' /\ Delivered' /\ PumpOK' /\ SourceIsReturned' /\ pumped <= pumped'
    BY <2>1, <2>2 DEF NumbersOK, StreamFlags, EndsOK, Delivered, HeldBack, PumpOK, SourceIsReturned, readVars
  <2> QED BY <2>1, <2>3, PumpSide
<1> QED BY <1>1, <1>2, <1>3, <1>4, <1>5 DEF StreamNext

\* The inductive invariant implies what the runs check.
LEMMA StreamImplied == StreamIInv => StreamInv
<1> SUFFICES ASSUME StreamIInv PROVE StreamInv
  OBVIOUS
<1>1. /\ NumbersOK /\ StreamFlags /\ EndsOK /\ QueueSide /\ ResultsShape
      /\ PullsInOrder /\ NoEarlyEnd /\ SourceIsReturned
      /\ pulls \in Int /\ Pulls \in Nat /\ pumped \in Nat /\ Items \in Nat
  BY StreamUnpack, StreamAssumption
<1>2. lockQueue \in Seq(0..Pulls)
  <2>1. lockQueue \in Seq(Int) /\ \A j \in 1..Len(lockQueue) : lockQueue[j] \in 0..Pulls
    BY <1>1 DEF QueueSide, QueueShape, NumbersOK
  <2> QED BY <2>1, InSeq
<1>3. results \in Seq((1..Pulls) \X (0..Items))
  <2>1. results \in Seq(Int \X Int)
    BY <1>1 DEF ResultsShape
  <2>2. ASSUME NEW k \in 1..Len(results) PROVE results[k] \in (1..Pulls) \X (0..Items)
    <3>1. results[k] \in Int \X Int
      BY <2>1
    <3>2. results[k] = <<results[k][1], results[k][2]>>
      BY <3>1
    <3>3. results[k][1] \in 1..Pulls /\ results[k][2] \in 0..Items
      BY <1>1 DEF ResultsShape, NumbersOK
    <3> DEFINE r == results[k]
               a == r[1]
               b == r[2]
    <3>4. r = <<a, b>> /\ a \in 1..Pulls /\ b \in 0..Items
      BY <3>2, <3>3
    <3> HIDE DEF a, b
    <3> QED BY <3>4
  <2> DEFINE S == (1..Pulls) \X (0..Items)
  <2>3. \A k \in 1..Len(results) : results[k] \in S
    BY <2>2
  <2> HIDE DEF S
  <2>4. results \in Seq(S)
    BY <2>1, <2>3, InSeq
  <2> QED BY <2>4 DEF S
<1>4. StreamTypeOK
  BY <1>1, <1>2, <1>3 DEF StreamTypeOK, NumbersOK, StreamFlags, EndsOK, Pumps
<1> QED BY <1>1, <1>4 DEF StreamInv

\* Items cross a component stream in the order of the pulls, each once, and an end is told
\* that is real, for sources of any length and any number of overlapping pulls.
THEOREM StreamIsSafe == StreamSpec => []StreamInv
<1>1. StreamInit => StreamIInv
  BY StreamStarts
<1>2. StreamIInv /\ [StreamNext]_StreamVars => StreamIInv'
  BY StreamStep
<1>3. StreamIInv => StreamInv
  BY StreamImplied
<1> QED BY <1>1, <1>2, <1>3, PTL DEF StreamSpec

-----------------------------------------------------------------------------
(* The connections of node:http's server: the inductive invariant *)

\* The responses that are out of the queue
Answered == served - Len(queue)
Statuses == {"none", "open", "ended", "tick", "finished", "aborted", "lost"}

InputOK ==
    /\ arrived \in Nat /\ arrived <= Pieces /\ buffer \in Nat /\ served \in Nat
    /\ served + buffer <= arrived
    /\ parser \in {"idle", "headers", "body"} /\ parsing \in BOOLEAN
    /\ current \in Nat /\ current <= served
    /\ {detached, finReceived, closeAfterResponse, httpAllowHalfOpen, closeRequested,
        idleCheck, idleTimer} \subseteq BOOLEAN
    /\ socket \in {"open", "ended", "closed"}

ResponseQueueOK ==
    /\ queue \in Seq(Ids) /\ Len(queue) <= served
    /\ \A i \in 1..Len(queue) : queue[i] = Answered + i

\* The request whose body is being received is the last of the queue.
BodyTurnOK ==
    /\ parsing => ~finReceived /\ socket # "closed"
    /\ parser = "body" => current > 0
    /\ parser = "body" /\ ~finReceived /\ socket # "closed" =>
          current = served /\ served \notin complete /\ Len(queue) > 0
    /\ NothingLeftIdle

SetsOK ==
    /\ complete \subseteq 1..served /\ persistent \subseteq 1..served /\ alive \subseteq persistent
    /\ last \subseteq 1..served
    /\ \A i \in alive : i \notin last /\ res[i] = "finished"

\* A response is in the queue from its head until it is finished.
ResOK ==
    /\ res \in [Ids -> Statuses] /\ kept \in [Ids -> Nat] /\ writes \in [Ids -> 0..MaxWrites + 1]
    /\ blocked \subseteq Ids
    /\ \A i \in Ids : res[i] = "none" <=> i > served
    /\ \A i \in Ids : i <= Answered => res[i] = "finished"
    /\ \A i \in Ids : res[i] \in {"none", "open"} => writes[i] <= MaxWrites
    /\ \A i \in Ids : res[i] \in {"finished", "tick"} => kept[i] = 0
    /\ \A i \in Ids : kept[i] > 0 => writes[i] > 0

\* Only the first response of the queue may write, and none before it was the last.
TurnOK == socket = "open" =>
    /\ \A i \in Ids : Answered + 1 < i /\ i <= served => i \in blocked
    /\ \A i \in Ids : i <= Answered => i \notin last

InOrder(w) == \A k, l \in 1..Len(w) : k < l /\ w[k] # 0 /\ w[l] # 0 => w[k] <= w[l]
ClosedBy(w, L) == \A k, l \in 1..Len(w) : k < l /\ w[k] \in L => w[l] \in {0, w[k]}

WrittenOK ==
    /\ inflight \in Seq(Nat) /\ \A k \in 1..Len(inflight) : inflight[k] <= served
    /\ written \in Seq(Nat) /\ \A k \in 1..Len(written) : written[k] <= served
    /\ \A k \in 1..Len(written) :
          /\ written[k] <= Answered + 1
          /\ written[k] # 0 => writes[written[k]] > 0
    /\ InOrder(written) /\ ClosedBy(written, last)

PipelineIInv == InputOK /\ ResponseQueueOK /\ BodyTurnOK /\ SetsOK /\ ResOK /\ TurnOK /\ WrittenOK

-----------------------------------------------------------------------------

\* The queue holds the numbers of the responses that are not out.
LEMMA QueueRange ==
  ASSUME InputOK, ResponseQueueOK
  PROVE  /\ Answered \in Nat /\ Len(queue) \in Nat /\ Answered + Len(queue) = served
         /\ Answered <= served /\ (queue = <<>> <=> Len(queue) = 0)
         /\ queue # <<>> => Head(queue) = Answered + 1 /\ Answered + 1 <= served
         /\ Ids = 1..Pieces /\ Pieces \in Nat /\ served <= Pieces
         /\ ToSet(queue) = (Answered + 1)..served
<1> DEFINE n == Len(queue)
<1>1. n \in Nat /\ served \in Nat /\ n <= served /\ served + buffer <= arrived /\ arrived <= Pieces
      /\ buffer \in Nat /\ arrived \in Nat /\ Pieces \in Nat /\ Answered = served - n
      /\ queue \in Seq(Ids) /\ DOMAIN queue = 1..n /\ (queue = <<>> <=> n = 0)
  BY PipelineAssumption DEF InputOK, ResponseQueueOK, Answered
<1>2. \A i \in 1..n : queue[i] = Answered + i
  BY DEF ResponseQueueOK
<1>3. queue # <<>> => Head(queue) = queue[1]
  BY <1>1
<1> HIDE DEF n
<1>4. /\ Answered \in Nat /\ Answered + n = served /\ Answered <= served /\ served <= Pieces
      /\ queue # <<>> => Head(queue) = Answered + 1 /\ Answered + 1 <= served
  BY <1>1, <1>2, <1>3
<1>5. ToSet(queue) = (Answered + 1)..served
  <2>1. ToSet(queue) = {queue[i] : i \in 1..n}
    BY <1>1 DEF ToSet
  <2>2. \A i \in 1..n : queue[i] \in (Answered + 1)..served
    BY <1>1, <1>2, <1>4
  <2>3. ASSUME NEW j \in (Answered + 1)..served PROVE \E i \in 1..n : queue[i] = j
    <3>1. j - Answered \in 1..n /\ Answered + (j - Answered) = j
      BY <1>1, <1>4
    <3> QED BY <3>1, <1>2
  <2> QED BY <2>1, <2>2, <2>3
<1> QED BY <1>1, <1>4, <1>5 DEF n, Ids

\* A response that is in the queue
LEMMA InQueue ==
  ASSUME PipelineIInv, NEW i \in Ids, res[i] \notin {"none", "finished"}
  PROVE  /\ Answered < i /\ i <= served /\ queue # <<>> /\ i \in Nat
         /\ socket = "open" /\ i \notin blocked => i = Answered + 1
<1>1. /\ Answered \in Nat /\ Len(queue) \in Nat /\ Answered + Len(queue) = served /\ served \in Nat
      /\ (queue = <<>> <=> Len(queue) = 0) /\ i \in 1..Pieces /\ Pieces \in Nat
  BY QueueRange DEF PipelineIInv, InputOK
<1>2. ~(i > served) /\ ~(i <= Answered)
  BY DEF PipelineIInv, ResOK
<1>3. i \in Nat /\ Answered < i /\ i <= served
  BY <1>1, <1>2
<1>4. queue # <<>>
  BY <1>1, <1>3
<1>5. ASSUME socket = "open", i \notin blocked PROVE i = Answered + 1
  <2>1. ~(Answered + 1 < i /\ i <= served)
    BY <1>5 DEF PipelineIInv, TurnOK
  <2> QED BY <2>1, <1>1, <1>3
<1> QED BY <1>3, <1>4, <1>5

\* The first response leaves the queue.
LEMMA Popped ==
  ASSUME InputOK, ResponseQueueOK, queue # <<>>
  PROVE  LET q == Tail(queue)
         IN  /\ q \in Seq(Ids) /\ Len(q) + 1 = Len(queue) /\ Len(q) \in Nat
             /\ \A k \in 1..Len(q) : q[k] = Answered + 1 + k
             /\ q # <<>> => Head(q) = Answered + 2 /\ Answered + 2 <= served /\ Answered + 2 \in Ids
<1> DEFINE q == Tail(queue)
           n == Len(queue)
           m == Len(q)
<1>1. /\ queue \in Seq(Ids) /\ n \in Nat /\ m \in Nat /\ m + 1 = n /\ q \in Seq(Ids)
      /\ \A k \in 1..m : q[k] = queue[k + 1]
      /\ q # <<>> => Head(q) = q[1] /\ m > 0
  BY DEF ResponseQueueOK
<1>2. \A k \in 1..n : queue[k] = Answered + k
  BY DEF ResponseQueueOK
<1>3. Answered \in Nat /\ Answered + n = served /\ Ids = 1..Pieces /\ Pieces \in Nat /\ served <= Pieces
      /\ served \in Nat
  BY QueueRange DEF InputOK
<1> HIDE DEF q, n, m
<1>4. \A k \in 1..m : q[k] = Answered + 1 + k
  BY <1>1, <1>2, <1>3
<1>5. q # <<>> => Head(q) = Answered + 2 /\ Answered + 2 <= served /\ Answered + 2 \in Ids
  BY <1>1, <1>3, <1>4
<1>6. q \in Seq(Ids) /\ Len(q) + 1 = Len(queue) /\ Len(q) \in Nat
  BY <1>1 DEF m, n
<1> QED BY <1>4, <1>5, <1>6 DEF q, m

\* More of the responses in turn keeps what was written in order.
LEMMA WrittenGrows ==
  ASSUME NEW w \in Seq(Nat), NEW u \in Seq(Nat), NEW j \in Nat, NEW L, InOrder(w), ClosedBy(w, L),
         Len(w) <= Len(u), \A k \in 1..Len(w) : u[k] = w[k],
         \A k \in 1..Len(u) : k > Len(w) => u[k] = j,
         j # 0 => \A k \in 1..Len(w) : w[k] <= j /\ (w[k] \in L => w[k] = j)
  PROVE  InOrder(u) /\ ClosedBy(u, L)
<1> DEFINE n == Len(w)
           m == Len(u)
<1>1. n \in Nat /\ m \in Nat /\ n <= m /\ \A k \in 1..n : u[k] = w[k] /\ w[k] \in Nat
  OBVIOUS
<1>2. \A k \in 1..m : k > n => u[k] = j
  OBVIOUS
<1>3. \A k, l \in 1..n : k < l /\ w[k] # 0 /\ w[l] # 0 => w[k] <= w[l]
  BY DEF InOrder
<1>4. \A k, l \in 1..n : k < l /\ w[k] \in L => w[l] \in {0, w[k]}
  BY DEF ClosedBy
<1>5. j # 0 => \A k \in 1..n : w[k] <= j /\ (w[k] \in L => w[k] = j)
  OBVIOUS
<1> HIDE DEF n, m
<1>6. ASSUME NEW k \in 1..m, NEW l \in 1..m, k < l
      PROVE  /\ u[k] # 0 /\ u[l] # 0 => u[k] <= u[l]
             /\ u[k] \in L => u[l] \in {0, u[k]}
  <2>1. CASE l <= n
    <3>1. k \in 1..n /\ l \in 1..n
      BY <1>1, <1>6, <2>1
    <3> QED BY <3>1, <1>1, <1>3, <1>4, <1>6
  <2>2. CASE ~(l <= n) /\ k <= n
    <3>1. k \in 1..n /\ u[l] = j
      BY <1>1, <1>2, <1>6, <2>2
    <3> QED BY <3>1, <1>1, <1>5
  <2>3. CASE ~(l <= n) /\ ~(k <= n)
    <3>1. u[k] = j /\ u[l] = j
      BY <1>1, <1>2, <1>6, <2>3
    <3> QED BY <3>1
  <2> QED BY <2>1, <2>2, <2>3
<1> QED BY <1>6 DEF InOrder, ClosedBy, m

\* One more of a number at the end
LEMMA NumberAppended ==
  ASSUME NEW s \in Seq(Nat), NEW j \in Nat, NEW N \in Nat, j <= N, \A k \in 1..Len(s) : s[k] <= N
  PROVE  LET u == Append(s, j)
         IN  /\ u \in Seq(Nat) /\ Len(s) <= Len(u) /\ \A k \in 1..Len(s) : u[k] = s[k]
             /\ \A k \in 1..Len(u) : k > Len(s) => u[k] = j
             /\ \A k \in 1..Len(u) : u[k] <= N
<1> DEFINE u == Append(s, j)
           n == Len(s)
           m == Len(u)
<1>1. n \in Nat /\ m = n + 1 /\ u \in Seq(Nat) /\ \A k \in 1..n : u[k] = s[k]
  OBVIOUS
<1>2. u[n + 1] = j
  OBVIOUS
<1>3. \A k \in 1..n : s[k] <= N
  OBVIOUS
<1> HIDE DEF u, n, m
<1>4. n <= m /\ \A k \in 1..m : k > n => u[k] = j
  BY <1>1, <1>2
<1>5. \A k \in 1..m : u[k] <= N
  <2>1. SUFFICES ASSUME NEW k \in 1..m PROVE u[k] <= N
    OBVIOUS
  <2>2. k \in 1..n \/ k = n + 1
    BY <1>1
  <2> QED BY <2>2, <1>1, <1>2, <1>3
<1> QED BY <1>1, <1>4, <1>5 DEF u, n, m

\* What a response kept back, which all is of the same response
Copies(j, c) == [k \in 1..c |-> j]

\* Several more of a number at the end
LEMMA NumbersAppended ==
  ASSUME NEW s \in Seq(Nat), NEW j \in Nat, NEW c \in Nat, NEW N \in Nat, j <= N,
         \A k \in 1..Len(s) : s[k] <= N
  PROVE  LET u == s \o Copies(j, c)
         IN  /\ u \in Seq(Nat) /\ Len(s) <= Len(u)
             /\ \A k \in 1..Len(s) : u[k] = s[k]
             /\ \A k \in 1..Len(u) : k > Len(s) => u[k] = j
             /\ \A k \in 1..Len(u) : u[k] <= N
<1> DEFINE o == Copies(j, c)
           u == s \o o
           n == Len(s)
           m == Len(u)
<1>1. o \in Seq(Nat) /\ Len(o) = c /\ \A k \in 1..c : o[k] = j
  <2>1. o \in [1..c -> Nat] /\ DOMAIN o = 1..c /\ \A k \in 1..c : o[k] = j
    BY DEF Copies
  <2> HIDE DEF o
  <2> QED BY <2>1
<1> HIDE DEF o
<1>2. /\ n \in Nat /\ m = n + c /\ u \in Seq(Nat) /\ \A k \in 1..n : u[k] = s[k]
      /\ \A k \in 1..m : k > n => u[k] = o[k - n]
  BY <1>1
<1>3. \A k \in 1..n : s[k] <= N
  OBVIOUS
<1> HIDE DEF u, n, m
<1>4. n <= m /\ \A k \in 1..m : k > n => u[k] = j
  <2>1. \A k \in 1..m : k > n => k - n \in 1..c
    BY <1>2
  <2> QED BY <2>1, <1>1, <1>2
<1>5. \A k \in 1..m : u[k] <= N
  <2>1. SUFFICES ASSUME NEW k \in 1..m PROVE u[k] <= N
    OBVIOUS
  <2>2. k \in 1..n \/ k > n
    BY <1>2
  <2> QED BY <2>2, <1>2, <1>3, <1>4
<1> QED BY <1>2, <1>4, <1>5 DEF o, u, n, m

\* WrittenOK of the next state, when something is appended
LEMMA WrittenKept ==
  ASSUME PipelineIInv, NEW j \in Nat, written' \in Seq(Nat), Len(written) <= Len(written'),
         \A k \in 1..Len(written) : written'[k] = written[k],
         \A k \in 1..Len(written') : k > Len(written) => written'[k] = j,
         served' \in Nat, served <= served', Answered' \in Nat, Answered <= Answered',
         j <= served', j <= Answered' + 1, j # 0 => writes'[j] > 0,
         \A i \in Ids : writes[i] > 0 => writes'[i] > 0,
         \A k \in 1..Len(written) : written[k] \in last' => written[k] \in last,
         j # 0 /\ Len(written) < Len(written') =>
             \A k \in 1..Len(written) : written[k] <= j /\ (written[k] \in last' => written[k] = j),
         inflight' \in Seq(Nat), \A k \in 1..Len(inflight') : inflight'[k] <= served'
  PROVE  WrittenOK'
<1> DEFINE n == Len(written)
           m == Len(written')
           w == written
           u == written'
<1>5. /\ served \in Nat /\ Answered \in Nat /\ Ids = 1..Pieces /\ served <= Pieces /\ Pieces \in Nat
  BY QueueRange DEF PipelineIInv, InputOK
<1>6. /\ w \in Seq(Nat) /\ n \in Nat /\ InOrder(w) /\ ClosedBy(w, last)
      /\ \A k \in 1..n : w[k] \in Nat /\ w[k] <= served /\ w[k] <= Answered + 1
                        /\ (w[k] # 0 => writes[w[k]] > 0)
  BY DEF PipelineIInv, WrittenOK
<1>1. /\ w \in Seq(Nat) /\ n \in Nat /\ m \in Nat /\ u \in Seq(Nat) /\ n <= m
      /\ \A k \in 1..n : u[k] = w[k]
      /\ \A k \in 1..m : k > n => u[k] = j
  BY <1>6
<1>2. ClosedBy(w, last')
  BY <1>6 DEF ClosedBy
<1>3. InOrder(u) /\ ClosedBy(u, last')
  <2>1. CASE n = m
    <3>1. \A k \in 1..m : u[k] = w[k]
      BY <1>1, <2>1
    <3> QED BY <3>1, <2>1, <1>6, <1>2 DEF InOrder, ClosedBy
  <2>2. CASE n # m
    <3>1. n < m
      BY <1>1, <2>2
    <3>2. j # 0 => \A k \in 1..n : w[k] <= j /\ (w[k] \in last' => w[k] = j)
      BY <3>1
    <3> QED BY <3>2, <1>1, <1>6, <1>2, WrittenGrows
  <2> QED BY <2>1, <2>2
<1> DEFINE s1 == served'
           a1 == Answered'
<1>7. s1 \in Nat /\ served <= s1 /\ a1 \in Nat /\ Answered <= a1 /\ j <= s1 /\ j <= a1 + 1 /\ j \in Nat
  OBVIOUS
<1>8. /\ j # 0 => writes'[j] > 0
      /\ \A i \in Ids : writes[i] > 0 => writes'[i] > 0
  OBVIOUS
<1> HIDE DEF n, m, w, u, s1, a1
<1>4. ASSUME NEW k \in 1..m
      PROVE  u[k] <= s1 /\ u[k] <= a1 + 1 /\ (u[k] # 0 => writes'[u[k]] > 0)
  <2>1. CASE k <= n
    <3>1. k \in 1..n
      BY <1>1, <2>1
    <3>2. u[k] = w[k] /\ w[k] \in Nat /\ w[k] <= served /\ w[k] <= Answered + 1 /\ (w[k] # 0 => writes[w[k]] > 0)
      BY <3>1, <1>1, <1>6
    <3>3. w[k] # 0 => w[k] \in Ids
      BY <3>2, <1>5
    <3>4. w[k] <= s1 /\ w[k] <= a1 + 1
      BY <3>2, <1>5, <1>7
    <3> QED BY <3>2, <3>3, <3>4, <1>8
  <2>2. CASE ~(k <= n)
    <3>1. k > n
      BY <1>1, <2>2
    <3>2. u[k] = j
      BY <3>1, <1>1
    <3> QED BY <3>2, <1>7, <1>8
  <2> QED BY <2>1, <2>2
<1> QED BY <1>1, <1>3, <1>4 DEF WrittenOK, m, n, w, u, s1, a1

\* WrittenOK of the next state, when nothing is appended
LEMMA WrittenSame ==
  ASSUME PipelineIInv, written' = written, served' \in Nat, served <= served',
         Answered' \in Nat, Answered <= Answered', \A i \in Ids : writes[i] > 0 => writes'[i] > 0,
         \A k \in 1..Len(written) : written[k] \in last' => written[k] \in last,
         inflight' \in Seq(Nat), \A k \in 1..Len(inflight') : inflight'[k] <= served'
  PROVE  WrittenOK'
<1>1. written \in Seq(Nat) /\ Len(written) \in Nat
  BY DEF PipelineIInv, WrittenOK
<1>2. \A k \in 1..Len(written') : ~(k > Len(written))
  <2>1. \A k \in 1..Len(written) : ~(k > Len(written))
    BY <1>1
  <2> QED BY <2>1
<1>3. Len(written) <= Len(written') /\ written' \in Seq(Nat) /\ 0 \in Nat
  BY <1>1
<1>4. 0 <= served' /\ 0 <= Answered' + 1
  <2> DEFINE a == Answered'
             b == served'
  <2>1. a \in Nat /\ b \in Nat
    OBVIOUS
  <2> HIDE DEF a, b
  <2>2. 0 <= b /\ 0 <= a + 1
    BY <2>1
  <2> QED BY <2>2 DEF a, b
<1> QED BY <1>2, <1>3, <1>4, WrittenKept

-----------------------------------------------------------------------------
(* Output *)

\* A step on the output alone keeps the input and the queue.
LEMMA OutputKeeps ==
  ASSUME PipelineIInv, NEW i \in Ids, NEW status \in {"open", "ended"}, res[i] = "open",
         status = "open" => writes[i] < MaxWrites, Commit(i), WriteOutput(i, status),
         UNCHANGED <<input, queue, fin, requests, alive, socket, idleTimer, server>>
  PROVE  PipelineIInv'
<1>1. /\ Answered < i /\ i <= served /\ i \in Nat
      /\ socket = "open" /\ i \notin blocked => i = Answered + 1
  BY InQueue
<1>2. /\ Answered \in Nat /\ served \in Nat /\ Ids = 1..Pieces /\ Pieces \in Nat /\ served <= Pieces
      /\ MaxWrites \in Nat /\ i \in Nat
  BY QueueRange, PipelineAssumption DEF PipelineIInv, InputOK
<1>3. /\ UNCHANGED <<arrived, buffer, parser, parsing, current, served, detached, queue, finReceived,
                     closeAfterResponse, httpAllowHalfOpen, complete, persistent, alive, socket,
                     idleTimer, closeRequested, idleCheck>>
      /\ Answered' = Answered
  BY DEF input, fin, requests, server, Answered
<1>4. InputOK' /\ ResponseQueueOK' /\ BodyTurnOK'
  BY <1>3 DEF PipelineIInv, InputOK, ResponseQueueOK, BodyTurnOK, NothingLeftIdle
<1>5. /\ writes' = [writes EXCEPT ![i] = @ + 1]
      /\ last' = last \/ (last' = last \cup {i} /\ writes[i] = 0)
  <2>1. writes[i] \in Nat
    BY <1>2 DEF PipelineIInv, ResOK
  <2> QED BY <2>1 DEF Commit
<1>6. \E st \in {status, "aborted"} : res' = [res EXCEPT ![i] = st]
  BY DEF WriteOutput
<1>7. PICK st \in {status, "aborted"} : res' = [res EXCEPT ![i] = st]
  BY <1>6
<1>8. /\ res' \in [Ids -> Statuses] /\ res'[i] = st /\ \A k \in Ids \ {i} : res'[k] = res[k]
      /\ st \in {"open", "ended", "aborted"} /\ (st = "open" => status = "open")
  BY <1>7 DEF PipelineIInv, ResOK, Statuses
<1>9. SetsOK'
  <2>1. i \notin alive
    BY DEF PipelineIInv, SetsOK
  <2>2. i \in 1..served
    BY <1>1, <1>2
  <2>3. last' \subseteq 1..served /\ \A k \in alive : k \notin last'
    BY <2>1, <2>2, <1>5 DEF PipelineIInv, SetsOK
  <2>4. \A k \in alive : k \in Ids
    BY <1>2 DEF PipelineIInv, SetsOK
  <2> QED BY <2>1, <2>3, <2>4, <1>3, <1>8 DEF PipelineIInv, SetsOK
<1>10. /\ writes' \in [Ids -> 0..MaxWrites + 1] /\ writes'[i] = writes[i] + 1 /\ writes'[i] > 0
       /\ \A k \in Ids \ {i} : writes'[k] = writes[k]
       /\ st = "open" => writes'[i] <= MaxWrites
  <2>1. /\ writes \in [Ids -> 0..MaxWrites + 1] /\ writes[i] \in Nat /\ writes[i] <= MaxWrites
        /\ status = "open" => writes[i] < MaxWrites
    BY <1>2 DEF PipelineIInv, ResOK
  <2>2. writes[i] + 1 \in 0..MaxWrites + 1 /\ (status = "open" => writes[i] + 1 <= MaxWrites)
        /\ writes[i] + 1 > 0
    BY <2>1, <1>2
  <2> QED BY <2>1, <2>2, <1>5, <1>8
<1>11. /\ kept' \in [Ids -> Nat] /\ \A k \in Ids \ {i} : kept'[k] = kept[k]
       /\ blocked' = blocked
  <2>1. kept' = [kept EXCEPT ![i] = @ + 1] \/ kept' = kept
    BY DEF WriteOutput
  <2>2. kept \in [Ids -> Nat]
    BY DEF PipelineIInv, ResOK
  <2>3. blocked' = blocked
    BY DEF WriteOutput
  <2> QED BY <2>1, <2>2, <2>3
<1>12. ResOK'
  <2>1. SUFFICES ASSUME NEW k \in Ids
                 PROVE  /\ res'[k] = "none" <=> k > served
                        /\ k <= Answered => res'[k] = "finished"
                        /\ res'[k] \in {"none", "open"} => writes'[k] <= MaxWrites
                        /\ res'[k] \in {"finished", "tick"} => kept'[k] = 0
                        /\ kept'[k] > 0 => writes'[k] > 0
    BY <1>3, <1>8, <1>10, <1>11 DEF PipelineIInv, ResOK
  <2>2. CASE k = i
    BY <2>2, <1>1, <1>2, <1>8, <1>10
  <2>3. CASE k # i
    BY <2>3, <1>8, <1>10, <1>11 DEF PipelineIInv, ResOK
  <2> QED BY <2>2, <2>3
<1>13. TurnOK'
  <2>1. \A k \in Ids : k <= Answered /\ k \in last' => k \in last
    BY <1>1, <1>2, <1>5
  <2> QED BY <2>1, <1>3, <1>11 DEF PipelineIInv, TurnOK
<1>14. WrittenOK'
  <2>1. \A k \in Ids : writes[k] > 0 => writes'[k] > 0
    BY <1>10
  <2>2. \A k \in 1..Len(written) : written[k] \in last' => written[k] \in last
    <3>1. SUFFICES ASSUME NEW k \in 1..Len(written), written[k] = i, writes[i] = 0 PROVE FALSE
      BY <1>5
    <3>2. i # 0 /\ (written[k] # 0 => writes[written[k]] > 0)
      BY <1>2 DEF PipelineIInv, WrittenOK
    <3> QED BY <3>1, <3>2
  <2>3. CASE socket = "open" /\ i \notin blocked
    <3>1. i = Answered + 1
      BY <2>3, <1>1
    <3>5. inflight' = Append(inflight, i) /\ written' = Append(written, i)
      BY <2>3 DEF WriteOutput
    <3>2. /\ written \in Seq(Nat) /\ inflight \in Seq(Nat)
          /\ \A k \in 1..Len(inflight) : inflight[k] <= served
          /\ \A k \in 1..Len(written) : written[k] \in Nat /\ written[k] <= Answered + 1
      BY DEF PipelineIInv, WrittenOK
    <3>3. /\ written' \in Seq(Nat) /\ Len(written) <= Len(written')
          /\ \A k \in 1..Len(written) : written'[k] = written[k]
          /\ \A k \in 1..Len(written') : k > Len(written) => written'[k] = i
      BY <3>5, <3>2, <1>2, NumberAppended
    <3>6. inflight' \in Seq(Nat) /\ \A k \in 1..Len(inflight') : inflight'[k] <= served'
      BY <3>5, <3>2, <1>1, <1>2, <1>3, NumberAppended
    <3>4. \A k \in 1..Len(written) : written[k] <= i /\ (written[k] \in last' => written[k] = i)
      <4>1. SUFFICES ASSUME NEW k \in 1..Len(written), written[k] \in last PROVE written[k] = i
        BY <2>2, <3>1, <3>2
      <4>2. written[k] \in 1..served /\ written[k] <= Answered + 1
        BY <4>1, <3>2 DEF PipelineIInv, SetsOK
      <4>3. written[k] \in Ids /\ ~(written[k] <= Answered)
        BY <4>1, <4>2, <2>3, <1>2 DEF PipelineIInv, TurnOK
      <4> QED BY <4>2, <4>3, <3>1, <1>2
    <3>7. /\ i \in Nat /\ writes'[i] > 0 /\ served' \in Nat /\ served <= served' /\ Answered' \in Nat
          /\ Answered <= Answered' /\ i <= served' /\ i <= Answered' + 1
      BY <3>1, <1>1, <1>2, <1>3, <1>10
    <3> QED BY <2>1, <2>2, <3>3, <3>4, <3>6, <3>7, WrittenKept
  <2>4. CASE ~(socket = "open" /\ i \notin blocked)
    <3>1. inflight' = inflight /\ written' = written
      BY <2>4 DEF WriteOutput
    <3>2. inflight' \in Seq(Nat) /\ \A k \in 1..Len(inflight') : inflight'[k] <= served'
      BY <3>1, <1>3 DEF PipelineIInv, WrittenOK
    <3>3. served' \in Nat /\ served <= served' /\ Answered' \in Nat /\ Answered <= Answered'
      BY <1>2, <1>3
    <3> QED BY <2>1, <2>2, <3>1, <3>2, <3>3, WrittenSame
  <2> QED BY <2>3, <2>4
<1> QED BY <1>4, <1>9, <1>12, <1>13, <1>14 DEF PipelineIInv

\* A write of the response in turn, or of one that waits for its turn
LEMMA WriteKeeps ==
  ASSUME PipelineIInv, NEW i \in Ids, Write(i) \/ EndWithOutput(i)
  PROVE  PipelineIInv'
BY OutputKeeps DEF Write, EndWithOutput

\* A response that ends for a connection that is gone
LEMMA EndSilentlyKeeps ==
  ASSUME PipelineIInv, NEW i \in Ids, EndSilently(i)
  PROVE  PipelineIInv'
<1>1. /\ UNCHANGED <<arrived, buffer, parser, parsing, current, served, detached, queue, finReceived,
                     closeAfterResponse, httpAllowHalfOpen, complete, persistent, alive, socket,
                     idleTimer, closeRequested, idleCheck, blocked, kept, inflight, written, last, writes>>
      /\ Answered' = Answered
  BY DEF EndSilently, input, fin, requests, server, heads, Answered
<1>2. PICK st \in {"ended", "tick"} :
          res' = [res EXCEPT ![i] = st] /\ (st = "tick" => ~Outstanding(i)) /\ res[i] = "open"
  BY DEF EndSilently
<1>3. /\ res' \in [Ids -> Statuses] /\ res'[i] = st /\ \A k \in Ids \ {i} : res'[k] = res[k]
      /\ st \in {"ended", "tick"}
  BY <1>2 DEF PipelineIInv, ResOK, Statuses
<1>4. st = "tick" => kept[i] = 0
  <2>1. kept[i] \in Nat
    BY DEF PipelineIInv, ResOK
  <2> QED BY <2>1, <1>2 DEF Outstanding
<1>5. ResOK'
  <2>1. Answered < i /\ i <= served /\ i \in Nat /\ served \in Nat /\ Answered \in Nat
    BY <1>2, InQueue, QueueRange DEF PipelineIInv, InputOK
  <2>2. SUFFICES ASSUME NEW k \in Ids
                 PROVE  /\ res'[k] = "none" <=> k > served
                        /\ k <= Answered => res'[k] = "finished"
                        /\ res'[k] \in {"none", "open"} => writes[k] <= MaxWrites
                        /\ res'[k] \in {"finished", "tick"} => kept[k] = 0
    BY <1>1, <1>3 DEF PipelineIInv, ResOK
  <2>3. CASE k = i
    BY <2>1, <2>3, <1>3, <1>4
  <2>4. CASE k # i
    BY <2>4, <1>3 DEF PipelineIInv, ResOK
  <2> QED BY <2>3, <2>4
<1>6. SetsOK'
  <2>1. i \notin alive
    BY <1>2 DEF PipelineIInv, SetsOK
  <2>2. \A k \in alive : k \in Ids
    BY QueueRange DEF PipelineIInv, SetsOK, InputOK
  <2> QED BY <2>1, <2>2, <1>1, <1>3 DEF PipelineIInv, SetsOK
<1>7. InputOK' /\ ResponseQueueOK' /\ BodyTurnOK'
  BY <1>1 DEF PipelineIInv, InputOK, ResponseQueueOK, BodyTurnOK, NothingLeftIdle
<1>8. TurnOK' /\ WrittenOK'
  BY <1>1 DEF PipelineIInv, TurnOK, WrittenOK
<1> QED BY <1>5, <1>6, <1>7, <1>8 DEF PipelineIInv

-----------------------------------------------------------------------------
(* The end of a response *)

\* The parts that 'finish' disturbs when the queue stays as it is
LEMMA FinishedKeeps ==
  ASSUME PipelineIInv, NEW i \in Ids, res[i] \in {"ended", "tick"}, kept[i] = 0,
         NEW flight \in Seq(Nat), \A k \in 1..Len(flight) : flight[k] <= served,
         res' = [res EXCEPT ![i] = "finished"], inflight' = flight,
         UNCHANGED <<queue, served, blocked, kept, written, socket, last, writes>>
  PROVE  ResponseQueueOK' /\ ResOK' /\ TurnOK' /\ WrittenOK'
<1>1. Answered' = Answered
  BY DEF Answered
<1>2. ResponseQueueOK' /\ TurnOK' /\ WrittenOK'
  BY <1>1 DEF PipelineIInv, ResponseQueueOK, TurnOK, WrittenOK
<1>3. /\ Answered < i /\ i <= served /\ i \in Nat /\ served \in Nat
  BY InQueue DEF PipelineIInv, InputOK
<1>4. /\ res' \in [Ids -> Statuses] /\ res'[i] = "finished" /\ \A k \in Ids \ {i} : res'[k] = res[k]
  BY DEF PipelineIInv, ResOK, Statuses
<1>5. ResOK'
  <2>1. SUFFICES ASSUME NEW k \in Ids
                 PROVE  /\ res'[k] = "none" <=> k > served
                        /\ k <= Answered => res'[k] = "finished"
                        /\ res'[k] \in {"none", "open"} => writes[k] <= MaxWrites
                        /\ res'[k] \in {"finished", "tick"} => kept[k] = 0
    BY <1>1, <1>4 DEF PipelineIInv, ResOK
  <2>2. CASE k = i
    BY <2>2, <1>3, <1>4
  <2>3. CASE k # i
    BY <2>3, <1>4 DEF PipelineIInv, ResOK
  <2> QED BY <2>2, <2>3
<1> QED BY <1>2, <1>5

\* What was kept back of the response that has its turn now
LEMMA ActivateKeeps ==
  ASSUME PipelineIInv, NEW flight \in Seq(Nat), \A k \in 1..Len(flight) : flight[k] <= served,
         socket = "open", NEW h \in Ids, h <= served, h = Answered + 2, Answered + 1 \notin last,
         Answered' = Answered + 1, UNCHANGED <<served, last, writes>>
  PROVE  written' = written \o Copies(h, kept[h]) /\ inflight' = flight \o Copies(h, kept[h]) =>
             WrittenOK'
<1>9. SUFFICES ASSUME written' = written \o Copies(h, kept[h]), inflight' = flight \o Copies(h, kept[h])
               PROVE  WrittenOK'
  OBVIOUS
<1>1. /\ Answered \in Nat /\ served \in Nat /\ Ids = 1..Pieces /\ Pieces \in Nat /\ served <= Pieces
      /\ kept[h] \in Nat /\ h \in Nat /\ h # 0
  <2>1. /\ Answered \in Nat /\ served \in Nat /\ Ids = 1..Pieces /\ Pieces \in Nat /\ served <= Pieces
    BY QueueRange DEF PipelineIInv, InputOK
  <2>2. kept[h] \in Nat
    BY DEF PipelineIInv, ResOK
  <2> QED BY <2>1, <2>2
<1>2. /\ written \in Seq(Nat) /\ Len(written) \in Nat
      /\ \A k \in 1..Len(written) : written[k] \in Nat /\ written[k] <= served /\ written[k] <= Answered + 1
  BY DEF PipelineIInv, WrittenOK
<1>3. /\ written' \in Seq(Nat) /\ Len(written) <= Len(written')
      /\ \A k \in 1..Len(written) : written'[k] = written[k]
      /\ \A k \in 1..Len(written') : k > Len(written) => written'[k] = h
  <2> DEFINE c == kept[h]
             u == written \o Copies(h, c)
  <2>1. /\ u \in Seq(Nat) /\ Len(written) <= Len(u)
        /\ \A k \in 1..Len(written) : u[k] = written[k]
        /\ \A k \in 1..Len(u) : k > Len(written) => u[k] = h
    <3>1. c \in Nat
      BY <1>1
    <3>2. \A k \in 1..Len(written) : written[k] <= served
      BY <1>2
    <3> HIDE DEF c
    <3>3. u \in Seq(Nat) /\ Len(written) <= Len(u)
      BY <3>1, <3>2, <1>1, <1>2, NumbersAppended
    <3>5. \A k \in 1..Len(written) : u[k] = written[k]
      BY <3>1, <3>2, <1>1, <1>2, NumbersAppended
    <3>6. \A k \in 1..Len(u) : k > Len(written) => u[k] = h
      BY <3>1, <3>2, <1>1, <1>2, NumbersAppended
    <3> QED BY <3>3, <3>5, <3>6
  <2> QED BY <2>1, <1>9
<1>4. inflight' \in Seq(Nat) /\ \A k \in 1..Len(inflight') : inflight'[k] <= served'
  BY <1>1, <1>9, NumbersAppended
<1>5. \A k \in 1..Len(written) : written[k] <= h /\ (written[k] \in last' => written[k] = h)
  <2>1. SUFFICES ASSUME NEW k \in 1..Len(written) PROVE written[k] <= h /\ written[k] \notin last
    OBVIOUS
  <2>2. written[k] <= h
    BY <1>1, <1>2
  <2>3. ASSUME written[k] \in last PROVE FALSE
    <3>1. last \subseteq 1..served /\ 1..served \subseteq Ids
      BY <1>1 DEF PipelineIInv, SetsOK
    <3>2. written[k] \in Ids
      BY <2>3, <3>1
    <3>3. ~(written[k] <= Answered)
      BY <2>3, <3>2 DEF PipelineIInv, TurnOK
    <3>4. written[k] = Answered + 1
      <4>1. written[k] \in Nat /\ written[k] <= Answered + 1 /\ Answered \in Nat
        BY <1>1, <1>2
      <4> QED BY <4>1, <3>3
    <3> QED BY <3>4, <2>3
  <2> QED BY <2>2, <2>3
<1>6. /\ \A k \in Ids : writes[k] > 0 => writes'[k] > 0
      /\ \A k \in 1..Len(written) : written[k] \in last' => written[k] \in last
      /\ served' \in Nat /\ served <= served' /\ Answered' \in Nat /\ Answered <= Answered'
      /\ h <= served' /\ h <= Answered' + 1
  BY <1>1
<1>7. CASE kept[h] = 0
  <2>1. written' = written
    <3>1. Copies(h, kept[h]) = <<>>
      BY <1>7 DEF Copies
    <3> QED BY <3>1, <1>2, <1>9
  <2> QED BY <2>1, <1>4, <1>6, WrittenSame
<1>8. CASE kept[h] # 0
  <2>1. writes'[h] > 0
    BY <1>1, <1>8 DEF PipelineIInv, ResOK
  <2> QED BY <2>1, <1>1, <1>3, <1>4, <1>5, <1>6, WrittenKept
<1> QED BY <1>7, <1>8

\* A response leaves the queue: the next one is in turn, or the connection is idle.
LEMMA FinalizeKeeps ==
  ASSUME PipelineIInv, NEW i \in Ids, queue # <<>>, Head(queue) = i,
         NEW goesOn \in BOOLEAN, goesOn => i \notin last, kept[i] = 0,
         NEW status \in [Ids -> Statuses], status[i] = "finished",
         \A k \in Ids \ {i} : status[k] = res[k],
         NEW flight \in Seq(Nat), \A k \in 1..Len(flight) : flight[k] <= served,
         NEW cur, NEW buf, NEW state, Finalize(goesOn, status, flight, cur, buf, state),
         UNCHANGED <<served, last, writes>>
  PROVE  /\ ResponseQueueOK' /\ ResOK' /\ TurnOK' /\ WrittenOK'
         /\ Len(queue') + 1 = Len(queue) /\ i = Answered + 1
         /\ \A k \in Ids : status[k] = "finished" => res'[k] = "finished"
         /\ parser' = (IF queue' = <<>> /\ cur = 0 /\ buf = 0 THEN "idle" ELSE state)
         /\ socket' \in {socket, "ended"} /\ (socket = "closed" => socket' = "closed")
         /\ idleTimer' \in BOOLEAN
<1> DEFINE rest == Tail(queue)
           h == Answered + 2
<1>1. /\ Answered \in Nat /\ served \in Nat /\ Ids = 1..Pieces /\ Pieces \in Nat /\ served <= Pieces
      /\ i = Answered + 1 /\ i <= served /\ idleTimer \in BOOLEAN /\ Len(queue) \in Nat
      /\ Answered + Len(queue) = served
  BY QueueRange DEF PipelineIInv, InputOK
<1>2. /\ rest \in Seq(Ids) /\ Len(rest) + 1 = Len(queue) /\ Len(rest) \in Nat
      /\ \A k \in 1..Len(rest) : rest[k] = Answered + 1 + k
      /\ rest # <<>> => Head(rest) = h /\ h <= served /\ h \in Ids
  BY Popped DEF PipelineIInv
<1>3. queue' = rest /\ served' = served
  BY DEF Finalize
<1> HIDE DEF rest
<1>4. Answered' = Answered + 1 /\ Len(queue') + 1 = Len(queue)
  <2> DEFINE n == Len(queue)
             m == Len(rest)
  <2>1. Answered' = served - m /\ n \in Nat /\ m \in Nat /\ m + 1 = n /\ Answered + n = served
    BY <1>1, <1>2, <1>3 DEF Answered
  <2> HIDE DEF n, m
  <2>2. Answered' = Answered + 1
    BY <2>1, <1>1
  <2> QED BY <2>2, <1>2, <1>3
<1>5. ResponseQueueOK'
  <2>1. Len(rest) <= served
    BY <1>1, <1>2
  <2> QED BY <2>1, <1>2, <1>3, <1>4 DEF ResponseQueueOK
<1>6. \/ ~goesOn /\ socket' # "open" /\ socket' \in {socket, "ended"}
         /\ (socket = "closed" => socket' = "closed")
      \/ goesOn /\ rest # <<>> /\ socket' = socket
      \/ goesOn /\ rest = <<>> /\ socket' \in {socket, "ended"} /\ (socket = "closed" => socket' = "closed")
  <2>1. socket \in {"open", "ended", "closed"}
    BY DEF PipelineIInv, InputOK
  <2> QED BY <2>1 DEF Finalize, EndConnection, rest
<1>7. idleTimer' \in BOOLEAN
  BY <1>1 DEF Finalize
<1>8. \/ /\ blocked' = blocked /\ kept' = kept /\ written' = written /\ res' = status
         /\ inflight' = flight /\ (~goesOn \/ rest = <<>>)
      \/ goesOn /\ rest # <<>> /\ Activate(Head(rest), status, flight)
  BY DEF Finalize, rest
<1>9. \/ blocked' = blocked /\ kept' = kept /\ res' = status /\ (~goesOn \/ rest = <<>>)
      \/ /\ goesOn /\ rest # <<>> /\ blocked' = blocked \ {h} /\ kept' = [kept EXCEPT ![h] = 0]
         /\ res' = status \/ (res' = [status EXCEPT ![h] = "aborted"] /\ kept[h] # 0)
  BY <1>2, <1>8 DEF Activate
<1>10. /\ res' \in [Ids -> Statuses] /\ kept' \in [Ids -> Nat] /\ blocked' \subseteq Ids
       /\ \A k \in Ids : res'[k] = status[k] \/ (res'[k] = "aborted" /\ k = h /\ kept[k] # 0)
       /\ \A k \in Ids : kept'[k] = kept[k] \/ kept'[k] = 0
  <2>1. kept \in [Ids -> Nat] /\ blocked \subseteq Ids
    BY DEF PipelineIInv, ResOK
  <2>2. CASE blocked' = blocked /\ kept' = kept /\ res' = status
    BY <2>1, <2>2
  <2>3. CASE /\ blocked' = blocked \ {h} /\ kept' = [kept EXCEPT ![h] = 0]
             /\ res' = status \/ (res' = [status EXCEPT ![h] = "aborted"] /\ kept[h] # 0)
    <3>1. kept' \in [Ids -> Nat] /\ blocked' \subseteq Ids /\ \A k \in Ids : kept'[k] = kept[k] \/ kept'[k] = 0
      BY <2>1, <2>3
    <3>2. CASE res' = status
      BY <3>1, <3>2
    <3>3. CASE res' = [status EXCEPT ![h] = "aborted"] /\ kept[h] # 0
      <4>1. res' \in [Ids -> Statuses]
        BY <3>3 DEF Statuses
      <4>2. \A k \in Ids : res'[k] = status[k] \/ (res'[k] = "aborted" /\ k = h /\ kept[k] # 0)
        BY <3>3
      <4> QED BY <3>1, <4>1, <4>2
    <3> QED BY <2>3, <3>2, <3>3
  <2> QED BY <2>2, <2>3, <1>9
<1>11. \A k \in Ids : status[k] = "finished" => res'[k] = "finished"
  <2>1. SUFFICES ASSUME NEW k \in Ids, status[k] = "finished", k = h, kept[k] # 0 PROVE FALSE
    BY <1>10
  <2>2. k # i
    BY <2>1, <1>1
  <2>3. res[k] = "finished" /\ kept[k] = 0
    BY <2>1, <2>2 DEF PipelineIInv, ResOK
  <2> QED BY <2>1, <2>3
<1>12. ResOK'
  <2>1. SUFFICES ASSUME NEW k \in Ids
                 PROVE  /\ res'[k] = "none" <=> k > served
                        /\ k <= Answered + 1 => res'[k] = "finished"
                        /\ res'[k] \in {"none", "open"} => writes[k] <= MaxWrites
                        /\ res'[k] \in {"finished", "tick"} => kept'[k] = 0
                        /\ kept'[k] > 0 => writes[k] > 0
    BY <1>3, <1>4, <1>10 DEF PipelineIInv, ResOK
  <2>2. /\ res[k] = "none" <=> k > served
        /\ k <= Answered => res[k] = "finished"
        /\ res[k] \in {"none", "open"} => writes[k] <= MaxWrites
        /\ res[k] \in {"finished", "tick"} => kept[k] = 0
        /\ kept[k] > 0 => writes[k] > 0
        /\ kept[k] \in Nat
    BY DEF PipelineIInv, ResOK
  <2>3. CASE k = i
    <3>1. status[k] = "finished" /\ res'[k] = "finished" /\ kept[k] = 0 /\ ~(k > served)
      BY <2>3, <1>1, <1>11
    <3> QED BY <3>1, <2>2, <1>10
  <2>4. CASE k # i
    <3>1. k <= Answered + 1 => k <= Answered
      BY <2>4, <1>1
    <3>2. status[k] = res[k]
      BY <2>4
    <3>3. res'[k] = "aborted" /\ k = h => k <= served
      <4>1. res[k] = "aborted" => k <= served
        BY <2>2, <1>1
      <4>2. ~goesOn \/ rest = <<>> => res'[k] = res[k]
        BY <3>2, <1>9
      <4> QED BY <4>1, <4>2, <1>2
    <3> QED BY <3>1, <3>2, <3>3, <2>2, <1>1, <1>10, <1>11
  <2> QED BY <2>3, <2>4
<1>13. TurnOK'
  <2>1. SUFFICES ASSUME socket' = "open"
                 PROVE  /\ \A k \in Ids : Answered + 2 < k /\ k <= served => k \in blocked'
                        /\ \A k \in Ids : k <= Answered + 1 => k \notin last
    BY <1>1, <1>3, <1>4 DEF TurnOK
  <2>2. goesOn /\ socket = "open"
    BY <2>1, <1>6
  <2>3. /\ \A k \in Ids : Answered + 1 < k /\ k <= served => k \in blocked
        /\ \A k \in Ids : k <= Answered => k \notin last
    BY <2>2 DEF PipelineIInv, TurnOK
  <2>4. \A k \in Ids : k <= Answered + 1 => k = i \/ k <= Answered
    BY <1>1
  <2>5. \A k \in Ids : Answered + 2 < k => Answered + 1 < k /\ k # h
    BY <1>1
  <2> QED BY <2>2, <2>3, <2>4, <2>5, <1>9
<1>14. WrittenOK'
  <2>1. /\ \A k \in Ids : writes[k] > 0 => writes'[k] > 0
        /\ \A k \in 1..Len(written) : written[k] \in last' => written[k] \in last
        /\ served' \in Nat /\ served <= served' /\ Answered' \in Nat /\ Answered <= Answered'
        /\ written \in Seq(Nat) /\ Len(written) \in Nat
    BY <1>1, <1>3, <1>4 DEF PipelineIInv, WrittenOK
  <2>2. CASE written' = written /\ inflight' = flight
    BY <2>1, <2>2, <1>3, WrittenSame
  <2>3. CASE /\ goesOn /\ rest # <<>> /\ socket = "open"
             /\ written' = written \o Copies(h, kept[h]) /\ inflight' = flight \o Copies(h, kept[h])
    <3>1. h \in Ids /\ h <= served /\ Answered + 1 \notin last
      BY <2>3, <1>1, <1>2
    <3> QED BY <3>1, <2>3, <1>4, ActivateKeeps
  <2> QED BY <2>2, <2>3, <1>2, <1>8 DEF Activate, Copies
<1> QED BY <1>1, <1>3, <1>4, <1>5, <1>6, <1>7, <1>11, <1>12, <1>13, <1>14 DEF Finalize

\* 'finish' of the response in turn, with all that follows from it
LEMMA FinishKeeps ==
  ASSUME PipelineIInv, ~parsing, NEW i \in Ids, res[i] \in {"ended", "tick"}, kept[i] = 0,
         NEW flight \in Seq(Nat), \A k \in 1..Len(flight) : flight[k] <= served,
         FinishResponse(i, flight),
         UNCHANGED <<arrived, buffer, parsing, current, served, detached, fin, requests, heads, server>>
  PROVE  PipelineIInv'
<1> DEFINE goesOn == i \in persistent /\ i \notin last /\ ~closeRequested
           status == [res EXCEPT ![i] = "finished"]
<1>1. /\ queue # <<>> /\ Answered < i /\ i <= served /\ i \in Nat /\ served \in Nat /\ Answered \in Nat
      /\ Answered + Len(queue) = served /\ Len(queue) \in Nat /\ Ids = 1..Pieces /\ Pieces \in Nat
      /\ served <= Pieces
  BY InQueue, QueueRange DEF PipelineIInv, InputOK
<1>2. /\ UNCHANGED <<arrived, buffer, parsing, current, served, detached, finReceived, closeAfterResponse,
                     httpAllowHalfOpen, complete, persistent, last, writes, closeRequested, idleCheck>>
      /\ alive' = (IF goesOn THEN alive \cup {i} ELSE alive)
  BY DEF fin, requests, heads, server, FinishResponse
<1>3. /\ status \in [Ids -> Statuses] /\ status[i] = "finished" /\ \A k \in Ids \ {i} : status[k] = res[k]
  BY DEF PipelineIInv, ResOK, Statuses
<1>4. goesOn \in BOOLEAN /\ (goesOn => i \notin last /\ i \in persistent)
  OBVIOUS
<1> HIDE DEF goesOn
<1>5. ASSUME \A k \in Ids : status[k] = "finished" => res'[k] = "finished"
      PROVE  SetsOK'
  <2>1. alive' \subseteq persistent
    BY <1>2, <1>4 DEF PipelineIInv, SetsOK
  <2>2. ASSUME NEW k \in alive' PROVE k \notin last /\ res'[k] = "finished"
    <3>1. k \in Ids
      <4>1. persistent \subseteq 1..served /\ 1..served \subseteq Ids
        BY <1>1 DEF PipelineIInv, SetsOK
      <4> QED BY <4>1, <2>1
    <3>2. CASE k = i
      <4>1. k \notin last
        <5>1. k \in alive => k \notin last
          BY DEF PipelineIInv, SetsOK
        <5> QED BY <5>1, <3>2, <1>2, <1>4
      <4> QED BY <4>1, <3>1, <3>2, <1>3, <1>5
    <3>3. CASE k # i
      <4>1. k \in alive
        BY <3>3, <1>2
      <4>2. k \notin last /\ res[k] = "finished"
        BY <4>1 DEF PipelineIInv, SetsOK
      <4> QED BY <4>2, <3>1, <3>3, <1>3, <1>5
    <3> QED BY <3>2, <3>3
  <2>3. complete' \subseteq 1..served' /\ persistent' \subseteq 1..served' /\ last' \subseteq 1..served'
    BY <1>2 DEF PipelineIInv, SetsOK
  <2> QED BY <2>1, <2>2, <2>3, <1>2 DEF SetsOK
<1>6. CASE Head(queue) = i /\ i \in complete
  <2>1. Finalize(goesOn, status, flight, current, buffer, parser)
    BY <1>6 DEF FinishResponse, goesOn
  <2> HIDE DEF status
  <2>2. /\ ResponseQueueOK' /\ ResOK' /\ TurnOK' /\ WrittenOK'
        /\ Len(queue') + 1 = Len(queue) /\ i = Answered + 1
        /\ \A k \in Ids : status[k] = "finished" => res'[k] = "finished"
        /\ parser' = (IF queue' = <<>> /\ current = 0 /\ buffer = 0 THEN "idle" ELSE parser)
        /\ socket' \in {socket, "ended"} /\ (socket = "closed" => socket' = "closed")
        /\ idleTimer' \in BOOLEAN
    BY <2>1, <1>1, <1>2, <1>3, <1>4, <1>6, FinalizeKeeps
  <2>3. SetsOK'
    BY <2>2, <1>5
  <2>4. InputOK'
    <3>1. parser' \in {"idle", "headers", "body"} /\ socket' \in {"open", "ended", "closed"}
      BY <2>2 DEF PipelineIInv, InputOK
    <3> QED BY <3>1, <2>2, <1>2 DEF PipelineIInv, InputOK
  <2>5. BodyTurnOK'
    <3>1. (parser' = "body" => parser = "body") /\ (parser' = "idle" => parser = "idle" \/ buffer = 0)
          /\ (socket' # "closed" => socket # "closed")
      BY <2>2
    <3>2. ASSUME parser' = "body", ~finReceived, socket' # "closed"
          PROVE  current = served /\ served \notin complete /\ Len(queue') > 0
      <4>1. current = served /\ served \notin complete
        BY <3>1, <3>2 DEF PipelineIInv, BodyTurnOK
      <4>2. i # served
        BY <4>1, <1>6
      <4>3. Len(queue') > 0
        <5> DEFINE n == Len(queue)
                   m == Len(queue')
        <5>1. n \in Nat /\ m + 1 = n /\ Answered + n = served /\ i = Answered + 1 /\ m \in Nat
          BY <1>1, <2>2 DEF ResponseQueueOK
        <5> HIDE DEF n, m
        <5>2. m > 0
          BY <5>1, <4>2, <1>1
        <5> QED BY <5>2 DEF m
      <4> QED BY <4>1, <4>3
    <3> QED BY <3>1, <3>2, <1>2 DEF PipelineIInv, BodyTurnOK, NothingLeftIdle
  <2> QED BY <2>2, <2>3, <2>4, <2>5 DEF PipelineIInv
<1>7. CASE ~(Head(queue) = i /\ i \in complete)
  <2>1. /\ res' = status /\ inflight' = flight
        /\ UNCHANGED <<queue, parser, blocked, kept, written, socket, idleTimer>>
    BY <1>7 DEF FinishResponse
  <2>2. ResponseQueueOK' /\ ResOK' /\ TurnOK' /\ WrittenOK'
    BY <2>1, <1>2, FinishedKeeps
  <2>3. SetsOK'
    BY <2>1, <1>5
  <2>4. InputOK' /\ BodyTurnOK'
    BY <2>1, <1>2 DEF PipelineIInv, InputOK, BodyTurnOK, NothingLeftIdle
  <2> QED BY <2>2, <2>3, <2>4 DEF PipelineIInv
<1> QED BY <1>6, <1>7

\* The tick after end() finishes the response.
LEMMA TickKeeps ==
  ASSUME PipelineIInv, NEW i \in Ids, Tick(i)
  PROVE  PipelineIInv'
<1>1. kept[i] = 0
  BY DEF Tick, PipelineIInv, ResOK
<1>2. inflight \in Seq(Nat) /\ \A k \in 1..Len(inflight) : inflight[k] <= served
  BY DEF PipelineIInv, WrittenOK
<1> QED BY <1>1, <1>2, FinishKeeps DEF Tick

\* The socket took a write: the response that waited for it goes on.
LEMMA WriteDoneKeeps ==
  ASSUME PipelineIInv, WriteDone
  PROVE  PipelineIInv'
<1> DEFINE i == Head(inflight)
           left == Tail(inflight)
<1>1. /\ inflight \in Seq(Nat) /\ inflight # <<>> /\ \A k \in 1..Len(inflight) : inflight[k] <= served
      /\ served \in Nat
  BY DEF PipelineIInv, WrittenOK, WriteDone, InputOK
<1>2. left \in Seq(Nat) /\ \A k \in 1..Len(left) : left[k] <= served
  <2>1. \A k \in 1..Len(left) : left[k] = inflight[k + 1] /\ k + 1 \in 1..Len(inflight)
    BY <1>1
  <2> QED BY <2>1, <1>1
<1>3. i \in Nat /\ i <= served
  <2>1. i = inflight[1] /\ 1 \in 1..Len(inflight)
    BY <1>1
  <2> QED BY <2>1, <1>1
<1>4. UNCHANGED <<arrived, buffer, parsing, current, served, detached, fin, requests, heads, server>>
      /\ ~parsing
  BY DEF WriteDone
<1>5. CASE FinishResponse(i, left) /\ i # 0 /\ res[i] = "ended" /\ kept[i] = 0
  <2>1. i \in Ids
    <3>1. Ids = 1..Pieces /\ Pieces \in Nat /\ served <= Pieces
      BY QueueRange DEF PipelineIInv
    <3> HIDE DEF i
    <3> QED BY <3>1, <1>1, <1>3, <1>5
  <2> HIDE DEF i, left
  <2> QED BY <2>1, <1>2, <1>4, <1>5, FinishKeeps
<1>6. CASE /\ inflight' = left
           /\ UNCHANGED <<queue, parser, alive, res, blocked, kept, written, socket, idleTimer>>
  <2>1. /\ UNCHANGED <<arrived, buffer, parsing, current, served, detached, finReceived, closeAfterResponse,
                       httpAllowHalfOpen, complete, persistent, last, writes, closeRequested, idleCheck>>
        /\ Answered' = Answered
    BY <1>4, <1>6 DEF fin, requests, heads, server, Answered
  <2> HIDE DEF left
  <2>2. InputOK' /\ ResponseQueueOK' /\ BodyTurnOK'
    BY <2>1, <1>6 DEF PipelineIInv, InputOK, ResponseQueueOK, BodyTurnOK, NothingLeftIdle
  <2>3. SetsOK' /\ ResOK' /\ TurnOK'
    BY <2>1, <1>6 DEF PipelineIInv, SetsOK, ResOK, TurnOK
  <2>4. WrittenOK'
    BY <2>1, <1>2, <1>6 DEF PipelineIInv, WrittenOK
  <2> QED BY <2>2, <2>3, <2>4 DEF PipelineIInv
<1> QED BY <1>5, <1>6 DEF WriteDone

-----------------------------------------------------------------------------
(* The parser *)

\* A step that leaves the queue and the responses alone
LEMMA ResponsesStay ==
  ASSUME PipelineIInv,
         UNCHANGED <<queue, served, persistent, alive, res, blocked, kept, last, writes>>,
         complete' \subseteq 1..served, socket' = "open" => socket = "open"
  PROVE  ResponseQueueOK' /\ SetsOK' /\ ResOK' /\ TurnOK'
<1>1. Answered' = Answered
  BY DEF Answered
<1> QED BY <1>1 DEF PipelineIInv, ResponseQueueOK, SetsOK, ResOK, TurnOK

\* The bare 400, which is no response's
LEMMA RejectKeeps ==
  ASSUME PipelineIInv, Reject, served' \in Nat, served <= served', Answered' = Answered,
         UNCHANGED <<last, writes>>
  PROVE  WrittenOK' /\ socket' # "open" /\ socket' \in {socket, "ended"}
         /\ (socket = "closed" => socket' = "closed")
<1>1. Answered \in Nat /\ served \in Nat
  BY QueueRange DEF PipelineIInv, InputOK
<1>2. /\ written \in Seq(Nat) /\ inflight \in Seq(Nat) /\ Len(written) \in Nat
      /\ \A k \in 1..Len(inflight) : inflight[k] <= served
      /\ \A k \in 1..Len(written) : written[k] <= served
  BY DEF PipelineIInv, WrittenOK
<1>3. /\ \A k \in Ids : writes[k] > 0 => writes'[k] > 0
      /\ \A k \in 1..Len(written) : written[k] \in last' => written[k] \in last
      /\ Answered' \in Nat /\ Answered <= Answered' /\ 0 <= served' /\ 0 <= Answered' + 1 /\ 0 \in Nat
      /\ 0 <= served
  BY <1>1
<1>4. /\ socket' # "open" /\ socket' \in {socket, "ended"} /\ (socket = "closed" => socket' = "closed")
  BY DEF PipelineIInv, InputOK, Reject, EndConnection
<1>5. CASE inflight' = Append(inflight, 0) /\ written' = Append(written, 0)
  <2>1. /\ written' \in Seq(Nat) /\ Len(written) <= Len(written')
        /\ \A k \in 1..Len(written) : written'[k] = written[k]
        /\ \A k \in 1..Len(written') : k > Len(written) => written'[k] = 0
    BY <1>1, <1>2, <1>3, <1>5, NumberAppended
  <2>2. inflight' \in Seq(Nat) /\ \A k \in 1..Len(inflight') : inflight'[k] <= served
    BY <1>1, <1>2, <1>3, <1>5, NumberAppended
  <2>3. \A k \in 1..Len(inflight') : inflight'[k] <= served'
    BY <2>2, <1>1
  <2>4. WrittenOK'
    BY <2>1, <2>2, <2>3, <1>3, WrittenKept
  <2> QED BY <2>4, <1>4
<1>6. CASE inflight' = inflight /\ written' = written
  <2>1. \A k \in 1..Len(inflight') : inflight'[k] <= served'
    BY <1>1, <1>2, <1>6
  <2>2. WrittenOK'
    BY <2>1, <1>2, <1>3, <1>6, WrittenSame
  <2> QED BY <2>2, <1>4
<1> QED BY <1>5, <1>6 DEF Reject

\* One more request in the queue
LEMMA QueueAdded ==
  ASSUME PipelineIInv, NEW n \in 1..Pieces, n <= buffer, buffer' = buffer - n,
         served' = served + 1, queue' = Append(queue, served + 1)
  PROVE  /\ ResponseQueueOK' /\ Answered' = Answered /\ Len(queue') = Len(queue) + 1 /\ Len(queue) \in Nat
         /\ served \in Nat /\ served + 1 \in Ids /\ Answered \in Nat /\ Answered <= served
         /\ (queue = <<>> => Answered = served) /\ buffer' \in Nat /\ served' + buffer' <= arrived
         /\ Ids = 1..Pieces /\ Pieces \in Nat
<1> DEFINE m == Len(queue)
<1>1. /\ Answered \in Nat /\ m \in Nat /\ Answered + m = served /\ Ids = 1..Pieces /\ Pieces \in Nat
      /\ served \in Nat /\ buffer \in Nat /\ arrived \in Nat /\ arrived <= Pieces
      /\ served + buffer <= arrived /\ (queue = <<>> <=> m = 0)
  BY QueueRange DEF PipelineIInv, InputOK
<1>2. /\ queue \in Seq(Ids) /\ \A i \in 1..m : queue[i] = Answered + i
  BY DEF PipelineIInv, ResponseQueueOK
<1> HIDE DEF m
<1>3. served + 1 \in Ids /\ buffer' \in Nat /\ served' + buffer' <= arrived
      /\ Answered <= served /\ (queue = <<>> => Answered = served)
  BY <1>1
<1>4. /\ queue' \in Seq(Ids) /\ Len(queue') = m + 1 /\ queue'[m + 1] = served + 1
      /\ \A i \in 1..m : queue'[i] = queue[i]
  BY <1>2, <1>3 DEF m
<1>5. Answered' = Answered
  <2> DEFINE c == Len(queue')
  <2>1. Answered' = served' - c
    BY DEF Answered
  <2>2. c = m + 1 /\ served' = served + 1
    BY <1>4
  <2> HIDE DEF c
  <2> QED BY <2>1, <2>2, <1>1
<1>6. ResponseQueueOK'
  <2>1. \A i \in 1..m + 1 : queue'[i] = Answered + i
    <3>1. SUFFICES ASSUME NEW i \in 1..m + 1 PROVE queue'[i] = Answered + i
      OBVIOUS
    <3>2. i \in 1..m \/ i = m + 1
      BY <1>1
    <3> QED BY <3>2, <1>1, <1>2, <1>4
  <2>2. m + 1 <= served + 1
    BY <1>1
  <2> QED BY <2>1, <2>2, <1>4, <1>5 DEF ResponseQueueOK
<1> QED BY <1>1, <1>3, <1>4, <1>5, <1>6 DEF m

\* A piece of a request arrives.
LEMMA DataKeeps ==
  ASSUME PipelineIInv, NEW n \in 1..Pieces, Data(n)
  PROVE  PipelineIInv'
<1>1. /\ UNCHANGED <<parser, current, served, detached, queue, finReceived, closeAfterResponse,
                     httpAllowHalfOpen, complete, persistent, alive, res, blocked, kept, inflight, written,
                     last, writes, socket, closeRequested, idleCheck>>
      /\ Answered' = Answered /\ ~parsing /\ socket # "closed" /\ ~finReceived
  BY DEF Data, Listens, fin, requests, output, heads, server, Answered
<1>2. /\ arrived' = arrived + n /\ arrived' <= Pieces
      /\ \/ UNCHANGED <<buffer, parsing, idleTimer>>
         \/ buffer' = buffer + n /\ parsing' = TRUE /\ idleTimer' = FALSE
  BY DEF Data
<1>3. n \in Nat /\ arrived \in Nat /\ buffer \in Nat /\ served \in Nat /\ served + buffer <= arrived
  BY PipelineAssumption DEF PipelineIInv, InputOK
<1>4. arrived' \in Nat /\ buffer' \in Nat /\ served + buffer' <= arrived'
  BY <1>2, <1>3
<1>5. InputOK'
  BY <1>1, <1>2, <1>4 DEF PipelineIInv, InputOK
<1>6. BodyTurnOK'
  BY <1>1, <1>2 DEF PipelineIInv, BodyTurnOK, NothingLeftIdle
<1>7. ResponseQueueOK' /\ SetsOK' /\ ResOK' /\ TurnOK' /\ WrittenOK'
  BY <1>1 DEF PipelineIInv, ResponseQueueOK, SetsOK, ResOK, TurnOK, WrittenOK
<1> QED BY <1>5, <1>6, <1>7 DEF PipelineIInv

\* The parser waits for more.
LEMMA ParseStopsKeeps ==
  ASSUME PipelineIInv, ParseStops
  PROVE  PipelineIInv'
<1>1. /\ UNCHANGED <<arrived, buffer, current, served, detached, queue, finReceived, closeAfterResponse,
                     httpAllowHalfOpen, complete, persistent, alive, res, blocked, kept, inflight, written,
                     last, writes, socket, closeRequested, idleCheck>>
      /\ Answered' = Answered /\ parsing /\ ~parsing' /\ idleTimer' \in BOOLEAN /\ parsing' \in BOOLEAN
      /\ parser' = (IF parser = "body" THEN "body" ELSE "headers")
  BY DEF ParseStops, LoopEnds, fin, requests, output, heads, server, Answered
<1>2. InputOK'
  BY <1>1 DEF PipelineIInv, InputOK
<1>3. BodyTurnOK'
  BY <1>1 DEF PipelineIInv, BodyTurnOK, NothingLeftIdle
<1>4. ResponseQueueOK' /\ SetsOK' /\ ResOK' /\ TurnOK' /\ WrittenOK'
  BY <1>1 DEF PipelineIInv, ResponseQueueOK, SetsOK, ResOK, TurnOK, WrittenOK
<1> QED BY <1>2, <1>3, <1>4 DEF PipelineIInv

\* A head that is no HTTP ends the connection.
LEMMA ParseBadKeeps ==
  ASSUME PipelineIInv, NEW n \in 1..Pieces, ParseBad(n)
  PROVE  PipelineIInv'
<1>1. /\ UNCHANGED <<arrived, current, served, detached, queue, finReceived, closeAfterResponse,
                     httpAllowHalfOpen, complete, persistent, alive, res, blocked, kept,
                     last, writes, closeRequested, idleCheck>>
      /\ Answered' = Answered /\ parsing /\ ~parsing' /\ idleTimer' \in BOOLEAN /\ parsing' \in BOOLEAN
      /\ parser' = (IF parser = "body" THEN "body" ELSE "headers")
      /\ Reject /\ n <= buffer /\ buffer' = buffer - n
  BY DEF ParseBad, LoopEnds, fin, requests, heads, server, Answered
<1>2. n \in Nat /\ buffer \in Nat /\ served \in Nat /\ served + buffer <= arrived /\ arrived \in Nat
  BY PipelineAssumption DEF PipelineIInv, InputOK
<1>3. WrittenOK' /\ socket' # "open" /\ socket' \in {socket, "ended"} /\ (socket = "closed" => socket' = "closed")
  <2>1. served' \in Nat /\ served <= served'
    BY <1>1, <1>2
  <2> QED BY <2>1, <1>1, RejectKeeps
<1>4. InputOK'
  <2>1. buffer' \in Nat /\ served + buffer' <= arrived
    BY <1>1, <1>2
  <2> QED BY <2>1, <1>1, <1>3 DEF PipelineIInv, InputOK
<1>5. BodyTurnOK'
  BY <1>1, <1>3 DEF PipelineIInv, BodyTurnOK, NothingLeftIdle
<1>6. ResponseQueueOK' /\ SetsOK' /\ ResOK' /\ TurnOK'
  <2>1. complete' \subseteq 1..served
    BY <1>1 DEF PipelineIInv, SetsOK
  <2> QED BY <2>1, <1>1, <1>3, ResponsesStay
<1> QED BY <1>3, <1>4, <1>5, <1>6 DEF PipelineIInv

\* A body whose framing is refused ends the connection.
LEMMA ParseBadFramingKeeps ==
  ASSUME PipelineIInv, NEW n \in 1..Pieces, ParseBadFraming(n)
  PROVE  PipelineIInv'
<1> DEFINE i == served + 1
<1>1. /\ UNCHANGED <<arrived, detached, finReceived, closeAfterResponse, httpAllowHalfOpen, complete,
                     persistent, alive, kept, last, writes, closeRequested, idleCheck>>
      /\ parsing /\ ~parsing' /\ idleTimer' \in BOOLEAN /\ parsing' \in BOOLEAN
      /\ parser' = "headers" /\ Reject /\ n <= buffer /\ buffer' = buffer - n
      /\ served' = i /\ current' = i /\ res' = [res EXCEPT ![i] = "lost"]
      /\ queue' = Append(queue, i) /\ blocked' \subseteq blocked \cup {i}
  BY DEF ParseBadFraming, LoopEnds, fin, requests, heads, server
<1>2. /\ ResponseQueueOK' /\ Answered' = Answered /\ served \in Nat /\ i \in Ids /\ Answered \in Nat
      /\ Answered <= served /\ buffer' \in Nat /\ served' + buffer' <= arrived
      /\ Ids = 1..Pieces /\ Pieces \in Nat
  BY <1>1, QueueAdded
<1>3. WrittenOK' /\ socket' # "open" /\ socket' \in {socket, "ended"}
  <2>1. served' \in Nat /\ served <= served'
    BY <1>1, <1>2
  <2> QED BY <2>1, <1>1, <1>2, RejectKeeps
<1>4. InputOK'
  <2>1. current' \in Nat /\ current' <= served' /\ served' \in Nat
    BY <1>1, <1>2
  <2> QED BY <2>1, <1>1, <1>2, <1>3 DEF PipelineIInv, InputOK
<1>5. BodyTurnOK'
  BY <1>1 DEF BodyTurnOK, NothingLeftIdle
<1>6. /\ res' \in [Ids -> Statuses] /\ res'[i] = "lost" /\ \A k \in Ids \ {i} : res'[k] = res[k]
  BY <1>1, <1>2 DEF PipelineIInv, ResOK, Statuses
<1>7. SetsOK'
  <2>1. 1..served \subseteq 1..served' /\ i \notin 1..served /\ 1..served \subseteq Ids
    BY <1>1, <1>2
  <2>2. complete \subseteq 1..served /\ persistent \subseteq 1..served /\ alive \subseteq persistent
        /\ last \subseteq 1..served /\ \A k \in alive : k \notin last /\ res[k] = "finished"
    BY DEF PipelineIInv, SetsOK
  <2>3. \A k \in alive : res'[k] = res[k]
    BY <2>1, <2>2, <1>6
  <2>4. complete' \subseteq 1..served' /\ persistent' \subseteq 1..served' /\ last' \subseteq 1..served'
    BY <2>1, <2>2, <1>1
  <2> QED BY <2>2, <2>3, <2>4, <1>1 DEF SetsOK
<1>8. ResOK'
  <2>1. blocked' \subseteq Ids
    BY <1>1, <1>2 DEF PipelineIInv, ResOK
  <2>2. SUFFICES ASSUME NEW k \in Ids
                 PROVE  /\ res'[k] = "none" <=> k > served'
                        /\ k <= Answered => res'[k] = "finished"
                        /\ res'[k] \in {"none", "open"} => writes[k] <= MaxWrites
                        /\ res'[k] \in {"finished", "tick"} => kept[k] = 0
    BY <2>1, <1>1, <1>2, <1>6 DEF PipelineIInv, ResOK
  <2>3. CASE k = i
    BY <2>3, <1>1, <1>2, <1>6
  <2>4. CASE k # i
    <3>1. k > served <=> k > served'
      BY <2>4, <1>1, <1>2
    <3> QED BY <3>1, <2>4, <1>6 DEF PipelineIInv, ResOK
  <2> QED BY <2>3, <2>4
<1>9. TurnOK'
  BY <1>3 DEF TurnOK
<1> QED BY <1>2, <1>3, <1>4, <1>5, <1>7, <1>8, <1>9 DEF PipelineIInv

\* An upgrade takes the connection away from the server.
LEMMA ParseUpgradeKeeps ==
  ASSUME PipelineIInv, ParseUpgrade
  PROVE  PipelineIInv'
<1>1. /\ UNCHANGED <<arrived, served, queue, finReceived, closeAfterResponse, httpAllowHalfOpen, complete,
                     persistent, alive, res, blocked, kept, written, last, writes, closeRequested, idleCheck>>
      /\ parsing /\ ~parsing' /\ idleTimer' \in BOOLEAN /\ parsing' \in BOOLEAN
      /\ parser' = "headers" /\ buffer' = 0 /\ detached' = TRUE /\ current' = 0
      /\ socket' \in {socket, "closed"} /\ Answered' = Answered /\ inflight' \in {inflight, <<>>}
  BY DEF ParseUpgrade, LoopEnds, fin, requests, heads, server, Answered
<1>2. InputOK'
  <2>1. served + 0 <= arrived
    <3>1. served \in Nat /\ buffer \in Nat /\ arrived \in Nat /\ served + buffer <= arrived
      BY DEF PipelineIInv, InputOK
    <3> QED BY <3>1
  <2>2. current' \in Nat /\ current' <= served
    BY <1>1 DEF PipelineIInv, InputOK
  <2>3. buffer' \in Nat /\ served' + buffer' <= arrived'
    BY <2>1, <1>1
  <2> QED BY <2>2, <2>3, <1>1 DEF PipelineIInv, InputOK
<1>3. BodyTurnOK'
  BY <1>1 DEF BodyTurnOK, NothingLeftIdle
<1>4. ResponseQueueOK' /\ SetsOK' /\ ResOK' /\ TurnOK'
  <2>1. complete' \subseteq 1..served
    BY <1>1 DEF PipelineIInv, SetsOK
  <2> QED BY <2>1, <1>1, ResponsesStay
<1>5. WrittenOK'
  <2>1. inflight' \in Seq(Nat) /\ \A k \in 1..Len(inflight') : inflight'[k] <= served
    <3>1. CASE inflight' = inflight
      BY <3>1 DEF PipelineIInv, WrittenOK
    <3>2. CASE inflight' = <<>>
      BY <3>2
    <3> QED BY <3>1, <3>2, <1>1
  <2> QED BY <2>1, <1>1 DEF PipelineIInv, WrittenOK
<1> QED BY <1>2, <1>3, <1>4, <1>5 DEF PipelineIInv

\* A head comes: a request and its response join the queue.
LEMMA ParseHeadKeeps ==
  ASSUME PipelineIInv, NEW n \in 1..Pieces, ParseHead(n)
  PROVE  PipelineIInv'
<1> DEFINE i == served + 1
           drop == MaxRequests > 0 /\ i > MaxRequests
<1>1. /\ UNCHANGED <<arrived, parsing, detached, finReceived, closeAfterResponse, httpAllowHalfOpen, alive,
                     socket, idleTimer, closeRequested, idleCheck>>
      /\ parsing /\ n <= buffer /\ buffer' = buffer - n /\ served' = i /\ queue' = Append(queue, i)
      /\ \/ complete' = complete \cup {i} /\ current' = 0 /\ parser' = "idle"
         \/ complete' = complete /\ current' = i /\ parser' = "body"
      /\ blocked' = (IF queue = <<>> THEN blocked ELSE blocked \cup {i})
  BY DEF ParseHead, MustWait, fin, server
<1>2. /\ ResponseQueueOK' /\ Answered' = Answered /\ served \in Nat /\ i \in Ids /\ Answered \in Nat
      /\ Answered <= served /\ (queue = <<>> => Answered = served)
      /\ buffer' \in Nat /\ served' + buffer' <= arrived /\ Ids = 1..Pieces /\ Pieces \in Nat
      /\ Len(queue') = Len(queue) + 1 /\ Len(queue) \in Nat
  BY <1>1, QueueAdded
<1>3. persistent' \subseteq persistent \cup {i} /\ persistent \subseteq persistent'
  BY DEF ParseHead
<1>4. /\ complete \subseteq 1..served /\ persistent \subseteq 1..served /\ alive \subseteq persistent
      /\ last \subseteq 1..served /\ \A k \in alive : k \notin last /\ res[k] = "finished"
  BY DEF PipelineIInv, SetsOK
<1>5. /\ 1..served \subseteq 1..served' /\ i \notin 1..served /\ 1..served \subseteq Ids /\ i \in 1..served'
  BY <1>1, <1>2
<1>6. InputOK'
  <2>1. current' \in Nat /\ current' <= served' /\ served' \in Nat /\ parser' \in {"idle", "body"}
    BY <1>1, <1>2
  <2> QED BY <2>1, <1>1, <1>2 DEF PipelineIInv, InputOK
<1>7. BodyTurnOK'
  <2>1. parser' = "body" => current' = served' /\ served' \notin complete' /\ current' > 0
    BY <1>1, <1>2, <1>4, <1>5
  <2>2. Len(queue') > 0
    BY <1>2
  <2> QED BY <2>1, <2>2, <1>1 DEF PipelineIInv, BodyTurnOK, NothingLeftIdle
\* What the new response writes state once
<1>8. \/ /\ res' = [res EXCEPT ![i] = "open"]
         /\ UNCHANGED <<kept, inflight, written, last, writes>>
      \/ /\ last' = last \cup {i} /\ writes' = [writes EXCEPT ![i] = 1]
         /\ \/ res' = [res EXCEPT ![i] = "aborted"] /\ UNCHANGED <<kept, inflight, written>>
            \/ /\ res' = [res EXCEPT ![i] = "ended"] /\ kept' = [kept EXCEPT ![i] = 1]
               /\ UNCHANGED <<inflight, written>>
            \/ /\ socket = "open" /\ queue = <<>> /\ res' = [res EXCEPT ![i] = "ended"] /\ kept' = kept
               /\ inflight' = Append(inflight, i) /\ written' = Append(written, i)
  <2>1. CASE ~drop
    BY <2>1 DEF ParseHead, heads
  <2>2. CASE drop
    <3>1. /\ last' = last \cup {i} /\ writes' = [writes EXCEPT ![i] = 1]
          /\ IF socket # "open"
             THEN res' = [res EXCEPT ![i] = "aborted"] /\ UNCHANGED <<kept, inflight, written>>
             ELSE /\ res' = [res EXCEPT ![i] = "ended"]
                  /\ IF MustWait(i)
                     THEN kept' = [kept EXCEPT ![i] = 1] /\ UNCHANGED <<inflight, written>>
                     ELSE /\ inflight' = Append(inflight, i) /\ written' = Append(written, i)
                          /\ kept' = kept
      BY <2>2 DEF ParseHead
    <3> QED BY <3>1 DEF MustWait
  <2> QED BY <2>1, <2>2
<1>9. /\ res \in [Ids -> Statuses] /\ kept \in [Ids -> Nat] /\ writes \in [Ids -> 0..MaxWrites + 1]
      /\ 1 \in 0..MaxWrites + 1 /\ MaxWrites \in Nat
  BY PipelineAssumption DEF PipelineIInv, ResOK
<1>10. /\ last \subseteq last' /\ last' \subseteq last \cup {i}
       /\ res' \in [Ids -> Statuses] /\ kept' \in [Ids -> Nat] /\ writes' \in [Ids -> 0..MaxWrites + 1]
       /\ \A k \in Ids \ {i} : res'[k] = res[k] /\ kept'[k] = kept[k] /\ writes'[k] = writes[k]
       /\ res'[i] \in {"open", "aborted", "ended"}
       /\ (res'[i] = "open" => writes'[i] = writes[i] /\ kept'[i] = kept[i])
       /\ (res'[i] # "open" => writes'[i] = 1)
  <2> HIDE DEF i
  <2>1. CASE res' = [res EXCEPT ![i] = "open"] /\ UNCHANGED <<kept, inflight, written, last, writes>>
    BY <2>1, <1>2, <1>9 DEF Statuses
  <2>2. CASE /\ last' = last \cup {i} /\ writes' = [writes EXCEPT ![i] = 1]
             /\ res' = [res EXCEPT ![i] = "aborted"] /\ UNCHANGED kept
    BY <2>2, <1>2, <1>9 DEF Statuses
  <2>3. CASE /\ last' = last \cup {i} /\ writes' = [writes EXCEPT ![i] = 1]
             /\ res' = [res EXCEPT ![i] = "ended"] /\ kept' \in {kept, [kept EXCEPT ![i] = 1]}
    <3>1. kept' \in [Ids -> Nat] /\ \A k \in Ids \ {i} : kept'[k] = kept[k]
      <4>1. CASE kept' = kept
        BY <4>1, <1>9
      <4>2. CASE kept' = [kept EXCEPT ![i] = 1]
        BY <4>2, <1>9
      <4> QED BY <4>1, <4>2, <2>3
    <3>2. res' \in [Ids -> Statuses] /\ res'[i] = "ended" /\ \A k \in Ids \ {i} : res'[k] = res[k]
      BY <2>3, <1>2, <1>9 DEF Statuses
    <3>3. writes' \in [Ids -> 0..MaxWrites + 1] /\ writes'[i] = 1 /\ \A k \in Ids \ {i} : writes'[k] = writes[k]
      BY <2>3, <1>2, <1>9
    <3> QED BY <2>3, <3>1, <3>2, <3>3
  <2> QED BY <2>1, <2>2, <2>3, <1>8
<1> HIDE DEF drop
<1>11. SetsOK'
  <2>1. complete' \subseteq 1..served' /\ persistent' \subseteq 1..served' /\ last' \subseteq 1..served'
        /\ alive' \subseteq persistent'
    BY <1>1, <1>3, <1>4, <1>5, <1>10
  <2>2. ASSUME NEW k \in alive PROVE k \notin last' /\ res'[k] = "finished"
    <3>1. k \in 1..served /\ k # i /\ k \in Ids
      BY <1>4, <1>5
    <3> QED BY <3>1, <1>4, <1>10
  <2> QED BY <2>1, <2>2, <1>1 DEF SetsOK
<1>12. ResOK'
  <2>1. blocked' \subseteq Ids
    BY <1>1, <1>2 DEF PipelineIInv, ResOK
  <2>2. SUFFICES ASSUME NEW k \in Ids
                 PROVE  /\ res'[k] = "none" <=> k > served'
                        /\ k <= Answered => res'[k] = "finished"
                        /\ res'[k] \in {"none", "open"} => writes'[k] <= MaxWrites
                        /\ res'[k] \in {"finished", "tick"} => kept'[k] = 0
                        /\ kept'[k] > 0 => writes'[k] > 0
    BY <2>1, <1>2, <1>10 DEF ResOK
  <2>3. CASE k = i
    <3>1. k # 0 /\ ~(k > served') /\ ~(k <= Answered)
      BY <2>3, <1>1, <1>2
    <3>2. kept[k] > 0 => writes[k] > 0
      BY DEF PipelineIInv, ResOK
    <3>3. res'[k] = "open" => writes'[k] <= MaxWrites
      <4>1. writes[k] <= MaxWrites
        <5>1. k > served
          BY <2>3, <1>2
        <5> QED BY <5>1 DEF PipelineIInv, ResOK
      <4> QED BY <4>1, <2>3, <1>10
    <3> QED BY <3>1, <3>2, <3>3, <2>3, <1>10
  <2>4. CASE k # i
    <3>1. k > served <=> k > served'
      BY <2>4, <1>1, <1>2
    <3> QED BY <3>1, <2>4, <1>10 DEF PipelineIInv, ResOK
  <2> QED BY <2>3, <2>4<1>13. TurnOK'
  <2>1. SUFFICES ASSUME socket = "open"
                 PROVE  /\ \A k \in Ids : Answered + 1 < k /\ k <= served' => k \in blocked'
                        /\ \A k \in Ids : k <= Answered => k \notin last'
    BY <1>1, <1>2 DEF TurnOK
  <2>2. /\ \A k \in Ids : Answered + 1 < k /\ k <= served => k \in blocked
        /\ \A k \in Ids : k <= Answered => k \notin last
    BY <2>1 DEF PipelineIInv, TurnOK
  <2>3. ASSUME NEW k \in Ids, Answered + 1 < k, k <= served' PROVE k \in blocked'
    <3>1. k <= served \/ k = i
      BY <2>3, <1>1, <1>2
    <3>2. k = i => queue # <<>>
      BY <2>3, <1>2
    <3> QED BY <3>1, <3>2, <2>2, <2>3, <1>1
  <2>4. ASSUME NEW k \in Ids, k <= Answered PROVE k \notin last'
    <3>1. k # i
      BY <2>4, <1>2
    <3> QED BY <3>1, <2>2, <2>4, <1>10
  <2> QED BY <2>3, <2>4
<1>14. WrittenOK'
  <2>1. /\ written \in Seq(Nat) /\ inflight \in Seq(Nat) /\ Len(written) \in Nat
        /\ \A k \in 1..Len(inflight) : inflight[k] <= served
        /\ \A k \in 1..Len(written) : written[k] \in Nat /\ written[k] <= served
    BY DEF PipelineIInv, WrittenOK
  <2>2. \A k \in Ids : writes[k] > 0 => writes'[k] > 0
    <3>1. writes'[i] = writes[i] \/ writes'[i] = 1
      BY <1>2, <1>10
    <3> QED BY <3>1, <1>10
  <2>3. \A k \in 1..Len(written) : written[k] \in last' => written[k] \in last
    <3>1. \A k \in 1..Len(written) : written[k] # i
      BY <2>1, <1>2
    <3> QED BY <3>1, <1>10
  <2>4. /\ served' \in Nat /\ served <= served' /\ Answered' \in Nat /\ Answered <= Answered'
        /\ 0 \in Nat /\ 0 <= served' /\ 0 <= Answered' + 1 /\ i \in Nat /\ i <= served'
    BY <1>1, <1>2
  <2>7. \A k \in 1..Len(inflight) : inflight[k] <= served'
    <3>1. SUFFICES ASSUME NEW k \in 1..Len(inflight) PROVE inflight[k] <= i
      BY <1>1
    <3>2. inflight[k] \in Nat /\ inflight[k] <= served
      BY <2>1
    <3> QED BY <3>2, <1>2
  <2>5. CASE inflight' = inflight /\ written' = written
    <3>1. \A k \in 1..Len(inflight') : inflight'[k] <= served'
      BY <2>5, <2>7
    <3> QED BY <3>1, <2>1, <2>2, <2>3, <2>4, <2>5, WrittenSame
  <2>6. CASE /\ socket = "open" /\ queue = <<>> /\ writes' = [writes EXCEPT ![i] = 1]
             /\ inflight' = Append(inflight, i) /\ written' = Append(written, i)
    <3>1. \A k \in 1..Len(written) : written[k] <= served'
      <4>1. SUFFICES ASSUME NEW k \in 1..Len(written) PROVE written[k] <= i
        BY <1>1
      <4>2. written[k] \in Nat /\ written[k] <= served
        BY <2>1
      <4> QED BY <4>2, <1>2
    <3>2. /\ written' \in Seq(Nat) /\ Len(written) <= Len(written')
          /\ \A k \in 1..Len(written) : written'[k] = written[k]
          /\ \A k \in 1..Len(written') : k > Len(written) => written'[k] = i
      BY <3>1, <2>1, <2>4, <2>6, NumberAppended
    <3>4. inflight' \in Seq(Nat) /\ \A k \in 1..Len(inflight') : inflight'[k] <= served'
      BY <2>7, <2>1, <2>4, <2>6, NumberAppended
    <3>5. \A k \in 1..Len(written) : written[k] <= i /\ (written[k] \in last' => written[k] = i)
      <4>1. SUFFICES ASSUME NEW k \in 1..Len(written) PROVE written[k] <= i /\ written[k] \notin last
        BY <2>3
      <4>2. written[k] <= i
        BY <2>1, <1>2
      <4>3. ASSUME written[k] \in last PROVE FALSE
        <5>1. written[k] \in Ids /\ written[k] <= Answered
          BY <4>3, <2>1, <2>6, <1>2, <1>4, <1>5
        <5> QED BY <5>1, <4>3, <2>6 DEF PipelineIInv, TurnOK
      <4> QED BY <4>2, <4>3
    <3>6. i <= Answered' + 1 /\ writes'[i] > 0
      BY <2>6, <1>2, <1>9
    <3> QED BY <3>2, <3>4, <3>5, <3>6, <2>2, <2>3, <2>4, WrittenKept
  <2> QED BY <2>5, <2>6, <1>8
<1> QED BY <1>2, <1>6, <1>7, <1>11, <1>12, <1>13, <1>14 DEF PipelineIInv

\* A piece of the body of the last request, or the end of it
LEMMA ParseBodyKeeps ==
  ASSUME PipelineIInv, NEW n \in 1..Pieces, ParseBody(n)
  PROVE  PipelineIInv'
<1> DEFINE i == current
<1>1. /\ UNCHANGED <<arrived, parsing, served, detached, finReceived, closeAfterResponse, httpAllowHalfOpen,
                     persistent, alive, last, writes, closeRequested, idleCheck>>
      /\ parsing /\ parser = "body" /\ n <= buffer /\ buffer' = buffer - n
      /\ \/ UNCHANGED <<parser, current, queue, complete, res, blocked, kept, inflight, written, socket,
                        idleTimer>>
         \/ /\ complete' = complete \cup {i} /\ current' = 0
            /\ \/ /\ Head(queue) = i /\ res[i] = "finished"
                  /\ Finalize(i \in alive, res, inflight, 0, buffer - n, "idle")
               \/ /\ parser' = "idle"
                  /\ UNCHANGED <<queue, res, blocked, kept, inflight, written, socket, idleTimer>>
  BY DEF ParseBody, fin, heads, server, output
<1>2. /\ n \in Nat /\ buffer \in Nat /\ served \in Nat /\ served + buffer <= arrived /\ arrived \in Nat
      /\ current \in Nat /\ current <= served
  BY PipelineAssumption DEF PipelineIInv, InputOK
<1>3. buffer' \in Nat /\ served + buffer' <= arrived
  BY <1>1, <1>2
<1>4. current > 0 /\ Len(queue) > 0 /\ ~finReceived /\ socket # "closed"
  BY <1>1 DEF PipelineIInv, BodyTurnOK
<1>5. i \in Ids /\ i \in 1..served /\ queue # <<>>
  <2>1. Ids = 1..Pieces /\ Pieces \in Nat /\ served <= Pieces /\ Len(queue) \in Nat
        /\ (queue = <<>> <=> Len(queue) = 0)
    BY QueueRange DEF PipelineIInv
  <2> QED BY <2>1, <1>2, <1>4
<1>6. CASE UNCHANGED <<parser, current, queue, complete, res, blocked, kept, inflight, written, socket, idleTimer>>
  <2>1. InputOK'
    BY <1>1, <1>3, <1>6 DEF PipelineIInv, InputOK
  <2>2. BodyTurnOK'
    BY <1>1, <1>6 DEF PipelineIInv, BodyTurnOK, NothingLeftIdle
  <2>3. Answered' = Answered
    BY <1>1, <1>6 DEF Answered
  <2>4. ResponseQueueOK' /\ SetsOK' /\ ResOK' /\ TurnOK' /\ WrittenOK'
    BY <2>3, <1>1, <1>6 DEF PipelineIInv, ResponseQueueOK, SetsOK, ResOK, TurnOK, WrittenOK
  <2> QED BY <2>1, <2>2, <2>4 DEF PipelineIInv
<1>7. ASSUME complete' = complete \cup {i} PROVE complete' \subseteq 1..served
  BY <1>5, <1>7 DEF PipelineIInv, SetsOK
<1>8. CASE /\ complete' = complete \cup {i} /\ current' = 0 /\ parser' = "idle"
           /\ UNCHANGED <<queue, res, blocked, kept, inflight, written, socket, idleTimer>>
  <2>1. InputOK'
    <3>1. current' \in Nat /\ current' <= served
      BY <1>2, <1>8
    <3> QED BY <3>1, <1>1, <1>3, <1>8 DEF PipelineIInv, InputOK
  <2>2. BodyTurnOK'
    BY <1>1, <1>4, <1>8 DEF BodyTurnOK, NothingLeftIdle
  <2>3. Answered' = Answered
    BY <1>1, <1>8 DEF Answered
  <2>4. ResponseQueueOK' /\ SetsOK' /\ ResOK' /\ TurnOK'
    BY <1>1, <1>7, <1>8, ResponsesStay
  <2>5. WrittenOK'
    BY <2>3, <1>1, <1>8 DEF PipelineIInv, WrittenOK
  <2> QED BY <2>1, <2>2, <2>4, <2>5 DEF PipelineIInv
<1>9. CASE /\ complete' = complete \cup {i} /\ current' = 0 /\ Head(queue) = i /\ res[i] = "finished"
           /\ Finalize(i \in alive, res, inflight, 0, buffer - n, "idle")
  <2> DEFINE goesOn == i \in alive
             buf == buffer - n
  <2>1. /\ goesOn \in BOOLEAN /\ (goesOn => i \notin last) /\ kept[i] = 0 /\ res \in [Ids -> Statuses]
        /\ inflight \in Seq(Nat) /\ \A k \in 1..Len(inflight) : inflight[k] <= served
    BY <1>5, <1>9 DEF PipelineIInv, SetsOK, ResOK, WrittenOK
  <2>2. Finalize(goesOn, res, inflight, 0, buf, "idle")
    BY <1>9
  <2> HIDE DEF goesOn, buf, i
  <2>3. /\ ResponseQueueOK' /\ ResOK' /\ TurnOK' /\ WrittenOK'
        /\ \A k \in Ids : res[k] = "finished" => res'[k] = "finished"
        /\ parser' = (IF queue' = <<>> /\ 0 = 0 /\ buf = 0 THEN "idle" ELSE "idle")
        /\ socket' \in {socket, "ended"} /\ (socket = "closed" => socket' = "closed")
        /\ idleTimer' \in BOOLEAN
    BY <2>1, <2>2, <1>1, <1>5, <1>9, FinalizeKeeps
  <2>4. parser' = "idle"
    BY <2>3
  <2>5. InputOK'
    <3>1. current' \in Nat /\ current' <= served /\ socket' \in {"open", "ended", "closed"}
      BY <2>3, <1>2, <1>9 DEF PipelineIInv, InputOK
    <3> QED BY <3>1, <2>3, <2>4, <1>1, <1>3 DEF PipelineIInv, InputOK
  <2>6. BodyTurnOK'
    BY <2>3, <2>4, <1>1, <1>4 DEF BodyTurnOK, NothingLeftIdle
  <2>7. SetsOK'
    <3>1. \A k \in alive : k \in Ids
      BY QueueRange DEF PipelineIInv, SetsOK
    <3> QED BY <3>1, <2>3, <1>1, <1>7, <1>9 DEF PipelineIInv, SetsOK
  <2> QED BY <2>3, <2>5, <2>6, <2>7 DEF PipelineIInv
<1> QED BY <1>1, <1>6, <1>8, <1>9

-----------------------------------------------------------------------------
(* The end of the connection *)

\* The client ends its side.
LEMMA FinKeeps ==
  ASSUME PipelineIInv, Fin
  PROVE  PipelineIInv'
<1>1. /\ UNCHANGED <<arrived, buffer, parser, parsing, current, served, detached, queue, httpAllowHalfOpen,
                     persistent, alive, res, blocked, kept, inflight, written, last, writes, idleTimer,
                     closeRequested, idleCheck>>
      /\ ~parsing /\ finReceived' = TRUE /\ closeAfterResponse' \in {TRUE, closeAfterResponse}
      /\ Answered' = Answered /\ complete' \in {complete, complete \cup ToSet(queue)}
  BY DEF Fin, Listens, input, output, heads, server, Answered
<1>2. /\ socket' \in {"open", "ended", "closed"} /\ (socket' = "open" => socket = "open")
  BY DEF Fin, EndConnection, PipelineIInv, InputOK
<1>3. complete' \subseteq 1..served
  <2>1. ToSet(queue) = (Answered + 1)..served /\ Answered \in Nat
    BY QueueRange DEF PipelineIInv
  <2>2. ToSet(queue) \subseteq 1..served
    BY <2>1 DEF PipelineIInv, InputOK
  <2> QED BY <2>2, <1>1 DEF PipelineIInv, SetsOK
<1>4. InputOK'
  BY <1>1, <1>2 DEF PipelineIInv, InputOK
<1>5. BodyTurnOK'
  BY <1>1 DEF PipelineIInv, BodyTurnOK, NothingLeftIdle
<1>6. ResponseQueueOK' /\ SetsOK' /\ ResOK' /\ TurnOK'
  BY <1>1, <1>2, <1>3, ResponsesStay
<1>7. WrittenOK'
  BY <1>1 DEF PipelineIInv, WrittenOK
<1> QED BY <1>4, <1>5, <1>6, <1>7 DEF PipelineIInv

\* The connection closes: what is in the queue is aborted.
LEMMA ClosedKeeps ==
  ASSUME PipelineIInv, Listens, Closed
  PROVE  PipelineIInv'
<1>1. /\ UNCHANGED <<arrived, buffer, parser, parsing, current, served, detached, queue, finReceived,
                     closeAfterResponse, httpAllowHalfOpen, persistent, alive, written, last, writes,
                     closeRequested, idleCheck>>
      /\ ~parsing /\ socket' = "closed" /\ idleTimer' = FALSE /\ inflight' = <<>>
      /\ Answered' = Answered
  BY DEF Closed, Listens, input, fin, heads, server, Answered
<1>2. ToSet(queue) = (Answered + 1)..served /\ Answered \in Nat /\ served \in Nat
  BY QueueRange DEF PipelineIInv, InputOK
<1>3. complete' \subseteq 1..served
  <2>1. ToSet(queue) \subseteq 1..served
    BY <1>2
  <2> QED BY <2>1 DEF Closed, PipelineIInv, SetsOK
<1>4. InputOK'
  BY <1>1 DEF PipelineIInv, InputOK
<1>5. BodyTurnOK'
  BY <1>1 DEF PipelineIInv, BodyTurnOK, NothingLeftIdle
<1>6. ResponseQueueOK' /\ TurnOK' /\ WrittenOK'
  <2>1. inflight' \in Seq(Nat) /\ \A k \in 1..Len(inflight') : inflight'[k] <= served
    BY <1>1
  <2> QED BY <2>1, <1>1 DEF PipelineIInv, ResponseQueueOK, TurnOK, WrittenOK
<1>7. /\ res' \in [Ids -> Statuses] /\ kept' \in [Ids -> Nat] /\ blocked' \subseteq Ids
      /\ \A k \in Ids : \/ res'[k] = res[k] /\ kept'[k] = kept[k]
                        \/ /\ res'[k] = "aborted" /\ kept'[k] = 0 /\ Answered < k /\ k <= served
                           /\ res[k] \notin {"finished", "tick"}
  <2>1. res \in [Ids -> Statuses] /\ kept \in [Ids -> Nat] /\ blocked \subseteq Ids
    BY DEF PipelineIInv, ResOK
  <2>2. CASE detached
    BY <2>1, <2>2 DEF Closed
  <2>3. CASE ~detached
    <3> DEFINE gone == {k \in ToSet(queue) : res[k] \notin {"finished", "tick"}}
    <3>1. /\ res' = [k \in Ids |-> IF k \in gone THEN "aborted" ELSE res[k]]
          /\ blocked' = blocked \ ToSet(queue)
          /\ kept' = [k \in Ids |-> IF k \in gone THEN 0 ELSE kept[k]]
      BY <2>3 DEF Closed
    <3>2. \A k \in gone : Answered < k /\ k <= served /\ res[k] \notin {"finished", "tick"}
      BY <1>2
    <3> HIDE DEF gone
    <3>3. res' \in [Ids -> Statuses] /\ kept' \in [Ids -> Nat] /\ blocked' \subseteq Ids
      BY <2>1, <3>1 DEF Statuses
    <3> QED BY <3>1, <3>2, <3>3
  <2> QED BY <2>2, <2>3
<1>8. ResOK'
  <2>1. SUFFICES ASSUME NEW k \in Ids
                 PROVE  /\ res'[k] = "none" <=> k > served
                        /\ k <= Answered => res'[k] = "finished"
                        /\ res'[k] \in {"none", "open"} => writes[k] <= MaxWrites
                        /\ res'[k] \in {"finished", "tick"} => kept'[k] = 0
                        /\ kept'[k] > 0 => writes[k] > 0
    BY <1>1, <1>7 DEF PipelineIInv, ResOK
  <2>2. CASE res'[k] = res[k] /\ kept'[k] = kept[k]
    BY <2>2 DEF PipelineIInv, ResOK
  <2>3. CASE res'[k] = "aborted" /\ kept'[k] = 0 /\ Answered < k /\ k <= served
    <3>1. k \in Int
      BY DEF Ids
    <3> QED BY <2>3, <3>1, <1>2
  <2> QED BY <2>2, <2>3, <1>7
<1>9. SetsOK'
  <2>1. \A k \in alive : k \in Ids
    BY QueueRange DEF PipelineIInv, SetsOK
  <2> QED BY <2>1, <1>1, <1>3, <1>7 DEF PipelineIInv, SetsOK
<1> QED BY <1>4, <1>5, <1>6, <1>8, <1>9 DEF PipelineIInv

\* close() of the server ends the idle connections.
LEMMA ServerClosesKeeps ==
  ASSUME PipelineIInv, CloseServer \/ CloseIdle
  PROVE  PipelineIInv'
<1>1. /\ UNCHANGED <<arrived, buffer, parser, parsing, current, served, detached, queue, finReceived,
                     closeAfterResponse, httpAllowHalfOpen, complete, persistent, alive, res, blocked, kept,
                     inflight, written, last, writes, idleTimer>>
      /\ closeRequested' \in {TRUE, closeRequested} /\ idleCheck' \in BOOLEAN
      /\ Answered' = Answered /\ ~parsing
  BY DEF CloseServer, CloseIdle, input, fin, requests, output, heads, Answered
<1>2. /\ socket' \in {"open", "ended", "closed"} /\ (socket' = "open" => socket = "open")
      /\ (socket' # "closed" => socket # "closed")
  BY DEF CloseServer, CloseIdle, EndConnection, PipelineIInv, InputOK
<1>3. InputOK'
  BY <1>1, <1>2 DEF PipelineIInv, InputOK
<1>4. BodyTurnOK'
  BY <1>1, <1>2 DEF PipelineIInv, BodyTurnOK, NothingLeftIdle
<1>5. ResponseQueueOK' /\ SetsOK' /\ ResOK' /\ TurnOK' /\ WrittenOK'
  BY <1>1, <1>2 DEF PipelineIInv, ResponseQueueOK, SetsOK, ResOK, TurnOK, WrittenOK
<1> QED BY <1>3, <1>4, <1>5 DEF PipelineIInv

-----------------------------------------------------------------------------

\* Every step of a connection keeps the inductive invariant.
LEMMA PipelineStep == PipelineIInv /\ [PipelineNext]_PipelineVars => PipelineIInv'
<1> SUFFICES ASSUME PipelineIInv, [PipelineNext]_PipelineVars PROVE PipelineIInv'
  OBVIOUS
<1>1. CASE UNCHANGED PipelineVars
  <2>1. /\ UNCHANGED <<arrived, buffer, parser, parsing, current, served, detached, queue, finReceived,
                       closeAfterResponse, httpAllowHalfOpen, complete, persistent, alive, res, blocked,
                       kept, inflight, written, last, writes, socket, idleTimer, closeRequested, idleCheck>>
        /\ Answered' = Answered
    BY <1>1 DEF PipelineVars, input, fin, requests, output, heads, server, Answered
  <2>2. InputOK' /\ BodyTurnOK'
    BY <2>1 DEF PipelineIInv, InputOK, BodyTurnOK, NothingLeftIdle
  <2>3. ResponseQueueOK' /\ SetsOK' /\ ResOK' /\ TurnOK' /\ WrittenOK'
    BY <2>1 DEF PipelineIInv, ResponseQueueOK, SetsOK, ResOK, TurnOK, WrittenOK
  <2> QED BY <2>2, <2>3 DEF PipelineIInv
<1>2. ASSUME NEW i \in Ids, Write(i) \/ EndWithOutput(i) \/ EndSilently(i) \/ Tick(i) PROVE PipelineIInv'
  BY <1>2, WriteKeeps, EndSilentlyKeeps, TickKeeps
<1>3. CASE WriteDone
  BY <1>3, WriteDoneKeeps
<1>4. CASE Parse
  BY <1>4, ParseStopsKeeps, ParseUpgradeKeeps, ParseBadKeeps, ParseBadFramingKeeps, ParseHeadKeeps,
     ParseBodyKeeps DEF Parse
<1>5. ASSUME NEW n \in 1..Pieces, Data(n) PROVE PipelineIInv'
  BY <1>5, DataKeeps
<1>6. CASE Fin
  BY <1>6, FinKeeps
<1>7. CASE BothEnded \/ Reset \/ IdleTimeout
  BY <1>7, ClosedKeeps DEF BothEnded, Reset, IdleTimeout
<1>8. CASE CloseServer \/ CloseIdle
  BY <1>8, ServerClosesKeeps
<1> QED BY <1>1, <1>2, <1>3, <1>4, <1>5, <1>6, <1>7, <1>8 DEF PipelineNext

\* A new connection satisfies the inductive invariant.
LEMMA PipelineStarts == PipelineInit => PipelineIInv
<1> SUFFICES ASSUME PipelineInit PROVE PipelineIInv
  OBVIOUS
<1>1. /\ Pieces \in Nat /\ MaxWrites \in Nat /\ Ids = 1..Pieces /\ queue = <<>> /\ served = 0
      /\ queue \in Seq(Ids) /\ Len(queue) = 0
  BY PipelineAssumption DEF PipelineInit, Ids
<1>2. Answered = 0
  <2>1. Answered = 0 - 0
    BY <1>1 DEF Answered
  <2> QED BY <2>1
<1>3. InputOK
  <2>1. /\ arrived = 0 /\ buffer = 0 /\ parser = "idle" /\ parsing = FALSE /\ current = 0 /\ detached = FALSE
        /\ finReceived = FALSE /\ closeAfterResponse = FALSE /\ httpAllowHalfOpen \in BOOLEAN
        /\ socket = "open" /\ idleTimer = FALSE /\ closeRequested = FALSE /\ idleCheck = FALSE
    BY DEF PipelineInit
  <2>2. 0 \in Nat /\ 0 <= Pieces /\ 0 + 0 <= 0
    BY <1>1
  <2>3. {detached, finReceived, closeAfterResponse, httpAllowHalfOpen, closeRequested,
         idleCheck, idleTimer} \subseteq BOOLEAN
    BY <2>1
  <2>4. /\ arrived \in Nat /\ arrived <= Pieces /\ buffer \in Nat /\ served \in Nat
        /\ served + buffer <= arrived /\ current \in Nat /\ current <= served
    BY <1>1, <2>1, <2>2
  <2>5. parser \in {"idle", "headers", "body"} /\ parsing \in BOOLEAN /\ socket \in {"open", "ended", "closed"}
    BY <2>1
  <2> QED BY <2>3, <2>4, <2>5 DEF InputOK
<1>4. ResponseQueueOK /\ BodyTurnOK
  BY <1>1 DEF PipelineInit, ResponseQueueOK, BodyTurnOK, NothingLeftIdle
<1>5. SetsOK
  BY DEF PipelineInit, SetsOK
<1>6. ResOK
  BY <1>1, <1>2 DEF PipelineInit, ResOK, Statuses
<1>7. TurnOK
  BY <1>1, <1>2 DEF PipelineInit, TurnOK
<1>8. WrittenOK
  <2>1. written = <<>> /\ inflight = <<>> /\ <<>> \in Seq(Nat) /\ Len(<<>>) = 0
    BY DEF PipelineInit
  <2> QED BY <2>1 DEF WrittenOK, InOrder, ClosedBy
<1> QED BY <1>3, <1>4, <1>5, <1>6, <1>7, <1>8 DEF PipelineIInv

\* The inductive invariant implies what the runs check.
LEMMA PipelineImplied == PipelineIInv => PipelineInv
<1> SUFFICES ASSUME PipelineIInv PROVE PipelineInv
  OBVIOUS
<1>1. /\ arrived \in Nat /\ arrived <= Pieces /\ buffer \in Nat /\ served \in Nat
      /\ served + buffer <= arrived /\ current \in Nat /\ current <= served /\ Pieces \in Nat
  BY PipelineAssumption DEF PipelineIInv, InputOK
<1>2. arrived \in 0..Pieces /\ buffer \in 0..arrived /\ served \in 0..Pieces /\ current \in 0..served
  BY <1>1
<1>3. inflight \in Seq(0..served) /\ written \in Seq(0..served)
  <2> DEFINE T == 0..served
             n == Len(inflight)
             m == Len(written)
  <2>1. /\ n \in Nat /\ m \in Nat /\ inflight \in [1..n -> Nat] /\ written \in [1..m -> Nat]
        /\ (\A k \in 1..n : inflight[k] <= served) /\ \A k \in 1..m : written[k] <= served
    BY DEF PipelineIInv, WrittenOK
  <2>2. inflight \in [1..n -> T] /\ written \in [1..m -> T]
    BY <2>1, <1>1
  <2> HIDE DEF T, n, m
  <2>3. inflight \in Seq(T) /\ written \in Seq(T)
    BY <2>1, <2>2
  <2> QED BY <2>3 DEF T
<1>4. PipelineTypeOK
  <2>1. \A i \in 1..Len(queue) : queue[i] = served - Len(queue) + i
    BY DEF PipelineIInv, ResponseQueueOK, Answered
  <2>2. /\ {detached, finReceived, closeAfterResponse, httpAllowHalfOpen, closeRequested,
            idleCheck, idleTimer} \subseteq BOOLEAN
        /\ parser \in {"idle", "headers", "body"} /\ parsing \in BOOLEAN
        /\ socket \in {"open", "ended", "closed"} /\ queue \in Seq(Ids)
    BY DEF PipelineIInv, InputOK, ResponseQueueOK
  <2> QED BY <2>1, <2>2, <1>2, <1>3 DEF PipelineIInv, PipelineTypeOK, SetsOK, ResOK, Statuses
<1>5. ResponsesInOrder /\ NothingAfterClose
  <2>1. DOMAIN written = 1..Len(written)
    BY DEF PipelineIInv, WrittenOK
  <2> QED BY <2>1 DEF PipelineIInv, WrittenOK, InOrder, ClosedBy, ResponsesInOrder, NothingAfterClose
<1> QED BY <1>4, <1>5 DEF PipelineInv, PipelineIInv, BodyTurnOK

\* For any number of pipelined requests and writes, and however handlers and the socket take
\* turns: what is written of the responses is in the order of their requests, nothing comes
\* after one that says "Connection: close", and an idle parser has nothing left to parse.
THEOREM PipelineIsSafe == PipelineSpec => []PipelineInv
<1>1. PipelineInit => PipelineIInv
  BY PipelineStarts
<1>2. PipelineIInv /\ [PipelineNext]_PipelineVars => PipelineIInv'
  BY PipelineStep
<1>3. PipelineIInv => PipelineInv
  BY PipelineImplied
<1> QED BY <1>1, <1>2, <1>3, PTL DEF PipelineSpec

-----------------------------------------------------------------------------
(* What the parts promise together *)

\* What ties each part together, whichever of them runs
WebIInv ==
    /\ RequestIInv /\ ReplyIInv /\ PipelineIInv
    /\ SocketIInv /\ PortsIInv /\ StreamIInv

\* A part that does not run stays as it started.
LEMMA PartsStart == WebInit => WebIInv
<1> SUFFICES ASSUME WebInit PROVE WebIInv
  OBVIOUS
<1>1. RequestIInv
  BY RequestStarts DEF WebInit
<1>2. ReplyIInv
  BY ReplyStarts DEF WebInit
<1>3. PipelineIInv
  BY PipelineStarts DEF WebInit
<1>4. SocketIInv
  BY WebSocketStarts DEF WebInit
<1>5. PortsIInv
  BY PortsStart DEF WebInit
<1>6. StreamIInv
  BY StreamStarts DEF WebInit
<1> QED BY <1>1, <1>2, <1>3, <1>4, <1>5, <1>6 DEF WebIInv

\* A step of the program is a step of one part, and the others stutter.
LEMMA PartSteps ==
  ASSUME [WebNext]_<<part, FetchingVars, HttpVars, MessageVars, RuntimeVars>>
  PROVE  /\ [RequestNext]_RequestVars /\ [ReplyNext]_ReplyVars /\ [PipelineNext]_PipelineVars
         /\ [WebSocketNext]_SocketVars /\ [PortsNext]_PortVars /\ [StreamNext]_StreamVars
<1>1. [RequestNext]_RequestVars
  BY DEF WebNext, HttpVars
<1>2. [ReplyNext]_ReplyVars
  BY DEF WebNext, HttpVars
<1>3. [PipelineNext]_PipelineVars
  BY DEF WebNext, HttpVars
<1>4. [WebSocketNext]_SocketVars
  BY DEF WebNext, MessageVars
<1>5. [PortsNext]_PortVars
  BY DEF WebNext, MessageVars
<1>6. [StreamNext]_StreamVars
  BY DEF WebNext, RuntimeVars
<1> QED BY <1>1, <1>2, <1>3, <1>4, <1>5, <1>6

\* Every step of the program keeps every part's inductive invariant.
LEMMA WebStep ==
  WebIInv /\ [WebNext]_<<part, FetchingVars, HttpVars, MessageVars, RuntimeVars>> => WebIInv'
<1> SUFFICES ASSUME WebIInv, [WebNext]_<<part, FetchingVars, HttpVars, MessageVars, RuntimeVars>>
             PROVE  WebIInv'
  OBVIOUS
<1>1. /\ [RequestNext]_RequestVars /\ [ReplyNext]_ReplyVars /\ [PipelineNext]_PipelineVars
      /\ [WebSocketNext]_SocketVars /\ [PortsNext]_PortVars /\ [StreamNext]_StreamVars
  BY PartSteps
<1>2. RequestIInv'
  BY <1>1, RequestStep DEF WebIInv
<1>3. ReplyIInv'
  BY <1>1, ReplyStep DEF WebIInv
<1>4. PipelineIInv'
  BY <1>1, PipelineStep DEF WebIInv
<1>5. SocketIInv'
  BY <1>1, WebSocketStep DEF WebIInv
<1>6. PortsIInv'
  BY <1>1, PortsStep DEF WebIInv
<1>7. StreamIInv'
  BY <1>1, StreamStep DEF WebIInv
<1> QED BY <1>2, <1>3, <1>4, <1>5, <1>6, <1>7 DEF WebIInv

\* The promise of the run, for every value of the bounds: whichever part runs, messages
\* arrive in the order they were given, each once, and before the end that was asked for
\* after them (write() of a request, its response, pipelined responses, send() of a
\* WebSocket, postMessage() of a port, the items of a component stream).
THEOREM MessagesAreSafe == WebSpec => []MessagesInv
<1>1. WebInit => WebIInv
  BY PartsStart
<1>2. WebIInv /\ [WebNext]_<<part, FetchingVars, HttpVars, MessageVars, RuntimeVars>> => WebIInv'
  BY WebStep
<1>3. WebIInv => MessagesInv
  BY RequestImplied, ReplyImplied, PipelineImplied, WebSocketImplied, PortsImplied, StreamImplied
     DEF WebIInv, MessagesInv
<1> QED BY <1>1, <1>2, <1>3, PTL DEF WebSpec
=============================================================================
