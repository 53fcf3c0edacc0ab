----------------------------- MODULE AsyncExports -----------------------------
(***************************************************************************)
(* The life of an asynchronous export of the runtime (internal/p3.rs):     *)
(* ensure_initialized, which concurrent calls go through, the driver that  *)
(* each call keeps for the JavaScript scheduler, and the end of a call,    *)
(* which drains the event loop unless a writer of a component future or    *)
(* stream is active: such a writer may need the result of the call to be   *)
(* visible first, so that the call returns and leaves its driver to a      *)
(* cleanup task. RuntimeWriterLease tells both when writers come and go.   *)
(*                                                                         *)
(* Tasks are scheduled cooperatively: a step is what runs between two      *)
(* awaits. JavaScript runs whenever some driver is polled, whichever call  *)
(* it belongs to, and a task that it spawns belongs to the call whose      *)
(* driver that was.                                                        *)
(***************************************************************************)
EXTENDS Integers

CONSTANTS
    Calls,    \* the calls of exports
    Writers,  \* the component futures and streams made from JavaScript
    MaxJobs,  \* bound on the jobs that the calls schedule together
    MaxItems  \* bound on the items of a stream

ASSUME ExportsAssumption == MaxJobs \in Nat /\ MaxItems \in Nat

VARIABLES
    \* INIT and what initialization does
    initState, restored, \* restored: the instance comes from a Wizer snapshot
    evaluated,           \* evaluations of the user's module
    refreshed,           \* refresh_process_env has run
    \* the calls
    call, drivers,
    jobs,                \* JavaScript jobs that each call scheduled and that have not run
    scheduled,           \* jobs scheduled so far
    \* RuntimeWriterLease, a waiter being the call that waits
    activationWaiters, inactivityWaiters,
    activated,           \* waiters whose oneshot was sent
    \* the writers
    writer,   \* what each waits for
    kind, items,
    taskOf,    \* the call whose task it is part of
    visible   \* the call after whose return the host has the other end; owner's own or none

initVars == <<initState, restored, evaluated, refreshed>>
callVars == <<call, drivers, jobs, scheduled>>
leaseVars == <<activationWaiters, inactivityWaiters, activated>>
writerVars == <<writer, kind, items, taskOf, visible>>
ExportVars == <<initVars, callVars, leaseVars, writerVars>>

Nobody == "nobody"

\* A call is over for its caller once it has "returned"; its cleanup task may go on.
CallStates == {"idle", "entering", "initializing", "refreshing", "running", "draining", "idled",
               "returned", "cleanup", "cleanup-draining", "cleanup-idled", "cancelled"}
Draining == {"draining", "idled", "cleanup-draining", "cleanup-idled"}
Returned == {"returned", "cleanup", "cleanup-draining", "cleanup-idled"}

\* "js": JavaScript has to run for it; "host": the host has to read or hang up
WriterStates == {"none", "js", "host", "done"}

ExportsTypeOK ==
    /\ initState \in {"NotStarted", "InProgress", "WizerPreInitialized", "Done"}
    /\ restored \in BOOLEAN /\ evaluated \in Nat /\ refreshed \in BOOLEAN
    /\ call \in [Calls -> CallStates] /\ drivers \in [Calls -> {"none", "held", "dropped"}]
    /\ jobs \in [Calls -> Nat] /\ scheduled \in Nat
    /\ activationWaiters \subseteq Calls /\ inactivityWaiters \subseteq Calls
    /\ activated \subseteq Calls
    /\ writer \in [Writers -> WriterStates] /\ kind \in [Writers -> {"future", "stream"}]
    /\ items \in [Writers -> Nat] /\ taskOf \in [Writers -> Calls \cup {Nobody}]
    /\ visible \in [Writers -> Calls \cup {Nobody}]

ExportsInit ==
    /\ restored \in BOOLEAN
    /\ initState = IF restored THEN "WizerPreInitialized" ELSE "NotStarted"
    /\ evaluated = IF restored THEN 1 ELSE 0
    /\ refreshed = FALSE
    /\ call = [c \in Calls |-> "idle"] /\ drivers = [c \in Calls |-> "none"]
    /\ jobs = [c \in Calls |-> 0] /\ scheduled = 0
    /\ activationWaiters = {} /\ inactivityWaiters = {} /\ activated = {}
    /\ writer = [w \in Writers |-> "none"]
    /\ kind \in [Writers -> {"future", "stream"}]
    /\ items = [w \in Writers |-> 0]
    /\ taskOf = [w \in Writers |-> Nobody] /\ visible = [w \in Writers |-> Nobody]

-----------------------------------------------------------------------------
(* RuntimeWriterLease *)

Active(state) == {w \in Writers : state[w] \in {"js", "host"}}

has_active_writers == Active(writer) # {}

\* register_writer: the first one wakes whoever waits for it
RegisterWriter ==
    IF has_active_writers THEN UNCHANGED <<activationWaiters, activated>>
    ELSE activationWaiters' = {} /\ activated' = activated \cup activationWaiters

\* RuntimeWriterGuard::drop, after which writer is state
DropGuard(state) == inactivityWaiters' = IF Active(state) = {} THEN {} ELSE inactivityWaiters

\* Whoever stops draining drops its waiter.
DropWaiter(c) == activationWaiters' = activationWaiters \ {c} /\ activated' = activated \ {c}

-----------------------------------------------------------------------------
(* Broken variants, for the properties to catch. No specification uses them. *)

\* A drain that ends does not look again whether a writer was made in it.
TrustsIdle(c) == FALSE

-----------------------------------------------------------------------------
(* ensure_initialized *)

Call(c) ==
    /\ call[c] = "idle" /\ call' = [call EXCEPT ![c] = "entering"]
    /\ UNCHANGED <<initVars, drivers, jobs, scheduled, leaseVars, writerVars>>

\* The state is there: the driver is spawned and the exported function called, which may
\* leave a job behind.
StartExport(c) ==
    /\ call' = [call EXCEPT ![c] = "running"]
    /\ drivers' = [drivers EXCEPT ![c] = "held"]
    /\ \/ UNCHANGED <<jobs, scheduled>>
       \/ /\ scheduled < MaxJobs /\ scheduled' = scheduled + 1
          /\ jobs' = [jobs EXCEPT ![c] = @ + 1]

StartsInit(c) ==
    /\ call[c] = "entering" /\ initState \in {"NotStarted", "WizerPreInitialized"}
    /\ initState' = "InProgress"
    /\ call' = [call EXCEPT ![c] = IF initState = "NotStarted" THEN "initializing" ELSE "refreshing"]
    /\ UNCHANGED <<restored, evaluated, refreshed, drivers, jobs, scheduled, leaseVars, writerVars>>

\* new_base, the user's module, and its drain; or refresh_process_env
EndsInit(c) ==
    /\ call[c] \in {"initializing", "refreshing"}
    /\ initState' = "Done"
    /\ evaluated' = IF call[c] = "initializing" THEN evaluated + 1 ELSE evaluated
    /\ refreshed' = (refreshed \/ call[c] = "refreshing")
    /\ StartExport(c)
    /\ UNCHANGED <<restored, leaseVars, writerVars>>

\* A call that finds InProgress yields and looks again.
EntersDone(c) ==
    /\ call[c] = "entering" /\ initState = "Done"
    /\ StartExport(c)
    /\ UNCHANGED <<initVars, leaseVars, writerVars>>

-----------------------------------------------------------------------------
(* The end of a call *)

\* The top of the loop of finish_async_export, with the writers as they are in state
FinishExport(c, state) ==
    IF Active(state) # {}
    THEN call' = [call EXCEPT ![c] = "cleanup"]
    ELSE call' = [call EXCEPT ![c] = "draining"]

\* drain_without_writer_activation registers with the lease before it drains.
Registers(c) == activationWaiters' = activationWaiters \cup {c} /\ activated' = activated \ {c}

\* The promise settles; its value may be a future or stream that the host reads only after
\* the call has returned.
PromiseSettles(c) ==
    /\ call[c] = "running"
    /\ \/ /\ FinishExport(c, writer) /\ UNCHANGED writerVars
          /\ IF has_active_writers THEN UNCHANGED <<activationWaiters, activated>> ELSE Registers(c)
       \/ \E w \in Writers :
            /\ writer[w] = "none" /\ writer' = [writer EXCEPT ![w] = "js"]
            /\ taskOf' = [taskOf EXCEPT ![w] = c] /\ visible' = [visible EXCEPT ![w] = c]
            /\ RegisterWriter /\ FinishExport(c, writer')
            /\ UNCHANGED <<kind, items>>
    /\ UNCHANGED <<initVars, drivers, jobs, scheduled, inactivityWaiters>>

\* rt.idle() ends when no job is left and no task of the scheduler: the pump of a stream is
\* one as long as it runs, a future that only the host has to read is not.
JsWork == \/ \E c \in Calls : jobs[c] > 0
          \/ \E w \in Writers : writer[w] = "js" \/ (writer[w] = "host" /\ kind[w] = "stream")

Idles(c) ==
    /\ call[c] \in {"draining", "cleanup-draining"} /\ c \notin activated /\ ~JsWork
    /\ call' = [call EXCEPT ![c] = IF @ = "draining" THEN "idled" ELSE "cleanup-idled"]
    /\ UNCHANGED <<initVars, drivers, jobs, scheduled, leaseVars, writerVars>>

\* The poll of the activation waiter that select makes last
WriterCame(c) == c \in activated

\* The drain found nothing: the driver is dropped.
FoundIdle(c) ==
    /\ call[c] \in {"idled", "cleanup-idled"} /\ ~WriterCame(c)
    /\ call' = [call EXCEPT ![c] = "returned"]
    /\ drivers' = [drivers EXCEPT ![c] = "dropped"]
    /\ DropWaiter(c)
    /\ UNCHANGED <<initVars, jobs, scheduled, inactivityWaiters, writerVars>>

\* A writer was made meanwhile: the loop of finish_async_export starts again.
Retries(c) ==
    /\ call[c] \in {"draining", "idled"} /\ WriterCame(c)
    /\ FinishExport(c, writer)
    /\ IF has_active_writers THEN DropWaiter(c) ELSE Registers(c)
    /\ UNCHANGED <<initVars, drivers, jobs, scheduled, inactivityWaiters, writerVars>>

\* cleanup_retained_driver waits for inactivity, or drains. A waiter that was woken looks
\* again, and a drain during which a writer came is given up.
CleanupTask(c) ==
    /\ \/ call[c] = "cleanup" /\ c \notin inactivityWaiters
       \/ call[c] \in {"cleanup-draining", "cleanup-idled"} /\ WriterCame(c)
    /\ IF has_active_writers
       THEN /\ call' = [call EXCEPT ![c] = "cleanup"]
            /\ inactivityWaiters' = inactivityWaiters \cup {c} /\ DropWaiter(c)
       ELSE /\ call' = [call EXCEPT ![c] = "cleanup-draining"]
            /\ inactivityWaiters' = inactivityWaiters /\ Registers(c)
    /\ UNCHANGED <<initVars, drivers, jobs, scheduled, writerVars>>

\* The host cancels a call: its task goes, with its driver and its waiters. (One whose own
\* write tasks go with it traps in async_value_default; that is left out.)
CancelCall(c) ==
    /\ call[c] \notin {"idle", "returned", "cancelled"}
    /\ \A w \in Active(writer) : taskOf[w] # c
    /\ call' = [call EXCEPT ![c] = "cancelled"]
    /\ drivers' = [drivers EXCEPT ![c] = IF @ = "held" THEN "dropped" ELSE @]
    /\ inactivityWaiters' = inactivityWaiters \ {c} /\ DropWaiter(c)
    /\ UNCHANGED <<initVars, jobs, scheduled, writerVars>>

-----------------------------------------------------------------------------
(* JavaScript and its writers *)

Drives(d) == drivers[d] = "held"

\* A job of c runs on the driver of d: it may schedule another, or hand a future or stream
\* to an import, whose host side may read it at once.
RunJob(c, d) ==
    /\ Drives(d) /\ jobs[c] > 0
    /\ \/ /\ jobs' = [jobs EXCEPT ![c] = @ - 1]
          /\ UNCHANGED <<scheduled, activationWaiters, activated, writerVars>>
       \/ /\ scheduled < MaxJobs /\ scheduled' = scheduled + 1 /\ jobs' = jobs
          /\ UNCHANGED <<activationWaiters, activated, writerVars>>
       \/ /\ jobs' = [jobs EXCEPT ![c] = @ - 1] /\ scheduled' = scheduled
          /\ \E w \in Writers :
               /\ writer[w] = "none" /\ writer' = [writer EXCEPT ![w] = "js"]
               /\ taskOf' = [taskOf EXCEPT ![w] = d]
               /\ RegisterWriter
          /\ UNCHANGED <<kind, items, visible>>
    /\ UNCHANGED <<initVars, call, drivers, inactivityWaiters>>

\* The promise of a future resolves, the pump of a stream gives an item or is over; it
\* releases its guard only after the iterator's cleanup.
Produces(w) ==
    /\ writer[w] = "js" /\ \E d \in Calls : Drives(d)
    /\ \/ /\ kind[w] = "future" \/ items[w] < MaxItems
          /\ writer' = [writer EXCEPT ![w] = "host"]
          /\ items' = [items EXCEPT ![w] = @ + 1] /\ inactivityWaiters' = inactivityWaiters
       \/ /\ kind[w] = "stream" /\ items' = items
          /\ writer' = [writer EXCEPT ![w] = "done"] /\ DropGuard(writer')
    /\ UNCHANGED <<initVars, callVars, activationWaiters, activated, kind, taskOf, visible>>

\* The result of a call is not seen before it has returned.
Seen(w) == visible[w] # Nobody => call[visible[w]] \in Returned

\* The host reads, or hangs up: the task of a future is over, the pump of a stream goes on.
HostReads(w) ==
    /\ writer[w] = "host" /\ Seen(w)
    /\ writer' = [writer EXCEPT ![w] = IF kind[w] = "future" THEN "done" ELSE "js"]
    /\ DropGuard(writer')
    /\ UNCHANGED <<initVars, callVars, activationWaiters, activated, kind, items, taskOf, visible>>

Polled(c) == \/ StartsInit(c) \/ EndsInit(c) \/ EntersDone(c)
             \/ Idles(c) \/ FoundIdle(c) \/ Retries(c) \/ CleanupTask(c)

ExportsNext ==
    \/ \E c \in Calls : Call(c) \/ Polled(c) \/ PromiseSettles(c) \/ CancelCall(c)
    \/ \E c, d \in Calls : RunJob(c, d)
    \/ \E w \in Writers : Produces(w) \/ HostReads(w)

\* Tasks that are ready are polled, a driver runs the jobs, and the host reads a stream it
\* has, or hangs up. Nothing says that a promise settles.
ExportsFairness ==
    /\ \A c \in Calls : WF_ExportVars(Polled(c)) /\ WF_ExportVars(\E d \in Calls : RunJob(c, d))
    /\ \A w \in Writers : WF_ExportVars(Produces(w)) /\ WF_ExportVars(HostReads(w))

ExportsSpec == ExportsInit /\ [][ExportsNext]_ExportVars /\ ExportsFairness

-----------------------------------------------------------------------------
(* Properties *)

\* A writer that has not finished is driven by the call whose task it is part of, however
\* that call ended: no backpressured stream is left without anybody to pump it.
WritersAreDriven == \A w \in Active(writer) : drivers[taskOf[w]] = "held"

\* What a call has scheduled runs before its driver goes, unless it is cancelled.
JobsRunFirst == \A c \in Calls : call[c] = "returned" => jobs[c] = 0

\* The user's module is evaluated once in the life of a snapshot and of what is restored
\* from it, before any exported function runs, and process.env is not the build's.
InitializedOnce ==
    /\ evaluated <= 1
    /\ (\E c \in Calls : drivers[c] # "none") => evaluated = 1 /\ (restored => refreshed)

\* Nobody waits for a writer that is not there: such a wait would never end.
WaitersAreWoken ==
    /\ ~has_active_writers => inactivityWaiters = {}
    /\ has_active_writers => activationWaiters = {}

\* The call that initializes was cancelled in the middle: InProgress stays for ever.
Abandoned == initState = "InProgress" /\ \A c \in Calls : call[c] \notin {"initializing", "refreshing"}

\* No call waits for ever: each one gets through the initialization, unless it is
\* abandoned, and one whose promise has settled returns, also when the host reads what it
\* returned only afterwards, and lets its driver go.
CallsSettle ==
    []<>(\A c \in Calls :
            /\ call[c] = "entering" => Abandoned
            /\ call[c] \notin Draining \cup {"cleanup"})

\* Concurrent exports share one runtime: initialized once, and driven while any of their
\* writers or jobs needs it.
ExportsInv == ExportsTypeOK /\ WritersAreDriven /\ JobsRunFirst /\ InitializedOnce /\ WaitersAreWoken
=============================================================================
