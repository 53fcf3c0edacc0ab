------------------------------- MODULE Timers -------------------------------
(***************************************************************************)
(* The timers of the JavaScript runtime (runtime/builtin/timeout.rs and    *)
(* timeout.js) and the event loop that drains them: drain_and_idle after   *)
(* the user's module is evaluated and twice more before the Wizer          *)
(* snapshot, and the plain idle() after a request's handler (handler.rs).  *)
(*                                                                         *)
(* JavaScript runs in turns, one at a time; in a turn it may call any      *)
(* function of the timer API on any timer it holds. Delays are abstracted: *)
(* a sleeping timer may wake at any moment.                                *)
(***************************************************************************)
EXTENDS Integers, FiniteSets

CONSTANTS
    Keys,  \* the keys `schedule` may give out: as many as it can be called
    Uses   \* what the program uses of the API below

API == {"setInterval", "close", "number", "unref", "ref", "refresh", "_repeat", "io"}

ASSUME TimersAssumption == IsFiniteSet(Keys) /\ Uses \subseteq API

VARIABLES
    \* TimerServices
    handles,   \* keys of abort_handles
    unrefed,   \* unrefed_timers
    made,      \* the keys below last_abort_id
    \* the spawned tasks
    task,      \* what the task of each key is doing
    owner,     \* the Timeout object its callback is bound to
    \* the Timeout objects, each named by the first key it had
    id,        \* _id
    interval,  \* those with _isInterval
    repeat,    \* those made periodic by assigning _repeat
    refed,     \* those with _refed
    closed,    \* those with _destroyed
    \* JavaScript
    turn,      \* what JavaScript is running, or "none"
    pending,   \* "events": nextTick callbacks or rejection events are queued;
               \* "io": a promise is waiting for the host
    \* the event loop
    stage,     \* 1, 2, 3: the drains of wizer_initialize; 4: a request
    pc,        \* where the driver is: "recheck" is "checkpoint" with drove_runtime
    sentinel   \* the sentinel of drain_and_idle: "off" or "polling"

services == <<handles, unrefed>>
objects  == <<interval, repeat, refed, closed>>
driver   == <<stage, pc, sentinel>>
vars == <<services, made, task, owner, id, objects, turn, pending, driver>>

Ended == {"none", "done"}
Awake == {"checking", "running", "after"}
Timeouts == {t \in made : owner[t] = t}

InTurn == turn # "none"
Idle   == pc = "idle" /\ turn = "none"

Init ==
    /\ handles = {} /\ unrefed = {} /\ made = {}
    /\ task = [k \in Keys |-> "none"]
    /\ owner = [k \in Keys |-> k] /\ id = [k \in Keys |-> k]
    /\ interval = {} /\ repeat = {} /\ refed = {} /\ closed = {}
    /\ turn = "script" /\ pending = {}
    /\ stage = 1 /\ pc = "script" /\ sentinel = "off"

\* fetch_add: a key that was never given out
next == CHOOSE k \in Keys : k \notin made
KeysLeft == made # Keys
Used == made \cup {next}

\* A broken variant of the next one: the task is not aborted.
Forgotten(k) == task

\* clear_schedule: the tasks once the handle of k is aborted
Cancelled(k) == [task EXCEPT ![k] =
    IF k \in handles /\ @ = "waiting" THEN "aborted" ELSE @]

-----------------------------------------------------------------------------
(* Broken variants, for the properties to catch. No specification uses them. *)

\* `clearTimeout` in a rejection listener is noticed at the next poll only.
BeginUnchecked(k) ==
    /\ turn = "timer" /\ task[k] = "checking"
    /\ task' = [task EXCEPT ![k] = "running"]
    /\ UNCHANGED <<services, made, owner, id, objects, turn, pending, driver>>

\* `_repeat` is obeyed even if the callback rescheduled its timer itself.
RepeatsAnyway(k) ==
    /\ owner[k] \in repeat \ (closed \cup interval)
    /\ KeysLeft

\* A completed task leaves its handle behind.
NoCleanup(k) ==
    /\ task' = [task EXCEPT ![k] = "done"]
    /\ UNCHANGED services

\* The sentinel aborts as soon as there are as many unref'd timers as others.
OnlyUnrefedEager ==
    handles # {} /\ 2 * Cardinality(unrefed) >= Cardinality(handles)

\* The sentinel waits for the unref'd timers to end by themselves.
NeverOnlyUnrefed == FALSE

\* One drain too many.
DrainsAgain ==
    /\ pc = "recheck" /\ "events" \notin pending /\ stage <= 3
    /\ pc' = "checkpoint" /\ stage' = stage + 1
    /\ UNCHANGED <<services, made, task, owner, id, objects, turn, pending, sentinel>>

-----------------------------------------------------------------------------
(* JavaScript calls the timer API *)

\* setTimeout, setInterval, setImmediate
SetTimer ==
    /\ InTurn /\ KeysLeft
    /\ handles' = handles \cup {next}
    /\ task' = [task EXCEPT ![next] = "waiting"]
    /\ refed' = refed \cup {next}
    /\ \/ interval' = interval
       \/ "setInterval" \in Uses /\ interval' = interval \cup {next}
    /\ made' = Used
    /\ UNCHANGED <<unrefed, owner, id, repeat, closed, turn, pending, driver>>

\* close, and clearTimeout of an object
Close(t) ==
    /\ InTurn /\ t \notin closed /\ "close" \in Uses
    /\ closed' = closed \cup {t}
    /\ task' = Cancelled(id[t])
    /\ handles' = handles \ {id[t]} /\ unrefed' = unrefed \ {id[t]}
    /\ UNCHANGED <<made, owner, id, interval, repeat, refed, turn, pending, driver>>

\* clearTimeout of a number
ClearNumber(k) ==
    /\ InTurn /\ "number" \in Uses
    /\ task' = Cancelled(k)
    /\ handles' = handles \ {k} /\ unrefed' = unrefed \ {k}
    /\ UNCHANGED <<made, owner, id, objects, turn, pending, driver>>

Unref(t) ==
    /\ InTurn /\ "unref" \in Uses
    /\ refed' = refed \ {t}
    /\ unrefed' = unrefed \cup {id[t]}
    /\ UNCHANGED <<handles, made, task, owner, id, interval, repeat, closed,
                   turn, pending, driver>>

Ref(t) ==
    /\ InTurn /\ "ref" \in Uses
    /\ refed' = refed \cup {t}
    /\ unrefed' = unrefed \ {id[t]}
    /\ UNCHANGED <<handles, made, task, owner, id, interval, repeat, closed,
                   turn, pending, driver>>

\* refresh: the old key is cleared, a new one scheduled
Refresh(t) ==
    /\ InTurn /\ "refresh" \in Uses /\ t \notin closed /\ KeysLeft
    /\ task' = [Cancelled(id[t]) EXCEPT ![next] = "waiting"]
    /\ handles' = (handles \ {id[t]}) \cup {next}
    /\ unrefed' = unrefed \ {id[t]}
    /\ owner' = [owner EXCEPT ![next] = t]
    /\ id' = [id EXCEPT ![t] = next]
    /\ made' = Used
    /\ UNCHANGED <<objects, turn, pending, driver>>

\* timeout._repeat = delay
SetRepeat(t) ==
    /\ InTurn /\ "_repeat" \in Uses
    /\ repeat' = repeat \cup {t}
    /\ UNCHANGED <<services, made, task, owner, id, interval, refed, closed,
                   turn, pending, driver>>

\* Something is asked of the host, and its promise left pending.
StartIo ==
    /\ InTurn /\ "io" \in Uses
    /\ pending' = pending \cup {"io"}
    /\ UNCHANGED <<services, made, task, owner, id, objects, turn, driver>>

-----------------------------------------------------------------------------
(* The spawned tasks *)

\* A key's task is over: its handle and its unref are removed.
Cleanup(k) ==
    /\ task' = [task EXCEPT ![k] = "done"]
    /\ handles' = handles \ {k} /\ unrefed' = unrefed \ {k}

\* A timer wakes, and the events of the preceding turn come first.
Fire(k) ==
    /\ Idle /\ task[k] = "waiting"
    /\ task' = [task EXCEPT ![k] = IF "events" \in pending THEN "checking" ELSE "running"]
    /\ turn' = "timer" /\ pending' = pending \ {"events"}
    /\ UNCHANGED <<services, made, owner, id, objects, driver>>

\* The callback begins, unless the checkpoint's listeners cancelled it.
Begin(k) ==
    /\ turn = "timer" /\ task[k] = "checking" /\ k \in handles
    /\ task' = [task EXCEPT ![k] = "running"]
    /\ UNCHANGED <<services, made, owner, id, objects, turn, pending, driver>>

Skip(k) ==
    /\ turn = "timer" /\ task[k] = "checking" /\ k \notin handles
    /\ Cleanup(k)
    /\ turn' = "none"
    /\ UNCHANGED <<made, owner, id, objects, pending, driver>>

\* Whether the callback's `finally` schedules it again.
Repeats(k) ==
    /\ owner[k] \in repeat \ (closed \cup interval)
    /\ id[owner[k]] = k /\ KeysLeft

\* The callback returns; the checkpoint after it is still JavaScript.
Return(k) ==
    /\ task[k] = "running" /\ ~Repeats(k)
    /\ task' = [task EXCEPT ![k] = "after"]
    /\ UNCHANGED <<services, made, owner, id, objects, turn, pending, driver>>

ReturnAndRepeat(k) ==
    /\ task[k] = "running" /\ Repeats(k)
    /\ task' = [task EXCEPT ![k] = "after", ![next] = "waiting"]
    /\ handles' = handles \cup {next}
    /\ unrefed' = IF owner[k] \in refed THEN unrefed ELSE unrefed \cup {next}
    /\ owner' = [owner EXCEPT ![next] = owner[k]]
    /\ id' = [id EXCEPT ![owner[k]] = next]
    /\ made' = Used
    /\ UNCHANGED <<objects, turn, pending, driver>>

\* A periodic timer that was not cancelled sleeps again.
SleepAgain(k) ==
    /\ task[k] = "after" /\ owner[k] \in interval /\ k \in handles
    /\ task' = [task EXCEPT ![k] = "waiting"]
    /\ turn' = "none"
    /\ UNCHANGED <<services, made, owner, id, objects, pending, driver>>

Finish(k) ==
    /\ task[k] = "after" /\ (owner[k] \notin interval \/ k \notin handles)
    /\ Cleanup(k)
    /\ turn' = "none"
    /\ UNCHANGED <<made, owner, id, objects, pending, driver>>

\* An aborted task is polled.
Reap(k) ==
    /\ Idle /\ task[k] = "aborted"
    /\ Cleanup(k)
    /\ UNCHANGED <<made, owner, id, objects, turn, pending, driver>>

\* The host settles the promise, and the code that awaits it runs.
Settle ==
    /\ Idle /\ "io" \in pending
    /\ pending' = pending \ {"io"} /\ turn' = "io"
    /\ UNCHANGED <<services, made, task, owner, id, objects, driver>>

Settled ==
    /\ turn = "io" /\ turn' = "none"
    /\ pending' \in {pending, pending \cup {"events"}}
    /\ UNCHANGED <<services, made, task, owner, id, objects, driver>>

\* abort_count > 0 && abort_count == unref_count
OnlyUnrefed == handles # {} /\ Cardinality(handles) = Cardinality(unrefed)

\* abort_unrefed
AbortUnrefed ==
    /\ Idle /\ sentinel = "polling" /\ OnlyUnrefed
    /\ task' = [k \in Keys |-> IF k \in unrefed \cap handles /\ task[k] = "waiting"
                               THEN "aborted" ELSE task[k]]
    /\ handles' = handles \ unrefed /\ unrefed' = {}
    /\ sentinel' = "off"
    /\ UNCHANGED <<made, owner, id, objects, turn, pending, stage, pc>>

SentinelDone ==
    /\ Idle /\ sentinel = "polling" /\ unrefed = {}
    /\ sentinel' = "off"
    /\ UNCHANGED <<services, made, task, owner, id, objects, turn, pending, stage, pc>>

-----------------------------------------------------------------------------
(* drain_and_idle, wizer_initialize and a request's handler *)

\* The module, or the handler, has run. A handler's loop is a plain idle().
ScriptEnds ==
    /\ turn = "script" /\ turn' = "none"
    /\ pending' \in {pending, pending \cup {"events"}}
    /\ pc' = IF stage = 4 THEN "idle" ELSE "checkpoint"
    /\ UNCHANGED <<services, made, task, owner, id, objects, stage, sentinel>>

\* run_turn_checkpoint finds work,
Checkpoint ==
    /\ pc \in {"checkpoint", "recheck"} /\ "events" \in pending
    /\ pending' = pending \ {"events"} /\ turn' = "tick" /\ pc' = "working"
    /\ UNCHANGED <<services, made, task, owner, id, objects, stage, sentinel>>

CheckpointEnds ==
    /\ turn = "tick" /\ turn' = "none"
    /\ pc' = "look"
    /\ UNCHANGED <<services, made, task, owner, id, objects, pending, stage, sentinel>>

\* or none, before the runtime was driven
NothingQueued ==
    /\ pc = "checkpoint" /\ "events" \notin pending
    /\ pc' = "look"
    /\ UNCHANGED <<services, made, task, owner, id, objects, turn, pending, stage, sentinel>>

\* A sentinel is spawned if there is an unref'd timer at this moment.
Look ==
    /\ pc = "look" /\ pc' = "idle"
    /\ sentinel' = IF unrefed # {} THEN "polling" ELSE "off"
    /\ UNCHANGED <<services, made, task, owner, id, objects, turn, pending, stage>>

\* No spawned future is left.
Quiet == "io" \notin pending /\ sentinel = "off" /\ \A k \in Keys : task[k] \in Ended

IdleReturns ==
    /\ Idle /\ Quiet
    /\ pc' = IF stage = 4 THEN "head" ELSE "recheck"
    /\ UNCHANGED <<services, made, task, owner, id, objects, turn, pending, stage, sentinel>>

\* A drain returns. run_gc, before the third, may queue finalizers.
DrainReturns ==
    /\ pc = "recheck" /\ "events" \notin pending /\ stage < 3
    /\ pc' = "checkpoint" /\ stage' = stage + 1
    /\ pending' \in {pending, IF stage = 2 THEN pending \cup {"events"} ELSE pending}
    /\ UNCHANGED <<services, made, task, owner, id, objects, turn, sentinel>>

\* assert!(timers_empty), and the snapshot
Snapshot ==
    /\ pc = "recheck" /\ "events" \notin pending /\ stage = 3
    /\ pc' = IF handles = {} /\ unrefed = {} THEN "snapshot" ELSE "panicked"
    /\ UNCHANGED <<services, made, task, owner, id, objects, turn, pending, stage, sentinel>>

\* A request's copy of the snapshot calls the handler.
Request ==
    /\ pc = "snapshot"
    /\ stage' = 4 /\ pc' = "script" /\ turn' = "script"
    /\ UNCHANGED <<services, made, task, owner, id, objects, pending, sentinel>>

-----------------------------------------------------------------------------
Script ==
    \/ SetTimer
    \/ \E t \in Timeouts : Close(t) \/ Unref(t) \/ Ref(t) \/ Refresh(t) \/ SetRepeat(t)
    \/ \E k \in made : ClearNumber(k)
    \/ StartIo

TurnEnds ==
    \/ \E k \in Keys : \/ Begin(k) \/ Skip(k) \/ Return(k) \/ ReturnAndRepeat(k)
                       \/ SleepAgain(k) \/ Finish(k)
    \/ Settled \/ ScriptEnds \/ CheckpointEnds

Sentinel == AbortUnrefed \/ SentinelDone

Drive == \/ Checkpoint \/ NothingQueued \/ Look \/ IdleReturns
         \/ DrainReturns \/ Snapshot \/ Request

Next ==
    \/ Script \/ TurnEnds \/ Sentinel \/ Settle \/ Drive
    \/ \E k \in Keys : Fire(k) \/ Reap(k)

Spec == Init /\ [][Next]_vars

\* A turn ends; the driver goes on; the executor polls every task that is
\* woken, however often others are woken too.
Fairness ==
    /\ WF_vars(TurnEnds) /\ WF_vars(Drive)
    /\ SF_vars(Sentinel) /\ SF_vars(Settle)
    /\ \A k \in Keys : SF_vars(Fire(k)) /\ SF_vars(Reap(k))

FairSpec == Spec /\ Fairness

-----------------------------------------------------------------------------
TypeOK ==
    /\ made \subseteq Keys /\ handles \subseteq made /\ unrefed \subseteq made
    /\ task \in [Keys -> Ended \cup Awake \cup {"waiting", "aborted"}]
    /\ owner \in [Keys -> Keys] /\ id \in [Keys -> Keys]
    /\ interval \subseteq Keys /\ repeat \subseteq Keys
    /\ refed \subseteq Keys /\ closed \subseteq Keys
    /\ turn \in {"none", "script", "tick", "io", "timer"}
    /\ pending \subseteq {"events", "io"}
    /\ stage \in 1 .. 4 /\ sentinel \in {"off", "polling"}
    /\ pc \in IF stage = 4 THEN {"script", "idle", "head"}
              ELSE {"script", "checkpoint", "working", "look", "idle", "recheck",
                    "snapshot", "panicked"}

\* Whatever JavaScript did with a timer, its task can wake it exactly if its
\* handle is still there for clear_schedule to abort: no timer is beyond
\* cancelling, and no handle is left of one that is over.
SleepersHaveHandles ==
    \A k \in Keys : /\ task[k] = "waiting" => k \in handles
                    /\ k \in handles => task[k] \in Awake \cup {"waiting"}

\* A Timeout object never sleeps under two keys, whichever of refresh,
\* _repeat and the interval's own loop scheduled it again.
OneSleeper ==
    \A j, k \in Keys : task[j] = "waiting" /\ task[k] = "waiting" /\ owner[j] = owner[k]
                       => j = k

\* The callback of a Timeout that was closed does not start, even if it was
\* closed after its task woke, or by its own callback before a reschedule.
ClosedStaysSilent ==
    [][\A k \in Keys : task[k] # "running" /\ task'[k] = "running"
                       => owner[k] \notin closed]_vars

\* When the drains of wizer_initialize are over, no timer is left: only a
\* stale entry of unrefed_timers can fail its assertion.
NoTimerInSnapshot ==
    pc \in {"snapshot", "panicked"}
    => handles = {} /\ \A k \in Keys : task[k] \in Ended

\* The sentinel counts instead of comparing the two sets. As long as every
\* unref'd key is a live timer's, what it aborts is then all there was.
AbortsWhenAlone ==
    [][/\ sentinel # sentinel' /\ handles' # handles
       /\ unrefed \subseteq handles
       => handles' = {}]_vars

\* A drain does not go on for ever with nothing left, or with a sentinel and
\* only unref'd timers left.
DrainEnds ==
    []<>~( /\ pc = "idle" /\ "io" \notin pending /\ handles = unrefed
           /\ handles = {} \/ sentinel = "polling" )

\* Documented for drain_and_idle: it waits for the ref'd timers, then aborts
\* the unref'd ones, so that idle() can complete.
UnrefedDoNotBlock ==
    []<>~( /\ pc = "idle" /\ stage < 4 /\ "io" \notin pending
           /\ handles # {} /\ handles = unrefed )

\* ... and with no timer left at all, idle() completes.
EmptyLoopEnds ==
    []<>~( /\ pc = "idle" /\ "io" \notin pending
           /\ handles = {} /\ \A k \in Keys : task[k] \in Ended )
=============================================================================
