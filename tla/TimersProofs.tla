---------------------------- MODULE TimersProofs ----------------------------
(***************************************************************************)
(* Proofs about Timers, for every number of timers and every program.      *)
(* The invariant behind them is Current: a handle belongs to the key that  *)
(* its open Timeout object has now, except while the task of a one-shot    *)
(* timer is in the checkpoint after its callback.                          *)
(***************************************************************************)
EXTENDS Timers, FiniteSetTheorems, TLAPS

\* Keys not given out yet are untouched, and the others refer to one another.
Fresh ==
    /\ \A k \in Keys \ made : task[k] = "none" /\ owner[k] = k /\ id[k] = k
    /\ \A k \in made : owner[k] \in made /\ id[k] \in made
    /\ closed \subseteq made

Current ==
    \A k \in handles : \/ id[owner[k]] = k /\ owner[k] \notin closed
                       \/ task[k] = "after" /\ owner[k] \notin interval

AllEnded == \A k \in Keys : task[k] \in Ended

\* Once a drain's idle() has returned, nothing runs until the next request.
Drained ==
    /\ pc \in {"checkpoint", "recheck", "look", "snapshot", "panicked"} => turn = "none"
    /\ pc \in {"recheck", "snapshot", "panicked"} => AllEnded
    /\ turn = "script" => pc = "script"
    /\ turn = "tick" => pc = "working"

IInv == TypeOK /\ Fresh /\ SleepersHaveHandles /\ Current /\ Drained

USE DEF services, objects, driver, AllEnded, Ended, Awake

-----------------------------------------------------------------------------
LEMMA InitInv == Init => IInv
  BY DEF Init, IInv, TypeOK, Fresh, SleepersHaveHandles, Current, Drained

\* As long as there are keys left, the next one is new.
LEMMA NextIsNew == KeysLeft /\ made \subseteq Keys => next \in Keys \ made
  BY DEF next, KeysLeft

\* What close, clearTimeout and refresh do to the tasks.
LEMMA CancelledType ==
    ASSUME TypeOK, NEW k
    PROVE  /\ Cancelled(k) \in [Keys -> Ended \cup Awake \cup {"waiting", "aborted"}]
           /\ \A j \in Keys : Cancelled(k)[j] = IF j = k /\ k \in handles /\ task[k] = "waiting"
                                                THEN "aborted" ELSE task[j]
  BY DEF TypeOK, Cancelled

-----------------------------------------------------------------------------
(* Each conjunct of the invariant is kept by every step *)

LEMMA TypeStep == TypeOK /\ Fresh /\ Drained /\ [Next]_vars => TypeOK'
<1> SUFFICES ASSUME TypeOK, Fresh, Drained, [Next]_vars PROVE TypeOK'
  OBVIOUS
<1> USE DEF TypeOK, Fresh, Drained, Timeouts
<1>1. ASSUME SetTimer PROVE TypeOK'
  BY <1>1, NextIsNew DEF SetTimer, Used
<1>2. ASSUME NEW t \in Timeouts, Close(t) PROVE TypeOK'
  BY <1>2, CancelledType DEF Close
<1>3. ASSUME NEW t \in Timeouts, Refresh(t) PROVE TypeOK'
  BY <1>3, NextIsNew, CancelledType DEF Refresh, Used
<1>4. ASSUME NEW k \in made, ClearNumber(k) PROVE TypeOK'
  BY <1>4, CancelledType DEF ClearNumber
<1>5. ASSUME NEW t \in Timeouts, Unref(t) PROVE TypeOK'
  BY <1>5 DEF Unref
<1>6. ASSUME NEW t \in Timeouts, Ref(t) PROVE TypeOK'
  BY <1>6 DEF Ref
<1>7. ASSUME NEW t \in Timeouts, SetRepeat(t) PROVE TypeOK'
  BY <1>7 DEF SetRepeat
<1>8. ASSUME NEW k \in Keys, Begin(k) PROVE TypeOK'
  BY <1>8 DEF Begin
<1>9. ASSUME NEW k \in Keys, Return(k) PROVE TypeOK'
  BY <1>9 DEF Return
<1>10. ASSUME NEW k \in Keys, SleepAgain(k) PROVE TypeOK'
  BY <1>10 DEF SleepAgain
<1>11. ASSUME NEW k \in Keys, Fire(k) PROVE TypeOK'
  BY <1>11 DEF Fire
<1>12. ASSUME NEW k \in Keys, ReturnAndRepeat(k) PROVE TypeOK'
  BY <1>12, NextIsNew DEF ReturnAndRepeat, Repeats, Used
<1>13. ASSUME NEW k \in Keys, Skip(k) PROVE TypeOK'
  BY <1>13 DEF Skip, Cleanup
<1>14. ASSUME NEW k \in Keys, Finish(k) PROVE TypeOK'
  BY <1>14 DEF Finish, Cleanup
<1>15. ASSUME NEW k \in Keys, Reap(k) PROVE TypeOK'
  BY <1>15 DEF Reap, Cleanup
<1>16. ASSUME AbortUnrefed PROVE TypeOK'
  BY <1>16 DEF AbortUnrefed
<1>17. ASSUME StartIo \/ Settle \/ Settled PROVE TypeOK'
  BY <1>17 DEF StartIo, Settle, Settled
<1>18. ASSUME ScriptEnds PROVE TypeOK'
  BY <1>18 DEF ScriptEnds
<1>19. ASSUME CheckpointEnds PROVE TypeOK'
  BY <1>19 DEF CheckpointEnds
<1>20. ASSUME SentinelDone PROVE TypeOK'
  BY <1>20 DEF SentinelDone
<1>21. ASSUME Checkpoint PROVE TypeOK'
  BY <1>21 DEF Checkpoint
<1>22. ASSUME NothingQueued PROVE TypeOK'
  BY <1>22 DEF NothingQueued
<1>23. ASSUME Look PROVE TypeOK'
  BY <1>23 DEF Look
<1>24. ASSUME IdleReturns PROVE TypeOK'
  BY <1>24 DEF IdleReturns
<1>25. ASSUME DrainReturns PROVE TypeOK'
  BY <1>25 DEF DrainReturns
<1>26. ASSUME Snapshot PROVE TypeOK'
  BY <1>26 DEF Snapshot
<1>27. ASSUME Request PROVE TypeOK'
  BY <1>27 DEF Request
<1>28. ASSUME UNCHANGED vars PROVE TypeOK'
  BY <1>28 DEF vars
<1> QED
  BY <1>1, <1>2, <1>3, <1>4, <1>5, <1>6, <1>7, <1>8, <1>9, <1>10, <1>11, <1>12,
     <1>13, <1>14, <1>15, <1>16, <1>17, <1>18, <1>19, <1>20, <1>21, <1>22, <1>23, <1>24, <1>25, <1>26, <1>27, <1>28
     DEF Next, Script, TurnEnds, Sentinel, Drive

LEMMA FreshStep == TypeOK /\ Fresh /\ SleepersHaveHandles /\ [Next]_vars => Fresh'
<1> SUFFICES ASSUME TypeOK, Fresh, SleepersHaveHandles, [Next]_vars PROVE Fresh'
  OBVIOUS
<1> USE DEF TypeOK, Fresh, SleepersHaveHandles, Timeouts
<1>1. ASSUME SetTimer PROVE Fresh'
  BY <1>1, NextIsNew DEF SetTimer, Used
<1>2. ASSUME NEW t \in Timeouts, Close(t) PROVE Fresh'
  BY <1>2, CancelledType DEF Close
<1>3. ASSUME NEW t \in Timeouts, Refresh(t) PROVE Fresh'
  BY <1>3, NextIsNew, CancelledType DEF Refresh, Used
<1>4. ASSUME NEW k \in made, ClearNumber(k) PROVE Fresh'
  BY <1>4, CancelledType DEF ClearNumber
<1>5. ASSUME NEW t \in Timeouts, Unref(t) \/ Ref(t) \/ SetRepeat(t) PROVE Fresh'
  BY <1>5 DEF Unref, Ref, SetRepeat
<1>6. ASSUME NEW k \in Keys, Begin(k) \/ Return(k) \/ SleepAgain(k) \/ Fire(k)
     PROVE Fresh'
  BY <1>6 DEF Begin, Return, SleepAgain, Fire
<1>7. ASSUME NEW k \in Keys, ReturnAndRepeat(k) PROVE Fresh'
  BY <1>7, NextIsNew DEF ReturnAndRepeat, Repeats, Used
<1>8. ASSUME NEW k \in Keys, Skip(k) \/ Finish(k) \/ Reap(k) PROVE Fresh'
  BY <1>8 DEF Skip, Cleanup, Finish, Reap
<1>9. ASSUME AbortUnrefed PROVE Fresh'
  BY <1>9 DEF AbortUnrefed
<1>10. ASSUME StartIo \/ Settle \/ Settled \/ ScriptEnds \/ CheckpointEnds
              \/ SentinelDone \/ Checkpoint \/ NothingQueued \/ Look
              \/ IdleReturns \/ DrainReturns \/ Snapshot \/ Request
     PROVE Fresh'
  BY <1>10 DEF 
      StartIo, Settle, Settled, ScriptEnds, CheckpointEnds, SentinelDone,
      Checkpoint, NothingQueued, Look, IdleReturns, DrainReturns, Snapshot,
      Request
<1>11. ASSUME UNCHANGED vars PROVE Fresh'
  BY <1>11 DEF vars
<1> QED
  BY <1>1, <1>2, <1>3, <1>4, <1>5, <1>6, <1>7, <1>8, <1>9, <1>10, <1>11
     DEF Next, Script, TurnEnds, Sentinel, Drive

LEMMA HandleStep == TypeOK /\ Fresh /\ SleepersHaveHandles /\ [Next]_vars => SleepersHaveHandles'
<1> SUFFICES ASSUME TypeOK, Fresh, SleepersHaveHandles, [Next]_vars PROVE SleepersHaveHandles'
  OBVIOUS
<1> USE DEF TypeOK, Fresh, SleepersHaveHandles, Timeouts
<1>1. ASSUME SetTimer PROVE SleepersHaveHandles'
  BY <1>1, NextIsNew DEF SetTimer, Used
<1>2. ASSUME NEW t \in Timeouts, Close(t) PROVE SleepersHaveHandles'
  BY <1>2, CancelledType DEF Close
<1>3. ASSUME NEW t \in Timeouts, Refresh(t) PROVE SleepersHaveHandles'
  BY <1>3, NextIsNew, CancelledType DEF Refresh, Used
<1>4. ASSUME NEW k \in made, ClearNumber(k) PROVE SleepersHaveHandles'
  BY <1>4, CancelledType DEF ClearNumber
<1>5. ASSUME NEW k \in Keys, Begin(k) \/ Return(k) \/ SleepAgain(k) \/ Fire(k)
     PROVE SleepersHaveHandles'
  BY <1>5 DEF Begin, Return, SleepAgain, Fire
<1>6. ASSUME NEW k \in Keys, ReturnAndRepeat(k) PROVE SleepersHaveHandles'
  BY <1>6, NextIsNew DEF ReturnAndRepeat, Repeats, Used
<1>7. ASSUME NEW k \in Keys, Skip(k) \/ Finish(k) \/ Reap(k) PROVE SleepersHaveHandles'
  BY <1>7 DEF Skip, Cleanup, Finish, Reap
<1>8. ASSUME AbortUnrefed PROVE SleepersHaveHandles'
  BY <1>8 DEF AbortUnrefed
<1>9. ASSUME NEW t \in Timeouts, Unref(t) \/ Ref(t) \/ SetRepeat(t)
     PROVE SleepersHaveHandles'
  BY <1>9 DEF Unref, Ref, SetRepeat
<1>10. ASSUME StartIo \/ Settle \/ Settled \/ ScriptEnds \/ CheckpointEnds
              \/ SentinelDone \/ Checkpoint \/ NothingQueued \/ Look
              \/ IdleReturns \/ DrainReturns \/ Snapshot \/ Request
     PROVE SleepersHaveHandles'
  BY <1>10 DEF 
      StartIo, Settle, Settled, ScriptEnds, CheckpointEnds, SentinelDone,
      Checkpoint, NothingQueued, Look, IdleReturns, DrainReturns, Snapshot,
      Request
<1>11. ASSUME UNCHANGED vars PROVE SleepersHaveHandles'
  BY <1>11 DEF vars
<1> QED
  BY <1>1, <1>2, <1>3, <1>4, <1>5, <1>6, <1>7, <1>8, <1>9, <1>10, <1>11
     DEF Next, Script, TurnEnds, Sentinel, Drive

LEMMA CurrentStep == TypeOK /\ Fresh /\ SleepersHaveHandles /\ Current /\ [Next]_vars => Current'
<1> SUFFICES ASSUME TypeOK, Fresh, SleepersHaveHandles, Current, [Next]_vars PROVE Current'
  OBVIOUS
<1> USE DEF TypeOK, Fresh, SleepersHaveHandles, Current, Timeouts
<1>1. ASSUME SetTimer PROVE Current'
  BY <1>1, NextIsNew DEF SetTimer, Used
<1>2. ASSUME NEW t \in Timeouts, Close(t) PROVE Current'
  BY <1>2, CancelledType DEF Close
<1>3. ASSUME NEW t \in Timeouts, Refresh(t) PROVE Current'
  BY <1>3, NextIsNew, CancelledType DEF Refresh, Used
<1>4. ASSUME NEW k \in made, ClearNumber(k) PROVE Current'
  BY <1>4, CancelledType DEF ClearNumber
<1>5. ASSUME NEW k \in Keys, Begin(k) \/ Return(k) \/ SleepAgain(k) \/ Fire(k)
     PROVE Current'
  BY <1>5 DEF Begin, Return, SleepAgain, Fire
<1>6. ASSUME NEW k \in Keys, ReturnAndRepeat(k) PROVE Current'
  BY <1>6, NextIsNew DEF ReturnAndRepeat, Repeats, Used
<1>7. ASSUME NEW k \in Keys, Skip(k) \/ Finish(k) \/ Reap(k) PROVE Current'
  BY <1>7 DEF Skip, Cleanup, Finish, Reap
<1>8. ASSUME AbortUnrefed PROVE Current'
  BY <1>8 DEF AbortUnrefed
<1>9. ASSUME NEW t \in Timeouts, Unref(t) \/ Ref(t) \/ SetRepeat(t) PROVE Current'
  BY <1>9 DEF Unref, Ref, SetRepeat
<1>10. ASSUME StartIo \/ Settle \/ Settled \/ ScriptEnds \/ CheckpointEnds
              \/ SentinelDone \/ Checkpoint \/ NothingQueued \/ Look
              \/ IdleReturns \/ DrainReturns \/ Snapshot \/ Request
     PROVE Current'
  BY <1>10 DEF 
      StartIo, Settle, Settled, ScriptEnds, CheckpointEnds, SentinelDone,
      Checkpoint, NothingQueued, Look, IdleReturns, DrainReturns, Snapshot,
      Request
<1>11. ASSUME UNCHANGED vars PROVE Current'
  BY <1>11 DEF vars
<1> QED
  BY <1>1, <1>2, <1>3, <1>4, <1>5, <1>6, <1>7, <1>8, <1>9, <1>10, <1>11
     DEF Next, Script, TurnEnds, Sentinel, Drive

LEMMA DrainedStep == TypeOK /\ Drained /\ [Next]_vars => Drained'
<1> SUFFICES ASSUME TypeOK, Drained, [Next]_vars PROVE Drained'
  OBVIOUS
<1> USE DEF TypeOK, Drained, Timeouts, InTurn, Idle, Quiet
<1>1. ASSUME SetTimer PROVE Drained'
  BY <1>1, NextIsNew DEF SetTimer, Used
<1>2. ASSUME NEW t \in Timeouts, Close(t) \/ Refresh(t) \/ Unref(t) \/ Ref(t) \/ SetRepeat(t)
     PROVE Drained'
  BY <1>2, CancelledType DEF Close, Refresh, Unref, Ref, SetRepeat
<1>3. ASSUME NEW k \in made, ClearNumber(k) PROVE Drained'
  BY <1>3, CancelledType DEF ClearNumber
<1>4. ASSUME StartIo PROVE Drained'
  BY <1>4 DEF StartIo
<1>5. ASSUME NEW k \in Keys, Begin(k) \/ Return(k) \/ SleepAgain(k) \/ Fire(k)
     PROVE Drained'
  BY <1>5 DEF Begin, Return, SleepAgain, Fire
<1>6. ASSUME NEW k \in Keys, ReturnAndRepeat(k) PROVE Drained'
  BY <1>6, NextIsNew DEF ReturnAndRepeat, Repeats, Used
<1>7. ASSUME NEW k \in Keys, Skip(k) \/ Finish(k) \/ Reap(k) PROVE Drained'
  BY <1>7 DEF Skip, Cleanup, Finish, Reap
<1>8. ASSUME AbortUnrefed PROVE Drained'
  BY <1>8 DEF AbortUnrefed
<1>9. ASSUME Settle \/ Settled \/ ScriptEnds \/ CheckpointEnds
              \/ SentinelDone \/ Checkpoint \/ NothingQueued \/ Look
              \/ IdleReturns \/ DrainReturns \/ Snapshot \/ Request
     PROVE Drained'
  BY <1>9 DEF 
      Settle, Settled, ScriptEnds, CheckpointEnds, SentinelDone, Checkpoint,
      NothingQueued, Look, IdleReturns, DrainReturns, Snapshot, Request
<1>10. ASSUME UNCHANGED vars PROVE Drained'
  BY <1>10 DEF vars
<1> QED
  BY <1>1, <1>2, <1>3, <1>4, <1>5, <1>6, <1>7, <1>8, <1>9, <1>10
     DEF Next, Script, TurnEnds, Sentinel, Drive

-----------------------------------------------------------------------------
LEMMA Inductive == IInv /\ [Next]_vars => IInv'
  BY TypeStep, FreshStep, HandleStep, CurrentStep, DrainedStep DEF IInv

\* The invariant the theorems below rest on.
THEOREM InvariantHolds == Spec => []IInv
  BY InitInv, Inductive, PTL DEF Spec

\* Every variable of the timer service keeps its type.
THEOREM TypeCorrect == Spec => []TypeOK
  BY InvariantHolds, PTL DEF IInv

\* clear_schedule can cancel every sleeping timer, and leaves no handle of a
\* task that is over.
THEOREM TimersAreCancellable == Spec => []SleepersHaveHandles
  BY InvariantHolds, PTL DEF IInv

\* refresh, _repeat and the interval's loop never double a timer.
THEOREM TimersAreNotDoubled == Spec => []OneSleeper
<1>1. IInv => OneSleeper
  BY DEF IInv, TypeOK, SleepersHaveHandles, Current, OneSleeper
<1> QED BY <1>1, InvariantHolds, PTL

\* A snapshot holds no timer, whatever the module scheduled.
THEOREM SnapshotHasNoTimer == Spec => []NoTimerInSnapshot
<1>1. IInv => NoTimerInSnapshot
  BY DEF IInv, TypeOK, SleepersHaveHandles, Drained, NoTimerInSnapshot
<1> QED BY <1>1, InvariantHolds, PTL

\* A callback starts only from Fire and Begin, and its key has a handle then.
LEMMA SilentStep ==
    IInv /\ [Next]_vars
    => \A k \in Keys : task[k] # "running" /\ task'[k] = "running" => owner[k] \notin closed
<1> SUFFICES ASSUME IInv, [Next]_vars, NEW j \in Keys, task[j] # "running", task'[j] = "running"
             PROVE  owner[j] \notin closed
  OBVIOUS
<1>1. task[j] \in {"waiting", "checking"} /\ j \in handles
  <2> USE DEF IInv, TypeOK, SleepersHaveHandles, Timeouts
  <2>1. ASSUME SetTimer PROVE task[j] \in {"waiting", "checking"} /\ j \in handles
    BY <2>1, NextIsNew DEF SetTimer, Used
  <2>2. ASSUME NEW t \in Timeouts, Close(t)
       PROVE task[j] \in {"waiting", "checking"} /\ j \in handles
    BY <2>2, CancelledType DEF Close
  <2>3. ASSUME NEW t \in Timeouts, Refresh(t)
       PROVE task[j] \in {"waiting", "checking"} /\ j \in handles
    BY <2>3, NextIsNew, CancelledType DEF Refresh, Used
  <2>4. ASSUME NEW k \in made, ClearNumber(k)
       PROVE task[j] \in {"waiting", "checking"} /\ j \in handles
    BY <2>4, CancelledType DEF ClearNumber
  <2>5. ASSUME NEW k \in Keys, Begin(k) \/ Return(k) \/ SleepAgain(k) \/ Fire(k)
       PROVE task[j] \in {"waiting", "checking"} /\ j \in handles
    BY <2>5 DEF Begin, Return, SleepAgain, Fire
  <2>6. ASSUME NEW k \in Keys, ReturnAndRepeat(k)
       PROVE task[j] \in {"waiting", "checking"} /\ j \in handles
    BY <2>6, NextIsNew DEF ReturnAndRepeat, Repeats, Used
  <2>7. ASSUME NEW k \in Keys, Skip(k) \/ Finish(k) \/ Reap(k)
       PROVE task[j] \in {"waiting", "checking"} /\ j \in handles
    BY <2>7 DEF Skip, Cleanup, Finish, Reap
  <2>8. ASSUME AbortUnrefed PROVE task[j] \in {"waiting", "checking"} /\ j \in handles
    BY <2>8 DEF AbortUnrefed
  <2>9. ASSUME NEW t \in Timeouts, Unref(t) \/ Ref(t) \/ SetRepeat(t)
       PROVE task[j] \in {"waiting", "checking"} /\ j \in handles
    BY <2>9 DEF Unref, Ref, SetRepeat
  <2>10. ASSUME StartIo \/ Settle \/ Settled \/ ScriptEnds \/ CheckpointEnds
                \/ SentinelDone \/ Checkpoint \/ NothingQueued \/ Look
                \/ IdleReturns \/ DrainReturns \/ Snapshot \/ Request
       PROVE task[j] \in {"waiting", "checking"} /\ j \in handles
    BY <2>10 DEF 
        StartIo, Settle, Settled, ScriptEnds, CheckpointEnds, SentinelDone,
        Checkpoint, NothingQueued, Look, IdleReturns, DrainReturns, Snapshot,
        Request
  <2>11. ASSUME UNCHANGED vars PROVE task[j] \in {"waiting", "checking"} /\ j \in handles
    BY <2>11 DEF vars
  <2> QED
    BY <2>1, <2>2, <2>3, <2>4, <2>5, <2>6, <2>7, <2>8, <2>9, <2>10, <2>11
       DEF Next, Script, TurnEnds, Sentinel, Drive
<1> QED BY <1>1 DEF IInv, Current

\* A timer that was closed does not call its callback again.
THEOREM ClosedTimersAreSilent == Spec => ClosedStaysSilent
<1>1. IInv /\ [Next]_vars
      => [\A k \in Keys : task[k] # "running" /\ task'[k] = "running"
                          => owner[k] \notin closed]_vars
  BY SilentStep
<1> QED BY <1>1, InvariantHolds, PTL DEF Spec, ClosedStaysSilent

\* Two finite sets of the same size, one in the other, are the same: the
\* sentinel's counts are enough as long as no unref'd key is stale.
LEMMA AloneStep ==
    IInv /\ [Next]_vars
    => ( /\ sentinel # sentinel' /\ handles' # handles
         /\ unrefed \subseteq handles
         => handles' = {} )
<1> SUFFICES ASSUME IInv, [Next]_vars, sentinel # sentinel', handles' # handles,
                    unrefed \subseteq handles
             PROVE  handles' = {}
  OBVIOUS
<1>1. AbortUnrefed
  <2>1. ASSUME SetTimer \/ StartIo \/ Look PROVE AbortUnrefed
    BY <2>1 DEF SetTimer, StartIo, Look
  <2>2. ASSUME NEW t \in Timeouts, Close(t) \/ Refresh(t) \/ Unref(t) \/ Ref(t) \/ SetRepeat(t)
       PROVE AbortUnrefed
    BY <2>2 DEF Close, Refresh, Unref, Ref, SetRepeat
  <2>3. ASSUME NEW k \in made, ClearNumber(k) PROVE AbortUnrefed
    BY <2>3 DEF ClearNumber
  <2>4. ASSUME NEW k \in Keys, Begin(k) \/ Return(k) \/ SleepAgain(k) \/ Fire(k)
                \/ ReturnAndRepeat(k) \/ Skip(k) \/ Finish(k) \/ Reap(k)
       PROVE AbortUnrefed
    BY <2>4 DEF 
        Begin, Return, SleepAgain, Fire, ReturnAndRepeat, Skip, Finish, Reap
  <2>5. ASSUME Settle \/ Settled \/ ScriptEnds \/ CheckpointEnds
                \/ SentinelDone \/ Checkpoint \/ NothingQueued \/ IdleReturns
                \/ DrainReturns \/ Snapshot \/ Request PROVE AbortUnrefed
    BY <2>5 DEF 
        Settle, Settled, ScriptEnds, CheckpointEnds, SentinelDone, Checkpoint,
        NothingQueued, IdleReturns, DrainReturns, Snapshot, Request
  <2>6. ASSUME UNCHANGED vars PROVE AbortUnrefed
    BY <2>6 DEF vars
  <2> QED
    BY <2>1, <2>2, <2>3, <2>4, <2>5, <2>6
       DEF Next, Script, TurnEnds, Sentinel, Drive
<1>2. IsFiniteSet(handles)
  BY FS_Subset, TimersAssumption DEF IInv, TypeOK
<1>3. unrefed = handles
  BY <1>1, <1>2, FS_Subset DEF AbortUnrefed, OnlyUnrefed
<1> QED BY <1>1, <1>3 DEF AbortUnrefed

\* Without stale keys, the sentinel aborts the timers only when all that are
\* left are unref'd.
THEOREM SentinelAbortsWhenAlone == Spec => AbortsWhenAlone
<1>1. IInv /\ [Next]_vars
      => [ /\ sentinel # sentinel' /\ handles' # handles
           /\ unrefed \subseteq handles
           => handles' = {} ]_vars
  BY AloneStep
<1> QED BY <1>1, InvariantHolds, PTL DEF Spec, AbortsWhenAlone
=============================================================================
