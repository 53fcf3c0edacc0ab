--------------------------- MODULE ComponentStream ---------------------------
(***************************************************************************)
(* A component stream between two JavaScript programs (internal/p3.rs): at *)
(* one end the pump that iterates a source and hands each item to a task   *)
(* that writes it, at the other the async iterable that pulls items under  *)
(* a lock, since next() may be called again before it is answered. Either  *)
(* end may give up: the source fails, or the consumer's iterator is        *)
(* returned, in the middle of a pull as well.                              *)
(*                                                                         *)
(* An item is its number. Items of a future are a stream of one.           *)
(***************************************************************************)
EXTENDS Integers, Sequences

CONSTANTS
    Items,  \* the longest source there is
    Pulls   \* bound on the calls of next()

ASSUME StreamAssumption == Items \in Nat /\ Pulls \in Nat

VARIABLES
    \* drive_stream_param and the callbacks of stream_writer_from_js
    pump,      \* the await it is at, before that "unsent"
    pumped,    \* items the source has given
    returned,  \* calls of the source's return()
    guard,     \* the writer guard is held
    \* the pure write task
    writeTask, \* "waiting" for a command, "writing", or "gone" with its end of the stream
    \* stream_reader_to_js
    lockQueue, \* what waits for the lock, the first one holding it: pulls, and 0 for close()
    reader,    \* the readable end: "open", "pulled" (a pull awaits it), "dropped"
    returnCalled,
    \* what the program was told
    pulls,     \* calls of next() so far
    results    \* of each, in the order of their answers: <<pull, item>>, item 0 for done

pumpVars == <<pump, pumped, returned, guard>>
readVars == <<lockQueue, reader, returnCalled, pulls, results>>
StreamVars == <<pumpVars, writeTask, readVars>>

StreamTypeOK ==
    /\ pump \in {"unsent", "next", "item", "acking", "stopping", "closing", "failing", "abandoning",
                "done", "failed"}
    /\ pumped \in 0..Items /\ returned \in 0..1 /\ guard \in BOOLEAN
    /\ writeTask \in {"waiting", "writing", "gone"}
    /\ lockQueue \in Seq(0..Pulls) /\ reader \in {"open", "pulled", "dropped"}
    /\ returnCalled \in BOOLEAN /\ pulls \in 0..Pulls
    /\ results \in Seq((1..Pulls) \X (0..Items))

StreamInit ==
    /\ pump = "unsent" /\ pumped = 0 /\ returned = 0 /\ guard = FALSE
    /\ writeTask = "waiting"
    /\ lockQueue = <<>> /\ reader = "open" /\ returnCalled = FALSE
    /\ pulls = 0 /\ results = <<>>

-----------------------------------------------------------------------------
(* The pump and the write task *)

\* The stream is lowered: the guard is taken and both tasks are spawned.
Lower ==
    /\ pump = "unsent" /\ pump' = "next" /\ guard' = TRUE
    /\ UNCHANGED <<pumped, returned, writeTask, readVars>>

\* Whatever the pump's promise settles with, its reactions close the channel and drop
\* the guard.
PumpEnds(how) == pump' = how /\ guard' = FALSE

\* await iterator.next()
IteratorAnswers ==
    /\ pump = "next"
    /\ \/ pumped < Items /\ pumped' = pumped + 1 /\ pump' = "item" /\ guard' = guard
       \/ PumpEnds("done") /\ pumped' = pumped
       \/ PumpEnds("failed") /\ pumped' = pumped  \* a trap: the writer goes too
    /\ UNCHANGED <<returned, writeTask, readVars>>

\* await result.value, then writeOne: it converts the item and sends it to the task
WriteOne ==
    /\ pump = "item"
    /\ \/ pump' = "failing" /\ writeTask' = writeTask   \* a value that rejects or cannot be converted
       \/ writeTask = "waiting" /\ pump' = "acking" /\ writeTask' = "writing"
       \/ writeTask = "gone" /\ pump' = "stopping" /\ writeTask' = writeTask
    /\ UNCHANGED <<pumped, returned, guard, readVars>>

\* write_one is done: the reader has the item (see ReaderAnswers), or has hung up.
HungUp ==
    /\ writeTask = "writing" /\ reader = "dropped"
    /\ writeTask' = "gone" /\ pump' = "stopping"
    /\ UNCHANGED <<pumped, returned, guard, readVars>>

\* close_async_iterator, called once for an item that was not taken
ReturnsSource ==
    /\ pump \in {"stopping", "failing"} /\ returned' = returned + 1
    /\ pump' = IF pump = "stopping" THEN "closing" ELSE "abandoning"
    /\ UNCHANGED <<pumped, guard, writeTask, readVars>>

\* await iterator.return(), which may reject; the failure of an item is the one that counts.
SourceReturned ==
    /\ \/ pump = "closing" /\ PumpEnds("done")
       \/ pump \in {"closing", "abandoning"} /\ PumpEnds("failed")
    /\ UNCHANGED <<pumped, returned, writeTask, readVars>>

\* The channel is closed, or the instance has trapped: the writer is dropped.
TaskEnds ==
    /\ pump \in {"done", "failed"} /\ writeTask = "waiting" /\ writeTask' = "gone"
    /\ UNCHANGED <<pumpVars, readVars>>

-----------------------------------------------------------------------------
(* The async iterable *)

\* next(): a program that has returned the iterator is answered at once, in JavaScript.
NextCall ==
    /\ pump # "unsent" /\ pulls < Pulls /\ pulls' = pulls + 1
    /\ IF returnCalled
       THEN results' = Append(results, <<pulls', 0>>) /\ lockQueue' = lockQueue
       ELSE lockQueue' = Append(lockQueue, pulls') /\ results' = results
    /\ UNCHANGED <<pumpVars, writeTask, reader, returnCalled>>

HasLock(p) == lockQueue # <<>> /\ Head(lockQueue) = p

Resolves(p, item) == results' = Append(results, <<p, item>>)
Unlocks == lockQueue' = Tail(lockQueue)

\* A pull has the lock: it awaits the reader, unless the stream is over or was closed.
TakesLock(p) ==
    /\ HasLock(p) /\ p # 0 /\ reader # "pulled"
    /\ IF returnCalled \/ reader = "dropped"
       THEN reader' = "dropped" /\ Resolves(p, 0) /\ Unlocks
       ELSE reader' = "pulled" /\ UNCHANGED <<results, lockQueue>>
    /\ UNCHANGED <<pumpVars, writeTask, returnCalled, pulls>>

\* reader.next() has an item, and the write task the acknowledgement of it, or the writer
\* is gone and nothing is left.
ReaderAnswers(p) ==
    /\ HasLock(p) /\ reader = "pulled"
    /\ \/ /\ writeTask = "writing" /\ reader' = "open" /\ Resolves(p, pumped)
          /\ writeTask' = "waiting" /\ pump' = "next" /\ UNCHANGED <<pumped, returned, guard>>
       \/ /\ writeTask = "gone" /\ reader' = "dropped" /\ Resolves(p, 0)
          /\ UNCHANGED <<pumpVars, writeTask>>
    /\ Unlocks
    /\ UNCHANGED <<returnCalled, pulls>>

\* return() or throw(): the pull under way is aborted, and ends the stream like the end of it.
ReturnIterator ==
    /\ pump # "unsent" /\ ~returnCalled /\ returnCalled' = TRUE
    /\ IF reader = "pulled"
       THEN /\ reader' = "dropped" /\ Resolves(Head(lockQueue), 0)
            /\ lockQueue' = Append(Tail(lockQueue), 0)
       ELSE /\ lockQueue' = Append(lockQueue, 0) /\ UNCHANGED <<reader, results>>
    /\ UNCHANGED <<pumpVars, writeTask, pulls>>

\* The promise of return() settles once the readable end is dropped.
IteratorReturned ==
    /\ HasLock(0) /\ reader' = "dropped" /\ Unlocks
    /\ UNCHANGED <<pumpVars, writeTask, returnCalled, pulls, results>>

StreamNext ==
    \/ Lower \/ IteratorAnswers \/ WriteOne \/ HungUp \/ ReturnsSource \/ SourceReturned \/ TaskEnds
    \/ NextCall \/ ReturnIterator \/ IteratorReturned
    \/ \E p \in 1..Pulls : TakesLock(p) \/ ReaderAnswers(p)

\* The drivers poll every task and the source's own promises settle; nobody has to pull.
StreamFairness ==
    /\ WF_StreamVars(IteratorAnswers) /\ WF_StreamVars(WriteOne) /\ WF_StreamVars(HungUp)
    /\ WF_StreamVars(ReturnsSource) /\ WF_StreamVars(SourceReturned) /\ WF_StreamVars(TaskEnds)
    /\ WF_StreamVars(IteratorReturned) /\ WF_StreamVars(\E p \in 1..Pulls : TakesLock(p) \/ ReaderAnswers(p))

StreamSpec == StreamInit /\ [][StreamNext]_StreamVars /\ StreamFairness

-----------------------------------------------------------------------------
(* Properties *)

\* Calls of next() that overlap get the items in the order of the calls, each one once: an
\* item that the source gave is skipped by nobody.
PullsInOrder ==
    /\ \A j, k \in DOMAIN results : j < k /\ results[j][2] # 0 /\ results[k][2] # 0 =>
           results[j][1] < results[k][1] /\ results[j][2] < results[k][2]
    /\ \A k \in DOMAIN results : results[k][2] > 1 => \E j \in 1..(k - 1) : results[j][2] = results[k][2] - 1

\* "Instead of observing a premature end-of-stream": a pull is told that the stream is over
\* only if it is, or if the program itself has returned the iterator.
NoEarlyEnd == (\E k \in DOMAIN results : results[k][2] = 0) => returnCalled \/ writeTask = "gone"

\* The source is told to clean up if the consumer hung up or an item could not be sent, and
\* only then; its runtime is kept driven until it has.
SourceIsReturned ==
    /\ guard <=> pump \notin {"unsent", "done", "failed"}
    /\ pump \in {"closing", "abandoning"} => returned = 1
    /\ returned = 1 => pump \in {"closing", "abandoning", "done", "failed"}

\* Each next() is answered, return() settles, and a consumer that gives up ends the
\* producer: nobody waits for the lock, or for the other side, for ever.
StreamSettles == []<>(lockQueue = <<>> /\ (returnCalled => pump \in {"done", "failed"}))

\* Items cross a component stream in order and once, up to an end that is real.
StreamInv == StreamTypeOK /\ PullsInOrder /\ NoEarlyEnd /\ SourceIsReturned
=============================================================================
