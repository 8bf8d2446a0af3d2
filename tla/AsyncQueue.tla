----------------------------- MODULE AsyncQueue -----------------------------
(***************************************************************************)
(* What AsyncQueue (modules/util/AsyncQueue.js) promises its clients: one  *)
(* task runs at a time, tasks start in the order they were pushed, and a   *)
(* stopped queue takes no task.  This is the abstract specification that   *)
(* JingleSession is shown to implement.                                    *)
(***************************************************************************)
EXTENDS Sequences

CONSTANTS Task,     \* what can be pushed
          NoTask    \* the value of running when the worker is idle

VARIABLES queue,    \* tasks pushed and not started
          running,  \* the task the worker is executing
          stopped   \* the _stopped flag

vars == <<queue, running, stopped>>

Init == queue = <<>> /\ running = NoTask /\ stopped = FALSE

\* push(): after shutdown() the task goes nowhere, only its callback hears of it.
Pushed(q, t) == IF stopped THEN q ELSE Append(q, t)

Push == /\ \E t \in Task : queue' = Pushed(queue, t)
        /\ UNCHANGED <<running, stopped>>

\* The worker (concurrency 1) takes the oldest task.
Begin == /\ running = NoTask
         /\ queue # <<>>
         /\ running' = Head(queue)
         /\ queue' = Tail(queue)
         /\ UNCHANGED stopped

\* A task that calls back before it returns never shows as running.
BeginAndFinish == /\ running = NoTask
                  /\ queue # <<>>
                  /\ queue' = Tail(queue)
                  /\ UNCHANGED <<running, stopped>>

\* The callback of the finished task may push the task that follows it up.
Finish == /\ running # NoTask
          /\ running' = NoTask
          /\ \/ UNCHANGED queue
             \/ \E t \in Task : queue' = Pushed(queue, t)
          /\ UNCHANGED stopped

\* clear(); push(last); shutdown(), the sequence JingleSessionPC.close() runs.
ClearAndStop == /\ \E last \in Task : queue' = Pushed(<<>>, last)
                /\ stopped' = TRUE
                /\ UNCHANGED running

Next == Push \/ Begin \/ BeginAndFinish \/ Finish \/ ClearAndStop

Spec == Init /\ [][Next]_vars
=============================================================================
