-------------------------- MODULE ProducerConsumer --------------------------
(***************************************************************************)
(* nebula::ProducerAndConsumer (include/nebula/producer_consumer.h) on     *)
(* nebula::Thread (include/nebula/thread.h): producer threads generate     *)
(* tasklets and push them into a shared queue, consumer threads pop and    *)
(* execute them, and the owner creates the threads, sets their stop flags, *)
(* joins them and destroys the queue.                                      *)
(*                                                                         *)
(* routine() is virtual.  Plain holds the threads that run the routines of *)
(* the library; the others run those of test/producer_consumer_t.cc, where *)
(* a producer ends when it has made its tasklets and a consumer when it    *)
(* finds the queue empty and then no producer active.                      *)
(*                                                                         *)
(* Every operation of the queue holds its mutex from begin to end and      *)
(* waits for nothing, so each is one step.                                 *)
(***************************************************************************)
EXTENDS Integers, Sequences

CONSTANTS
  Producers, Consumers,
  Plain,     \* the threads that do not override routine()
  MayDetach, \* the threads that may be without a queue
  Batch,     \* limit of each thread's loop, 0 for none, as the library's routines call it
  Limit,     \* how many tasklets each producer's generateNextTasklet() yields
  Outcome    \* what process() returns, for each tasklet

Threads == Producers \cup Consumers

Result == { "NOT_AVAILABLE", "SUCCESS", "FAILED", "ABORTED", "CANCELLED" }

ASSUME PCAssumption ==
  /\ Producers \cap Consumers = {}
  /\ Plain \subseteq Threads /\ MayDetach \subseteq Threads
  /\ Limit \in [Producers -> Nat]
  /\ Batch \in [Threads -> Nat] /\ \A t \in Plain : Batch[t] = 0

\* A producer's n-th tasklet.
Tasklets == UNION { {p} \X (1 .. Limit[p]) : p \in Producers }
Nobody   == << >>

ASSUME OutcomeAssumption == Outcome \in [Tasklets -> Result]

VARIABLES
  pc,        \* where each thread stands
  stop,      \* stop_ of each thread
  attached,  \* the threads whose tasklet_queue_ is set
  hand,      \* the tasklet t of each thread's loop, Nobody for none
  count,     \* how many tasklets its loop has handled, if that has a limit
  made,      \* tasklets each producer has generated
  queue,     \* items_
  active,    \* num_of_active_producers of the test
  ready,     \* producer_is_ready of the test
  reports,   \* history: what reportResult() was called with, for each tasklet
  deleted,   \* tasklets that were deleted
  owner      \* "up", then "destroy" in ~Queue(), then "gone"

work == << hand, count, made, queue, reports, deleted >>
vars == << pc, stop, attached, active, ready, work, owner >>

Goto(t, from, to) == pc[t] = from /\ pc' = [pc EXCEPT ![t] = to]

-----------------------------------------------------------------------------
(* Thread: create(), the stop flag, startHandler() and exitHandler().      *)

Create(t) ==
  /\ owner = "up"
  /\ Goto(t, "new", "start")
  /\ UNCHANGED << stop, attached, active, ready, work, owner >>

SetStop(t) ==
  /\ owner = "up"
  /\ stop' = [stop EXCEPT ![t] = TRUE]
  /\ UNCHANGED << pc, attached, active, ready, work, owner >>

\* The test's producers announce themselves, its consumers wait for one.
Start(t) ==
  /\ t \in Consumers \ Plain => ready
  /\ Goto(t, "start", IF t \in Producers \ Plain THEN "count" ELSE "top")
  /\ ready' = (ready \/ t \in Producers \ Plain)
  /\ UNCHANGED << stop, attached, active, work, owner >>

CountActive(p) ==
  /\ Goto(p, "count", "top")
  /\ active' = active + 1
  /\ UNCHANGED << stop, attached, ready, work, owner >>

\* Mutant: the producer leaves without counting itself out.
LeaveUncounted(p) ==
  /\ Goto(p, "leave", "done")
  /\ UNCHANGED << stop, attached, active, ready, work, owner >>

Leave(p) ==
  /\ Goto(p, "leave", "done")
  /\ active' = active - 1
  /\ UNCHANGED << stop, attached, ready, work, owner >>

\* The condition of routine()'s loop: Consumer::routine() of the library goes
\* on while the flag IS set.
GoesOn(t) == IF t \in Consumers \cap Plain THEN stop[t] ELSE ~stop[t]

\* The test's producers count themselves out.
Exit(t) == IF t \in Producers \ Plain THEN "leave" ELSE "done"

Top(t) ==
  /\ Goto(t, "top", IF GoesOn(t) THEN "work" ELSE Exit(t))
  /\ UNCHANGED << stop, attached, active, ready, work, owner >>

\* What routine() does after the work: the library's ones go round, the
\* test's look whether there is more to come.
Over(t) == t \notin Plain /\ IF t \in Producers THEN made[t] = Limit[t] ELSE active = 0

After(t) ==
  /\ Goto(t, "after", IF Over(t) THEN Exit(t) ELSE "top")
  /\ UNCHANGED << stop, attached, active, ready, work, owner >>

-----------------------------------------------------------------------------
(* The loops of both classes: one tasklet more, unless the limit is met.   *)

Full(t) == Batch[t] # 0 /\ count[t] = Batch[t]

Take(t, x) ==
  /\ ~Full(t)
  /\ hand' = [hand EXCEPT ![t] = x]
  /\ count' = [count EXCEPT ![t] = IF Batch[t] = 0 THEN 0 ELSE @ + 1]

\* The loop ends; the next one counts from 0.
Finish(t) ==
  /\ Goto(t, "work", "after")
  /\ count' = [count EXCEPT ![t] = 0]
  /\ UNCHANGED << stop, attached, active, ready, hand, made, queue, reports, deleted, owner >>

-----------------------------------------------------------------------------
(* Producer::generateTaskletAndDispatch(). *)

Generate(p) ==
  /\ made[p] < Limit[p]
  /\ Goto(p, "work", "dispatch")
  /\ made' = [made EXCEPT ![p] = @ + 1]
  /\ Take(p, << p, made[p] + 1 >>)
  /\ UNCHANGED << stop, attached, active, ready, queue, reports, deleted, owner >>

NoMore(p) ==
  /\ made[p] = Limit[p] \/ Full(p)
  /\ Finish(p)

\* Mutant: pushed at the wrong end.
DispatchInFront(p) ==
  /\ p \in attached
  /\ Goto(p, "dispatch", "work")
  /\ queue' = << hand[p] >> \o queue
  /\ hand' = [hand EXCEPT ![p] = Nobody]
  /\ UNCHANGED << stop, attached, active, ready, count, made, reports, deleted, owner >>

Dispatch(p) ==
  /\ p \in attached
  /\ Goto(p, "dispatch", "work")
  /\ queue' = Append(queue, hand[p])
  /\ hand' = [hand EXCEPT ![p] = Nobody]
  /\ UNCHANGED << stop, attached, active, ready, count, made, reports, deleted, owner >>

\* Without a queue the tasklet is deleted, and nothing is reported of it.
DispatchFails(p) ==
  /\ p \notin attached
  /\ Goto(p, "dispatch", "work")
  /\ deleted' = deleted \cup {hand[p]}
  /\ hand' = [hand EXCEPT ![p] = Nobody]
  /\ UNCHANGED << stop, attached, active, ready, count, made, queue, reports, owner >>

-----------------------------------------------------------------------------
(* Consumer::fetchTaskletAndExecute(). *)

\* Mutant: the tasklet stays in the queue.
FetchKeeps(c) ==
  /\ c \in attached /\ queue # << >>
  /\ Goto(c, "work", "execute")
  /\ Take(c, Head(queue))
  /\ UNCHANGED << stop, attached, active, ready, made, queue, reports, deleted, owner >>

Fetch(c) ==
  /\ c \in attached /\ queue # << >>
  /\ Goto(c, "work", "execute")
  /\ Take(c, Head(queue))
  /\ queue' = Tail(queue)
  /\ UNCHANGED << stop, attached, active, ready, made, reports, deleted, owner >>

FetchNone(c) ==
  /\ c \notin attached \/ queue = << >> \/ Full(c)
  /\ Finish(c)

\* Mutant: one more break is missing.
ReportedFallsOn(rc) == IF rc = "FAILED" THEN << rc, "ABORTED" >> ELSE << rc >>

\* Tasklet::execute() reports what process() returned.  The case of
\* NOT_AVAILABLE has no break and goes on into that of SUCCESS.
Reported(rc) == IF rc = "NOT_AVAILABLE" THEN << rc, "SUCCESS" >> ELSE << rc >>

\* Then cleanupAfterExecute() deletes it.
Execute(c) ==
  /\ Goto(c, "execute", "work")
  /\ reports' = [reports EXCEPT ![hand[c]] = @ \o Reported(Outcome[hand[c]])]
  /\ deleted' = deleted \cup {hand[c]}
  /\ hand' = [hand EXCEPT ![c] = Nobody]
  /\ UNCHANGED << stop, attached, active, ready, count, made, queue, owner >>

-----------------------------------------------------------------------------
(* The owner joins its threads, then destroys the queue. *)

Join ==
  /\ owner = "up" /\ owner' = "destroy"
  /\ \A t \in Threads : pc[t] = "done"
  /\ UNCHANGED << pc, stop, attached, active, ready, work >>

\* ~Queue() cancels what is left.
Cancel ==
  /\ owner = "destroy" /\ queue # << >>
  /\ reports' = [reports EXCEPT ![Head(queue)] = Append(@, "CANCELLED")]
  /\ deleted' = deleted \cup {Head(queue)}
  /\ queue' = Tail(queue)
  /\ UNCHANGED << pc, stop, attached, active, ready, hand, count, made, owner >>

Destroyed ==
  /\ owner = "destroy" /\ queue = << >>
  /\ owner' = "gone"
  /\ UNCHANGED << pc, stop, attached, active, ready, work >>

-----------------------------------------------------------------------------
Init ==
  /\ pc = [t \in Threads |-> "new"]
  /\ stop = [t \in Threads |-> FALSE]
  /\ \E d \in SUBSET MayDetach : attached = Threads \ d
  /\ hand = [t \in Threads |-> Nobody]
  /\ count = [t \in Threads |-> 0]
  /\ made = [p \in Producers |-> 0]
  /\ queue = << >>
  /\ active = 0 /\ ready = FALSE
  /\ reports = [x \in Tasklets |-> << >>]
  /\ deleted = {}
  /\ owner = "up"

ProducerStep(p) ==
  CountActive(p) \/ Leave(p) \/ Generate(p) \/ NoMore(p) \/ Dispatch(p) \/ DispatchFails(p)

ConsumerStep(c) ==
  Fetch(c) \/ FetchNone(c) \/ Execute(c)

Run(t) ==
  \/ Start(t) \/ Top(t) \/ After(t)
  \/ t \in Producers /\ ProducerStep(t)
  \/ t \in Consumers /\ ConsumerStep(t)

OwnerStep == (\E t \in Threads : Create(t)) \/ Join \/ Cancel \/ Destroyed

Next == (\E t \in Threads : Run(t) \/ SetStop(t)) \/ OwnerStep

Spec == Init /\ [][Next]_vars

\* Every thread is scheduled, and the owner creates and joins its threads;
\* nothing makes it set a stop flag.
FairSpec == Spec /\ (\A t \in Threads : WF_vars(Run(t))) /\ WF_vars(OwnerStep)

-----------------------------------------------------------------------------
(* Correctness. *)

Made   == { x \in Tasklets : x[2] <= made[x[1]] }
Held   == { hand[t] : t \in Threads } \ {Nobody}
Queued == { queue[i] : i \in DOMAIN queue }

\* Every tasklet that was generated is in exactly one place: held by one
\* thread, once in the queue, or deleted.  None is executed by two consumers,
\* deleted twice or lost.
OnePlace ==
  /\ Made = Held \cup Queued \cup deleted
  /\ Held \cap Queued = {} /\ Held \cap deleted = {} /\ Queued \cap deleted = {}
  /\ \A t, u \in Threads : hand[t] = hand[u] /\ hand[t] # Nobody => t = u
  /\ \A i, j \in DOMAIN queue : queue[i] = queue[j] => i = j

\* What execute() tells a tasklet whose process() returned rc: that, and behind
\* NOT_AVAILABLE a success that process() never claimed (producer_consumer.h:105).
Told(rc) == IF rc = "NOT_AVAILABLE" THEN << rc, "SUCCESS" >> ELSE << rc >>

\* A tasklet that went through the queue is told the result of its own process() once, when
\* it is executed and never before, or else, by ~Queue() alone, that it was cancelled; one
\* that could not be dispatched is told nothing.  When the queue is gone no tasklet is left.
OneResult ==
  /\ \A x \in Tasklets \ deleted : reports[x] = << >>
  /\ \A x \in deleted :
       IF x[1] \in attached
       THEN reports[x] = Told(Outcome[x]) \/ (reports[x] = << "CANCELLED" >> /\ owner # "up")
       ELSE reports[x] = << >>
  /\ owner = "gone" => deleted = Made

\* The number of the last tasklet that producer p has given away, and the numbers behind
\* the i-th place of the queue of those of its producer.
Pushed(p) == IF hand[p] = Nobody THEN made[p] ELSE made[p] - 1
Behind(i) == { queue[j][2] : j \in { k \in i + 1 .. Len(queue) : queue[k][1] = queue[i][1] } }

\* The tasklets of one producer leave the queue in the order in which it
\* generated them, however many consumers pop and other producers push: behind each
\* are all that its producer pushed after it, and none that it pushed before.
InOrder ==
  \A i \in DOMAIN queue :
    LET p == queue[i][1]
    IN queue[i][2] <= Pushed(p) /\ Behind(i) = queue[i][2] + 1 .. Pushed(p)

\* A thread ends once it is asked to, and the test's threads end by themselves:
\* join() returns.  Consumer::routine() of the library is the exception.
Ends ==
  \A t \in Threads \ (Consumers \cap Plain) :
    (pc[t] # "new" /\ (stop[t] \/ t \notin Plain)) ~> pc[t] = "done"

\* A tasklet in the queue is executed, as long as nobody asks a thread to stop
\* (of threads that run the library's routines).
Executed ==
  \A x \in Tasklets :
    (x \in Queued) ~> (x \notin Queued \/ \E t \in Threads : stop[t])
=============================================================================
