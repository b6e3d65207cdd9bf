------------------------- MODULE MCProducerConsumer -------------------------
(* Instances of ProducerConsumer for TLC. *)
EXTENDS ProducerConsumer

CONSTANT p1

\* The consumer that overrides its routine goes round for each tasklet.
Batches == [t \in Threads |-> IF t \in Consumers \ Plain THEN 1 ELSE 0]

\* Two tasklets of the first producer, whose order matters, one of the other;
\* they end in different ways.
Limits   == [p \in Producers |-> IF p = p1 THEN 2 ELSE 1]
Outcomes == [x \in Tasklets |-> IF x = << p1, 1 >> THEN "NOT_AVAILABLE"
                                ELSE IF x = << p1, 2 >> THEN "FAILED" ELSE "SUCCESS"]
=============================================================================
