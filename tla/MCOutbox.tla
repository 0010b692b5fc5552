------------------------------ MODULE MCOutbox ------------------------------
(* Small instances of OutboxDelivery for TLC. *)
EXTENDS OutboxDeliveryProperties, TLC

CONSTANTS p1, p2   \* publishers, as model values

TwoPublishers == {p1, p2}

ThreeEvents == 1 .. 3

\* All events belong to one aggregate.
OneAggregate == [e \in Events |-> 0]

\* Clocks agree with the order of the events.
TrueClock == [e \in Events |-> e]

\* Some adapters name the events the broker refused, the one for Kafka does not.
EitherError == {"named", "unnamed"}

PoisonFirst == {1}
=============================================================================
