----------------------------- MODULE MCDelivery -----------------------------
EXTENDS Delivery

\* A line, of which the hub stores every copy it is sent, and an event, which it
\* stores once; a batch writes the event first.
KindsInOrder == <<"log", "event">>
=============================================================================
