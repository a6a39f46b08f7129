----------------------------- MODULE MCEventStore -----------------------------
(* Bounds for EventStore: an event with nothing but a payload, and one whose  *)
(* description and span are bytes that look like lengths; room for three of   *)
(* them, or for two and a torn one, with anything appended behind the tear.   *)
EXTENDS EventStore

Bare     == [type |-> 0, id |-> 1, entity |-> 2,
             desc |-> <<>>, span |-> <<>>, payload |-> <<3, 0>>]
Narrated == [type |-> 1, id |-> 2, entity |-> 0,
             desc |-> <<1>>, span |-> <<2>>, payload |-> <<>>]

MCEvents == {Bare, Narrated}
===============================================================================
