--------------------------- MODULE MCAggregation ---------------------------
(* A small instance of Aggregation for TLC, of each plugin in turn.        *)
EXTENDS Aggregation

Packets == [time |-> 2, ip |-> 3, squid |-> 3]
Events  == [time |-> 2, ip |-> 2, squid |-> 3]
============================================================================
