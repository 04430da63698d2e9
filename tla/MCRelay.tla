------------------------------ MODULE MCRelay ------------------------------
(* A relay of a few bytes through sockets and buffers smaller than that.   *)
EXTENDS Relay

MCLimit == [up |-> 3, down |-> 2]
MCLimitLive == [up |-> 2, down |-> 2]
MCLimitDeadlock == [up |-> 4, down |-> 4]
=============================================================================
