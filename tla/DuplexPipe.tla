----------------------------- MODULE DuplexPipe -----------------------------
(***************************************************************************)
(* What a relay promises its two ends: each direction is a first-in        *)
(* first-out pipe.  Bytes arrive in the order they were sent, none twice,  *)
(* and the end of a direction is seen only after all of its bytes.  Either *)
(* direction may end first.                                                *)
(***************************************************************************)
EXTENDS Naturals, Sequences

CONSTANTS
  Directions,   \* the directions of the relay
  Limit         \* how many bytes each direction may carry

VARIABLES
  sent,    \* bytes the source has sent, numbered from 1
  fin,     \* the source has ended its direction
  got,     \* bytes the destination has received
  eof      \* the destination has seen the end

vars == <<sent, fin, got, eof>>

Init ==
  /\ sent = [d \in Directions |-> 0]
  /\ fin = [d \in Directions |-> FALSE]
  /\ got = [d \in Directions |-> << >>]
  /\ eof = [d \in Directions |-> FALSE]

Send(d) ==
  /\ ~fin[d] /\ sent[d] < Limit[d]
  /\ sent' = [sent EXCEPT ![d] = @ + 1]
  /\ UNCHANGED <<fin, got, eof>>

Fin(d) ==
  /\ ~fin[d]
  /\ fin' = [fin EXCEPT ![d] = TRUE]
  /\ UNCHANGED <<sent, got, eof>>

Deliver(d) ==
  /\ ~eof[d] /\ Len(got[d]) < sent[d]
  /\ got' = [got EXCEPT ![d] = Append(@, Len(@) + 1)]
  /\ UNCHANGED <<sent, fin, eof>>

Eof(d) ==
  /\ fin[d] /\ ~eof[d] /\ Len(got[d]) = sent[d]
  /\ eof' = [eof EXCEPT ![d] = TRUE]
  /\ UNCHANGED <<sent, fin, got>>

Next == \E d \in Directions : Send(d) \/ Fin(d) \/ Deliver(d) \/ Eof(d)

Spec == Init /\ [][Next]_vars
=============================================================================
