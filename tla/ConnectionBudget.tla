-------------------------- MODULE ConnectionBudget --------------------------
(***************************************************************************)
(* What admission control promises, with no loops, semaphores or guards:   *)
(* a connection is either served, or refused because its source already    *)
(* occupies its whole share; never more than MaxOpen are served, never     *)
(* more than PerSource from one source.                                    *)
(*                                                                         *)
(* A connection whose stream is closed still weighs on its source for a    *)
(* moment ("draining"): the slot is given back after the close.  A source  *)
(* may be refused on account of it, but it never counts as open.           *)
(***************************************************************************)
EXTENDS Naturals, FiniteSets

CONSTANTS
  Conns,      \* connection attempts
  IpOf,       \* the source of each
  MaxOpen,    \* the cap on open connections
  PerSource   \* the cap per source, 0 for none

VARIABLES
  open,       \* connections being served
  draining,   \* closed connections whose slot is not yet free
  refused     \* connections turned away

vars == <<open, draining, refused>>

OfSource(S, c) == {d \in S : IpOf[d] = IpOf[c]}

Init == open = {} /\ draining = {} /\ refused = {}

Admit(c) ==
  /\ c \notin open \cup draining \cup refused
  /\ Cardinality(open) < MaxOpen
  /\ PerSource > 0 =>
       Cardinality(OfSource(open \cup draining, c)) < PerSource
  /\ open' = open \cup {c}
  /\ UNCHANGED <<draining, refused>>

Refuse(c) ==
  /\ c \notin open \cup draining \cup refused
  /\ PerSource > 0
  /\ Cardinality(OfSource(open \cup draining, c)) >= PerSource
  /\ refused' = refused \cup {c}
  /\ UNCHANGED <<open, draining>>

Close(c) ==
  /\ c \in open
  /\ open' = open \ {c}
  /\ draining' = draining \cup {c}
  /\ UNCHANGED refused

Free(c) ==
  /\ c \in draining
  /\ draining' = draining \ {c}
  /\ UNCHANGED <<open, refused>>

Next == \E c \in Conns : Admit(c) \/ Refuse(c) \/ Close(c) \/ Free(c)

Spec == Init /\ [][Next]_vars
=============================================================================
