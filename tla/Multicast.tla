------------------------------- MODULE Multicast -------------------------------
(***************************************************************************)
(* What an event broker promises: whoever is a member when an event has    *)
(* been published has been given it, once, and the events of one publisher *)
(* in the order in which they were published.                              *)
(***************************************************************************)
EXTENDS Naturals, Sequences, Functions

CONSTANTS Member, Publisher, MaxEvents

Event == Publisher \X (1 .. MaxEvents)

VARIABLES
  members,    \* who has joined
  log,        \* what each member has been given, in order
  published   \* the events whose publication has been completed

vars == <<members, log, published>>

Has(m, e) == e \in Range(log[m])

Init ==
  /\ members = {}
  /\ log = [m \in Member |-> <<>>]
  /\ published = {}

\* A member joins: no event that is completed later may pass it by.
Join(m) ==
  /\ m \notin members
  /\ members' = members \cup {m}
  /\ UNCHANGED <<log, published>>

\* A member is given an event whose predecessors have been published.
Deliver(m, e) ==
  /\ m \in members
  /\ e \notin published
  /\ \A n \in 1 .. MaxEvents : n < e[2] => <<e[1], n>> \in published
  /\ ~Has(m, e)
  /\ log' = [log EXCEPT ![m] = Append(@, e)]
  /\ UNCHANGED <<members, published>>

Complete(e) ==
  /\ e \notin published
  /\ \A m \in members : Has(m, e)
  /\ published' = published \cup {e}
  /\ UNCHANGED <<members, log>>

Next ==
  \/ \E m \in Member : Join(m)
  \/ \E m \in Member, e \in Event : Deliver(m, e)
  \/ \E e \in Event : Complete(e)

Spec == Init /\ [][Next]_vars
===============================================================================
