----------------------------- MODULE MCEventBroker -----------------------------
(* Instances of EventBroker for TLC: one client of one or two kinds of events. *)
EXTENDS EventBroker
===============================================================================
