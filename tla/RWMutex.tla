-------------------------------- MODULE RWMutex --------------------------------
(***************************************************************************)
(* sync.RWMutex of the Go library, which is outside the repository: a      *)
(* pending writer keeps later readers out, and lets in the readers that    *)
(* came while it was pending when it unlocks.  The lock is a record that   *)
(* its users keep in a variable.                                           *)
(*                                                                         *)
(*   readers  who holds the lock for reading                               *)
(*   blocked  who waits in RLock                                           *)
(*   pending  the writer whose turn it is, and who waits for the readers   *)
(***************************************************************************)

Unlocked == [readers |-> {}, blocked |-> {}, pending |-> {}]

RWMutexes(reader, writer) ==
  [readers : SUBSET reader, blocked : SUBSET reader, pending : SUBSET writer]

RLock(m, p) ==
  IF m.pending = {} THEN [m EXCEPT !.readers = @ \cup {p}]
                    ELSE [m EXCEPT !.blocked = @ \cup {p}]

RUnlock(m, p) == [m EXCEPT !.readers = @ \ {p}]

\* A writer takes its turn, then waits until it is alone.
MayAnnounce(m) == m.pending = {}
Announce(m, w) == [m EXCEPT !.pending = {w}]

Locked(m, w) == w \in m.pending /\ m.readers = {}

Unlock(m) == [readers |-> m.readers \cup m.blocked, blocked |-> {}, pending |-> {}]
===============================================================================
