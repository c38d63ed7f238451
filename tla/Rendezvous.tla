----------------------------- MODULE Rendezvous -----------------------------
(***************************************************************************)
(* What the signal channel promises its users, whatever structs, waiters,  *)
(* caps and sweeps it is built from (the contract the comments of          *)
(* internal/signal/signal.go state for Post, Get and Shutdown):            *)
(*                                                                         *)
(*   - a channel is a one-place buffer; a blob put into it stays until one *)
(*     reader takes it, until it has outlived its TTL, or until shutdown;  *)
(*   - a writer is turned away only by a blob that holds the place (or     *)
(*     because the request is malformed or the store is down);             *)
(*   - a blob put while a reader waits goes to a reader at once, and to    *)
(*     one only; a reader that gave up is never given one.                 *)
(*                                                                         *)
(* A blob that has outlived its TTL may be forgotten at any operation, by  *)
(* the operation's own clock or by a sweep: every action that touches the  *)
(* buffer may also forget a set F of such blobs.                           *)
(***************************************************************************)
EXTENDS Naturals

CONSTANTS Posts, Gets, Names, Keys, Oversized, TTL, MaxClock, None

Users == Posts \cup Gets

VARIABLES
  clock,
  born,    \* the clock value at which each request was made
  chan,    \* the channel it names: a key, or something that is not one
  slot,    \* the blob each channel holds
  state,   \* idle, asked, waiting, served or turned away
  taken,   \* the blob each reader was given
  down     \* the store has been shut down

vars == <<clock, born, chan, slot, state, taken, down>>

Outlived(k) == slot[k] # None /\ clock >= born[slot[k]] + TTL

\* The buffers after the blobs in channels F have been forgotten.
After(F) == [k \in Keys |-> IF k \in F THEN None ELSE slot[k]]
Forgettable == SUBSET {k \in Keys : Outlived(k)}

Becomes(u, s) == state' = [state EXCEPT ![u] = s]

Init ==
  /\ clock = 0
  /\ born = [u \in Users |-> 0]
  /\ chan = [u \in Users |-> None]
  /\ slot = [k \in Keys |-> None]
  /\ state = [u \in Users |-> "idle"]
  /\ taken = [g \in Gets |-> None]
  /\ down = FALSE

Tick ==
  /\ clock < MaxClock
  /\ clock' = clock + 1
  /\ UNCHANGED <<born, chan, slot, state, taken, down>>

Ask(u) ==
  /\ state[u] = "idle"
  /\ Becomes(u, "asked")
  /\ born' = [born EXCEPT ![u] = clock]
  /\ \E c \in Names : chan' = [chan EXCEPT ![u] = c]
  /\ UNCHANGED <<clock, slot, taken, down>>

\* A request the store cannot serve at all.
Decline(u) ==
  /\ state[u] = "asked"
  /\ chan[u] \notin Keys \/ down \/ u \in Oversized
  /\ Becomes(u, "turnedAway")
  /\ UNCHANGED <<clock, born, chan, slot, taken, down>>

Serving(u) == state[u] = "asked" /\ chan[u] \in Keys /\ ~down

Conflict(p) ==
  /\ Serving(p)
  /\ \E F \in Forgettable : slot' = After(F) /\ slot'[chan[p]] # None
  /\ Becomes(p, "turnedAway")
  /\ UNCHANGED <<clock, born, chan, taken, down>>

Put(p) ==
  /\ Serving(p)
  /\ \A g \in Gets : ~(state[g] = "waiting" /\ chan[g] = chan[p])
  /\ \E F \in Forgettable :
       /\ After(F)[chan[p]] = None
       /\ slot' = [After(F) EXCEPT ![chan[p]] = p]
  /\ Becomes(p, "served")
  /\ UNCHANGED <<clock, born, chan, taken, down>>

Give(p, g) ==
  /\ Serving(p)
  /\ state[g] = "waiting"
  /\ chan[g] = chan[p]
  /\ \E F \in Forgettable : slot' = After(F) /\ slot'[chan[p]] = None
  /\ taken' = [taken EXCEPT ![g] = p]
  /\ state' = [state EXCEPT ![p] = "served", ![g] = "served"]
  /\ UNCHANGED <<clock, born, chan, down>>

Take(g) ==
  /\ Serving(g)
  /\ slot[chan[g]] # None
  /\ taken' = [taken EXCEPT ![g] = slot[chan[g]]]
  /\ slot' = [slot EXCEPT ![chan[g]] = None]
  /\ Becomes(g, "served")
  /\ UNCHANGED <<clock, born, chan, down>>

\* A reader that finds nothing waits, or is refused for want of room.
FindNothing(g) ==
  /\ Serving(g)
  /\ \E F \in Forgettable : slot' = After(F) /\ slot'[chan[g]] = None
  /\ Becomes(g, "waiting") \/ Becomes(g, "turnedAway")
  /\ UNCHANGED <<clock, born, chan, taken, down>>

GiveUp(g) ==
  /\ state[g] = "waiting"
  /\ Becomes(g, "turnedAway")
  /\ UNCHANGED <<clock, born, chan, slot, taken, down>>

Close ==
  /\ ~down
  /\ down' = TRUE
  /\ slot' = [k \in Keys |-> None]
  /\ state' = [u \in Users |-> IF state[u] = "waiting" THEN "turnedAway" ELSE state[u]]
  /\ UNCHANGED <<clock, born, chan, taken>>

Next ==
  \/ Tick
  \/ \E u \in Users : Ask(u) \/ Decline(u)
  \/ \E p \in Posts : Conflict(p) \/ Put(p) \/ \E g \in Gets : Give(p, g)
  \/ \E g \in Gets : Take(g) \/ FindNothing(g) \/ GiveUp(g)
  \/ Close

Spec == Init /\ [][Next]_vars

=============================================================================
