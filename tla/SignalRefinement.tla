-------------------------- MODULE SignalRefinement --------------------------
(***************************************************************************)
(* The signal channel store implements the rendezvous it promises: the     *)
(* contract is Rendezvous, the store SignalStore, and the mapping below    *)
(* forgets structs, pointers, inboxes, caps and sweeps.                    *)
(***************************************************************************)
EXTENDS SignalStore

Slot == [k \in ValidIds |-> StoredIn(k)]

\* A reader has been given its blob as soon as it is in the inbox.
Taken == [g \in Gets |-> IF inbox[g] # None THEN inbox[g] ELSE got[g]]

PostState(p) ==
  IF pc[p] = "idle" THEN "idle"
  ELSE IF pc[p] = "called" THEN "asked"
  ELSE IF reply[p] = "Stored" THEN "served" ELSE "turnedAway"

GetState(g) ==
  IF pc[g] = "idle" THEN "idle"
  ELSE IF pc[g] = "called" THEN "asked"
  ELSE IF Taken[g] # None THEN "served"
  ELSE IF active[g] THEN "waiting" ELSE "turnedAway"

UserState == [r \in Requests |-> IF r \in Posts THEN PostState(r) ELSE GetState(r)]

Contract == INSTANCE Rendezvous WITH
  Names <- Ids, Keys <- ValidIds, born <- now, chan <- id, slot <- Slot, state <- UserState,
  taken <- Taken, down <- closed

\* The store keeps the promises of Rendezvous, whatever order stale requests,
\* timers, disconnects, sweeps and Shutdown come in.
ImplementsRendezvous == Contract!Spec

=============================================================================
