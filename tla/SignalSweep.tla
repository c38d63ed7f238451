----------------------------- MODULE SignalSweep -----------------------------
(***************************************************************************)
(* What the opportunistic sweep of the signal store lets its users see.    *)
(* sweepLocked (signal.go:507) reclaims expired channels and "running or   *)
(* not running this changes no observable behaviour" (signal.go:503).      *)
(*                                                                         *)
(* swept[k] remembers the blob a sweep took from channel k, until a        *)
(* request that names k has been through the critical section and would    *)
(* have dealt with it; latest is the latest clock value any request has    *)
(* brought into the store.                                                 *)
(***************************************************************************)
EXTENDS SignalStore

VARIABLES swept, latest

sweepVars == <<vars, swept, latest>>

\* Request r is answered by the store, or starts to wait, in this step.
Serves(r) == pc[r] = "called" /\ pc'[r] # "called"
Served == {r \in Requests : Serves(r)}

\* A POST that changes another channel than its own has swept it.
SweptBy(p, k) == id[p] # k /\ StoredIn(k) # None /\ channels'[k] = None

SweepInit == Init /\ swept = [k \in ValidIds |-> None] /\ latest = 0

SweepNext ==
  /\ Next
  /\ swept' = [k \in ValidIds |->
                 IF closed' \/ \E r \in Served : id[r] = k THEN None
                 ELSE IF \E p \in Served \cap Posts : SweptBy(p, k) THEN StoredIn(k)
                 ELSE swept[k]]
  /\ latest' = IF \E r \in Served : now[r] > latest
                 THEN now[CHOOSE r \in Served : TRUE] ELSE latest

SweepSpec == SweepInit /\ [][SweepNext]_sweepVars

\* Had the sweep not run, this request would have found a blob it must honour.
Misled(r) == swept[id[r]] # None /\ now[r] < ExpiresAt(swept[id[r]])

\* The comment's claim: whether a sweep ran never changes what a request finds.
SweepChangesNoAnswer ==
  [][\A r \in Requests : Serves(r) /\ id[r] \in ValidIds => ~Misled(r)]_sweepVars

\* What the code does guarantee: a request is misled only if another one, with
\* a later clock, overtook it on the way to the lock.
SweepMisleadsOnlyTheOvertaken ==
  [][\A r \in Requests : Serves(r) /\ id[r] \in ValidIds /\ Misled(r)
                           => now[r] < latest]_sweepVars

\* What makes it so: a blob a sweep took had expired by a clock value that has
\* been in the store.
SweptIsExpired ==
  /\ latest \in Nat
  /\ swept \in [ValidIds -> Posts \cup {None}]
  /\ \A k \in ValidIds :
       swept[k] # None => pc[swept[k]] = "done" /\ ExpiresAt(swept[k]) <= latest

=============================================================================
