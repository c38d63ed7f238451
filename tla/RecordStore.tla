----------------------------- MODULE RecordStore -----------------------------
(***************************************************************************)
(* The record table, internal/store/store.go, with the requests and the    *)
(* timer that use it: handlePutRecord and handleGetRecord                  *)
(* (internal/api/record.go), handleMeta (internal/api/meta.go) and         *)
(* SweepRecords (internal/api/api.go:341).                                 *)
(*                                                                         *)
(* Each of them reads the clock once, first, and gives that value to every *)
(* statement it runs; body reads, the limiter and the database lie in      *)
(* between.  One SQL statement is one action.  A lookup runs two.          *)
(*                                                                         *)
(* A row is named by the publish that wrote it.  What an envelope says is  *)
(* its lookup_id and its expires_at; a replay is another publish that says *)
(* the same.                                                               *)
(*                                                                         *)
(* A definition headed "Variant" is a plausible slip in the definition     *)
(* that follows it; no specification uses it.                              *)
(***************************************************************************)
EXTENDS Naturals, FiniteSets, Powers

CONSTANTS
  Publishes,    \* PUT /v1/record requests
  Lookups,      \* GET /v1/record requests
  LookupIds,
  Common,       \* how many leading bits two lookup_ids have in common
  MaxBits,      \* the width of a lookup_id
  Expiries,     \* values of expires_at
  MaxTTL,       \* Limits.MaxTTL + Limits.SkewGrace
  KMin,         \* query.KMin
  KClient,      \* the anonymity set a conforming client aims for
  MaxClock,     \* bound on the clock
  MaxRestarts,  \* bound on the restarts
  None

Requests == Publishes \cup Lookups

ASSUME RecordAssumption ==
  /\ Publishes \cap Lookups = {}
  /\ None \notin Publishes /\ None \notin LookupIds
  /\ IsFiniteSet(LookupIds) /\ LookupIds # {}
  /\ MaxBits \in Nat
  /\ Common \in [LookupIds -> [LookupIds -> 0..MaxBits]]
  /\ \A i, j \in LookupIds : Common[i][j] = MaxBits <=> i = j
  /\ Expiries \subseteq Nat
  /\ MaxTTL \in Nat
  /\ KMin \in Nat \ {0} /\ KClient \in Nat /\ KClient >= KMin
  /\ MaxClock \in Nat /\ MaxRestarts \in Nat

VARIABLES
  clock,
  rows,      \* the records table: lookup_id -> the publish that wrote the row
  pc,        \* how far each request is, or how it was answered
  now,       \* the clock value each request carries
  id,        \* the lookup_id a publish names; the one a lookup's prefix is of
  exp,       \* expires_at of each publish
  bits,      \* the bits each lookup asks for
  answer,    \* the rows each lookup returned
  shown,     \* history: the rows a lookup's GET /v1/meta counted
  timer,     \* the sweep goroutine: idle, or called with a clock value
  timerNow,
  restarts

asks  == <<now, id, exp, bits>>
sweep == <<timer, timerNow>>
reads == <<answer, shown>>
vars  == <<clock, rows, pc, asks, reads, sweep, restarts>>

(***************************************************************************)
(* Helpers.                                                                *)
(***************************************************************************)

\* The rows unexpired at t: what every read sees, swept or not.
Unexpired(t) == {i \in LookupIds : rows[i] # None /\ exp[rows[i]] > t}

\* Variant: lapsed rows counted until they are swept.
CountStored(t) == Cardinality({i \in LookupIds : rows[i] # None})

Count(t) == Cardinality(Unexpired(t))

\* floor(log2(c / k)), and 0 where that is negative or undefined.
LogOf(c, k) == Cardinality({b \in 1..c : Pow(2, b) * k <= c})

Cap(c) == LogOf(c, KMin)

\* Two significant figures, rounded down; counts of ten digits at most.
Understate(c) ==
  LET scale == Pow(10, Cardinality({e \in 1..8 : c \div Pow(10, e) >= 10}))
  IN  (c \div scale) * scale

\* accept.Check's two conditions on the clock; its others are Refuse's.
Acceptable(p) == exp[p] > now[p] /\ exp[p] <= now[p] + MaxTTL

\* Variant: an equal expiry is let through.
AdmitsEqual(p) == id[p] \in Unexpired(now[p]) => exp[p] >= exp[rows[id[p]]]

\* Variant: the WHERE left out, and the last writer wins.
AdmitsAny(p) == TRUE

\* The WHERE of putSQL: what is stored has lapsed, or expires earlier.
Admits(p) == id[p] \in Unexpired(now[p]) => exp[p] > exp[rows[id[p]]]

\* Variant: only the identifier the prefix was taken from.
MatchesExactly(l, t) == Unexpired(t) \cap {id[l]}

\* Query.Matches, on the rows unexpired at t.
Matching(l, t) == {i \in Unexpired(t) : Common[i][id[l]] >= bits[l]}

\* The handler has read the clock and not answered yet.
InFlight == {"asked", "called", "counted"}

Answer(r, a) == pc' = [pc EXCEPT ![r] = a]

(***************************************************************************)
(* Actions.                                                                *)
(***************************************************************************)

Init ==
  /\ clock = 0
  /\ rows = [i \in LookupIds |-> None]
  /\ pc = [r \in Requests |-> "idle"]
  /\ now = [r \in Requests |-> 0]
  /\ id = [r \in Requests |-> None]
  /\ exp = [p \in Publishes |-> 0]
  /\ bits = [l \in Lookups |-> 0]
  /\ answer = [l \in Lookups |-> {}]
  /\ shown = [l \in Lookups |-> {}]
  /\ timer = "idle"
  /\ timerNow = 0
  /\ restarts = 0

Tick ==
  /\ clock < MaxClock
  /\ clock' = clock + 1
  /\ UNCHANGED <<rows, pc, asks, reads, sweep, restarts>>

CallPut(p) ==
  /\ pc[p] = "idle"
  /\ Answer(p, "called")
  /\ now' = [now EXCEPT ![p] = clock]
  /\ \E i \in LookupIds : id' = [id EXCEPT ![p] = i]
  /\ \E e \in Expiries : exp' = [exp EXCEPT ![p] = e]
  /\ UNCHANGED <<clock, rows, bits, reads, sweep, restarts>>

\* Turned away before the table is touched: by the limiter, an unreadable body,
\* a malformed query or accept.Check; or by the table, which answers an error.
Refuse(r) ==
  /\ pc[r] \in InFlight
  /\ Answer(r, "refused")
  /\ UNCHANGED <<clock, rows, asks, reads, sweep, restarts>>

\* Variant: the conflict target left out, and every row updated.
WriteAll(p) == rows' = [i \in LookupIds |-> IF rows[i] = None /\ i # id[p] THEN None ELSE p]

\* The upsert of putSQL.
Write(p) == rows' = [rows EXCEPT ![id[p]] = p]

PutStores(p) ==
  /\ pc[p] = "called"
  /\ Acceptable(p)
  /\ Admits(p)
  /\ Write(p)
  /\ Answer(p, "accepted")
  /\ UNCHANGED <<clock, asks, reads, sweep, restarts>>

\* 409: what is stored is unexpired, and expires no earlier.
PutNotNewer(p) ==
  /\ pc[p] = "called"
  /\ Acceptable(p)
  /\ ~Admits(p)
  /\ Answer(p, "notNewer")
  /\ UNCHANGED <<clock, rows, asks, reads, sweep, restarts>>

\* The client disconnects or storage reports a fault: the answer is not
\* "accepted", but the statement may have committed.
PutLost(p) ==
  /\ pc[p] = "called"
  /\ Acceptable(p)
  /\ Admits(p)
  /\ Write(p)
  /\ Answer(p, "lost")
  /\ UNCHANGED <<clock, asks, reads, sweep, restarts>>

\* A conforming client asks GET /v1/meta first, which counts in a step of its own,
CallMeta(l) ==
  /\ pc[l] = "idle"
  /\ Answer(l, "asked")
  /\ now' = [now EXCEPT ![l] = clock]
  /\ UNCHANGED <<clock, rows, id, exp, bits, reads, sweep, restarts>>

\* and sizes its prefix by the figure it is given.
Meta(l) ==
  /\ pc[l] = "asked"
  /\ Answer(l, "sized")
  /\ bits' = [bits EXCEPT ![l] = LogOf(Understate(Count(now[l])), KClient)]
  /\ shown' = [shown EXCEPT ![l] = {rows[i] : i \in Unexpired(now[l])}]
  /\ UNCHANGED <<clock, rows, now, id, exp, answer, sweep, restarts>>

\* A lookup by a client that did that, or by one that asks what it likes.
CallGet(l) ==
  /\ pc[l] \in {"idle", "sized"}
  /\ Answer(l, "called")
  /\ now' = [now EXCEPT ![l] = clock]
  /\ \E i \in LookupIds : id' = [id EXCEPT ![l] = i]
  /\ IF pc[l] = "sized" THEN UNCHANGED bits
     ELSE \E b \in 0..MaxBits : bits' = [bits EXCEPT ![l] = b]
  /\ UNCHANGED <<clock, rows, exp, reads, sweep, restarts>>

\* The first statement of handleGetRecord, and the cap computed from it.
CountRows(l) ==
  /\ pc[l] = "called"
  /\ Answer(l, IF bits[l] > Cap(Count(now[l])) THEN "tooPrecise" ELSE "counted")
  /\ UNCHANGED <<clock, rows, asks, reads, sweep, restarts>>

\* The second statement.
ReadRows(l) ==
  /\ pc[l] = "counted"
  /\ answer' = [answer EXCEPT ![l] = {rows[i] : i \in Matching(l, now[l])}]
  /\ Answer(l, "answered")
  /\ UNCHANGED <<clock, rows, asks, shown, sweep, restarts>>

TimerFires ==
  /\ timer = "idle"
  /\ timer' = "called"
  /\ timerNow' = clock
  /\ UNCHANGED <<clock, rows, pc, asks, reads, restarts>>

\* Variant: the equal instant swept as the one before it, and a live row lost.
SweepEarly ==
  /\ timer = "called"
  /\ timer' = "idle"
  /\ rows' = [i \in LookupIds |-> IF i \in Unexpired(timerNow + 1) THEN rows[i] ELSE None]
  /\ timerNow' = 0
  /\ UNCHANGED <<clock, pc, asks, reads, restarts>>

Sweep ==
  /\ timer = "called"
  /\ timer' = "idle"
  /\ rows' = [i \in LookupIds |-> IF i \in Unexpired(timerNow) THEN rows[i] ELSE None]
  /\ timerNow' = 0
  /\ UNCHANGED <<clock, pc, asks, reads, restarts>>

\* A sweep that fails is not reported, and not retried until the next tick.
SweepFails ==
  /\ timer = "called"
  /\ timer' = "idle"
  /\ timerNow' = 0
  /\ UNCHANGED <<clock, rows, pc, asks, reads, restarts>>

\* The process dies and starts again on the same database file: what was in
\* flight is gone, what was committed is not.
Restart ==
  /\ restarts < MaxRestarts
  /\ restarts' = restarts + 1
  /\ pc' = [r \in Requests |-> IF pc[r] \in InFlight THEN "lost" ELSE pc[r]]
  /\ timer' = "idle"
  /\ timerNow' = 0
  /\ UNCHANGED <<clock, rows, asks, reads>>

Next ==
  \/ Tick
  \/ \E p \in Publishes : CallPut(p) \/ PutStores(p) \/ PutNotNewer(p) \/ PutLost(p)
  \/ \E r \in Requests : Refuse(r)
  \/ \E l \in Lookups : CallMeta(l) \/ Meta(l) \/ CallGet(l) \/ CountRows(l) \/ ReadRows(l)
  \/ TimerFires \/ Sweep \/ SweepFails
  \/ Restart

Spec == Init /\ [][Next]_vars

(***************************************************************************)
(* Properties.                                                             *)
(***************************************************************************)

Answers == {"idle", "asked", "sized", "called", "counted", "accepted", "notNewer",
            "refused", "lost", "answered", "tooPrecise"}

\* The type invariant: a row holds a publish that named that lookup_id.
TypeOK ==
  /\ clock \in 0..MaxClock
  /\ rows \in [LookupIds -> Publishes \cup {None}]
  /\ \A i \in LookupIds : rows[i] # None => id[rows[i]] = i
  /\ pc \in [Requests -> Answers]
  /\ now \in [Requests -> 0..MaxClock]
  /\ id \in [Requests -> LookupIds \cup {None}]
  /\ exp \in [Publishes -> Expiries \cup {0}]
  /\ bits \in [Lookups -> Nat]
  /\ answer \in [Lookups -> SUBSET Publishes]
  /\ shown \in [Lookups -> SUBSET Publishes]
  /\ timer \in {"idle", "called"}
  /\ timerNow \in 0..clock
  /\ restarts \in 0..MaxRestarts

\* The row under i is q, or one that expires no earlier.
AtLeast(i, q) == rows[i] # None /\ exp[rows[i]] >= exp[q]

\* A publish answered 204 (record.go, Put) is in the table until it expires, or
\* one that expires later is: no sweep with an older clock value, no publish
\* that was slow to reach the table and no restart takes it away.
AcceptedIsKept ==
  \A p \in Publishes :
    pc[p] = "accepted" /\ exp[p] > clock => AtLeast(id[p], p)

\* The recency rule against replay (putSQL): while a row is unexpired, nothing
\* takes its place but a row that expires strictly later.
NoRollback ==
  [][\A i \in LookupIds :
       i \in Unexpired(clock) /\ rows'[i] # rows[i]
         => rows'[i] # None /\ exp[rows'[i]] > exp[rows[i]]]_vars

\* The answer a lookup is given in this step covers q: q's lookup_id has the
\* prefix, and the answer holds q or a later one.
Covers(l, q) ==
  Common[id[q]][id[l]] >= bits[l]
    => \E r \in answer'[l] : id[r] = id[q] /\ exp[r] >= exp[q]

AnsweredNow(l) == pc[l] # "answered" /\ pc'[l] = "answered"

\* A lookup (handleGetRecord, ByPrefix) finds every record whose publish was
\* answered 204 before the table is read and which has not expired by then,
\* though the clock it looks with was read earlier.
PublishedIsFound ==
  [][\A l \in Lookups, p \in Publishes :
       AnsweredNow(l) /\ pc[p] = "accepted" /\ exp[p] > clock => Covers(l, p)]_vars

\* What one lookup returned, a later one under the same prefix returns too, or
\* a newer record, until it expires: nobody sees an address roll back, not
\* even one whose publisher never heard that it was stored.
LookupsNeverGoBack ==
  [][\A l, m \in Lookups :
       AnsweredNow(l) =>
         \A q \in answer[m] : exp[q] > clock => Covers(l, q)]_vars

\* A client that sizes its prefix by GET /v1/meta (understate, Cap) is refused
\* as over-precise only if a record that meta counted has expired since: no
\* publish, sweep or restart in between does it.
OverPreciseOnlyByExpiry ==
  \A l \in Lookups :
    pc[l] = "tooPrecise" /\ shown[l] # {} => \E q \in shown[l] : exp[q] <= clock

\* What record.go:129-133 and query.go:96-100 say of the same client: that it
\* "always lands at or below this cap" and "can never be rejected".
ConformingNeverOverPrecise ==
  \A l \in Lookups : pc[l] = "tooPrecise" => shown[l] = {}

(***************************************************************************)
(* The inductive invariant behind them.                                    *)
(***************************************************************************)

\* Nobody's clock value is from the future.
ValuesArePast ==
  /\ clock \in Nat
  /\ now \in [Requests -> Nat] /\ \A r \in Requests : now[r] <= clock
  /\ timerNow \in Nat /\ timerNow <= clock

\* What has been read of the table, by the answer to l or by its GET /v1/meta.
Returned(l) == answer[l] \cup shown[l]

\* Whatever is in the table or has been read from it was put there by a publish
\* that is over.
RowsWellFormed ==
  /\ rows \in [LookupIds -> Publishes \cup {None}]
  /\ exp \in [Publishes -> Nat]
  /\ pc \in [Requests -> Answers]
  /\ id \in [Requests -> LookupIds \cup {None}]
  /\ answer \in [Lookups -> SUBSET Publishes]
  /\ shown \in [Lookups -> SUBSET Publishes]
  /\ \A p \in Publishes : pc[p] # "idle" => id[p] \in LookupIds
  /\ \A i \in LookupIds : rows[i] # None =>
       id[rows[i]] = i /\ pc[rows[i]] \in {"accepted", "lost"}
  /\ \A l \in Lookups : \A q \in Returned(l) : pc[q] \in {"accepted", "lost"}

\* What AcceptedIsKept says, of records a lookup has returned or counted too.
ReturnedIsKept ==
  \A l \in Lookups : \A q \in Returned(l) : exp[q] > clock => AtLeast(id[q], q)

\* The inductive invariant: every statement on the table (store.go:176-312)
\* keeps what was acknowledged and what was returned.
IInv == ValuesArePast /\ RowsWellFormed /\ AcceptedIsKept /\ ReturnedIsKept

\* A client that asked GET /v1/meta sizes its prefix by that figure and by no
\* other: the rows it counted, one to an identifier.
SizedByMeta ==
  \A l \in Lookups :
    /\ pc[l] \in {"idle", "asked"} => shown[l] = {}
    /\ shown[l] # {} => bits[l] = LogOf(Understate(Cardinality(shown[l])), KClient)
    /\ \A q, r \in shown[l] : id[q] = id[r] => q = r

\* What OverPreciseOnlyByExpiry rests on.
SizeInv == IInv /\ SizedByMeta /\ OverPreciseOnlyByExpiry

=============================================================================
