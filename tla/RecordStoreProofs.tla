-------------------------- MODULE RecordStoreProofs --------------------------
(***************************************************************************)
(* What RecordStore says of acknowledged and of returned records, for any  *)
(* number of publishes, lookups and identifiers.                           *)
(***************************************************************************)
EXTENDS RecordStore, PowersProofs, FiniteSetTheorems, TLAPS

\* The figures meta.go and query.go compute from a count are counts.
LEMMA LogOfType == ASSUME NEW c \in Nat, NEW k \in Nat PROVE LogOf(c, k) \in Nat
<1>1. IsFiniteSet(1..c)
  BY FS_Interval
<1>2. IsFiniteSet({b \in 1..c : Pow(2, b) * k <= c})
  BY <1>1, FS_Subset
<1> QED BY <1>2, FS_CardinalityType DEF LogOf

\* capFor (query.go:116) never falls when the count grows or k shrinks.
LEMMA LogOfMonotonic ==
  ASSUME NEW c \in Nat, NEW d \in Nat, c <= d, NEW k \in Nat, NEW m \in Nat, m <= k
  PROVE  LogOf(c, k) <= LogOf(d, m)
<1>1. ASSUME NEW b \in 1..c, Pow(2, b) * k <= c
      PROVE  b \in 1..d /\ Pow(2, b) * m <= d
  <2>1. Pow(2, b) \in Nat BY PowPositive
  <2> DEFINE P == Pow(2, b)
  <2> HIDE DEF P
  <2>2. P * m <= P * k /\ P * m \in Nat /\ P * k \in Nat BY <2>1 DEF P
  <2> QED BY <1>1, <2>2 DEF P
<1>2. {b \in 1..c : Pow(2, b) * k <= c} \in SUBSET {b \in 1..d : Pow(2, b) * m <= d}
  BY <1>1
<1>3. IsFiniteSet({b \in 1..d : Pow(2, b) * m <= d})
  <2>1. IsFiniteSet(1..d) BY FS_Interval
  <2> QED BY <2>1, FS_Subset
<1> QED BY <1>2, <1>3, FS_Subset DEF LogOf

\* understate (meta.go:88) never advertises more than there is.
LEMMA UnderstateBounds ==
  ASSUME NEW c \in Nat PROVE Understate(c) \in Nat /\ Understate(c) <= c
<1> DEFINE n == Cardinality({e \in 1..8 : c \div Pow(10, e) >= 10})
           s == Pow(10, n)
<1>1. n \in Nat
  <2>0. 1 \in Int /\ 8 \in Int OBVIOUS
  <2>1. IsFiniteSet(1..8) BY <2>0, FS_Interval, Zenon
  <2>2. IsFiniteSet({e \in 1..8 : c \div Pow(10, e) >= 10}) BY <2>1, FS_Subset
  <2> QED BY <2>2, FS_CardinalityType
<1>2. s \in Nat /\ s > 0
  <2> HIDE DEF n
  <2> QED BY <1>1, PowPositive
<1>3. Understate(c) = (c \div s) * s
  BY DEF Understate
<1> HIDE DEF n, s
<1>4. (c \div s) * s \in Nat /\ (c \div s) * s <= c
  BY <1>2
<1> QED BY <1>3, <1>4

-----------------------------------------------------------------------------
\* Open (store.go:129) on an empty database establishes the invariant.
LEMMA InitIInv == Init => IInv
<1> SUFFICES ASSUME Init PROVE IInv OBVIOUS
<1>1. ValuesArePast BY DEF Init, ValuesArePast
<1>2. RowsWellFormed BY RecordAssumption DEF Init, RowsWellFormed, Returned, Answers, Requests
<1>3. AcceptedIsKept BY DEF Init, AcceptedIsKept, Requests
<1>4. ReturnedIsKept BY DEF Init, ReturnedIsKept, Returned
<1> QED BY <1>1, <1>2, <1>3, <1>4 DEF IInv

\* A publish that is written keeps the invariant: whatever it replaces has
\* lapsed by now, or expires earlier.
LEMMA WriteStep ==
  ASSUME IInv, NEW p \in Publishes, NEW a \in {"accepted", "lost"},
         pc[p] = "called", Admits(p), Write(p), Answer(p, a),
         UNCHANGED <<clock, asks, reads, sweep>>
  PROVE  IInv'
<1> DEFINE i == id[p]
<1>1. ValuesArePast' BY DEF IInv, ValuesArePast, asks, sweep
<1>2. /\ i \in LookupIds /\ p # None /\ p \in Requests
      /\ rows' = [rows EXCEPT ![i] = p]
      /\ \A r \in Requests \ {p} : pc'[r] = pc[r]
      /\ pc'[p] = a
      /\ exp' = exp /\ id' = id /\ answer' = answer /\ shown' = shown /\ clock' = clock
  BY RecordAssumption DEF IInv, RowsWellFormed, Write, Answer, asks, reads, Requests
<1>3. RowsWellFormed'
  BY <1>2, RecordAssumption DEF IInv, RowsWellFormed, Returned, Answer, Answers, Requests
\* The row under any identifier is at least what it was.
<1>4. ASSUME NEW q \in Publishes, AtLeast(id[q], q), exp[q] > clock, id[q] \in LookupIds
      PROVE  AtLeast(id[q], q)'
  <2>1. CASE id[q] = i
    <3>1. i \in Unexpired(now[p])
      BY <1>2, <1>4, <2>1 DEF AtLeast, Unexpired, IInv, ValuesArePast, RowsWellFormed, Requests
    <3>2. exp[p] > exp[rows[i]]
      BY <3>1 DEF Admits
    <3> QED BY <1>2, <1>4, <2>1, <3>2 DEF AtLeast, IInv, RowsWellFormed
  <2>2. CASE id[q] # i
    BY <1>2, <1>4, <2>2 DEF AtLeast, IInv, RowsWellFormed
  <2> QED BY <2>1, <2>2
<1>5. AcceptedIsKept'
  <2> SUFFICES ASSUME NEW q \in Publishes, pc'[q] = "accepted", exp[q] > clock
               PROVE  AtLeast(id[q], q)'
    BY <1>2 DEF AcceptedIsKept
  <2>1. CASE q = p
    BY <1>2, <2>1 DEF AtLeast, IInv, RowsWellFormed
  <2>2. CASE q # p
    BY <1>2, <1>4, <2>2 DEF AcceptedIsKept, IInv, RowsWellFormed, Requests
  <2> QED BY <2>1, <2>2
<1>6. ReturnedIsKept'
  BY <1>2, <1>4 DEF ReturnedIsKept, Returned, IInv, RowsWellFormed, Requests
<1> QED BY <1>1, <1>3, <1>5, <1>6 DEF IInv

\* A sweep keeps the invariant: its clock value is from the past, so what it
\* takes has lapsed.
LEMMA SweepStep == ASSUME IInv, Sweep PROVE IInv'
<1>1. ValuesArePast' BY DEF IInv, ValuesArePast, asks, Sweep
<1>2. /\ exp' = exp /\ id' = id /\ answer' = answer /\ shown' = shown /\ clock' = clock /\ pc' = pc
      /\ \A i \in LookupIds : rows'[i] = rows[i] \/ (rows'[i] = None /\ i \notin Unexpired(timerNow))
      /\ rows' \in [LookupIds -> Publishes \cup {None}]
  BY DEF Sweep, asks, reads, IInv, RowsWellFormed
<1>3. RowsWellFormed' BY <1>2 DEF IInv, RowsWellFormed, Returned
<1>4. ASSUME NEW q \in Publishes, AtLeast(id[q], q), exp[q] > clock, id[q] \in LookupIds
      PROVE  AtLeast(id[q], q)'
  <2>1. id[q] \in Unexpired(timerNow)
    BY <1>4 DEF AtLeast, Unexpired, IInv, ValuesArePast, RowsWellFormed
  <2> QED BY <1>2, <1>4, <2>1 DEF AtLeast
<1>5. AcceptedIsKept'
  BY <1>2, <1>4 DEF AcceptedIsKept, IInv, RowsWellFormed, Requests
<1>6. ReturnedIsKept'
  BY <1>2, <1>4 DEF ReturnedIsKept, Returned, IInv, RowsWellFormed, Requests
<1> QED BY <1>1, <1>3, <1>5, <1>6 DEF IInv

\* What a lookup is answered, and what GET /v1/meta counted for it, are rows of
\* the table, and they are kept as such.
LEMMA ReadStep == ASSUME IInv, NEW l \in Lookups, ReadRows(l) \/ Meta(l) PROVE IInv'
<1>1. ValuesArePast' BY DEF IInv, ValuesArePast, asks, sweep, ReadRows, Meta
<1>2. /\ exp' = exp /\ id' = id /\ clock' = clock /\ rows' = rows
      /\ l \in Requests /\ l \notin Publishes
  BY RecordAssumption DEF ReadRows, Meta, asks, Requests
<1>3. \E a \in Answers : pc' = [pc EXCEPT ![l] = a]
  BY DEF ReadRows, Meta, Answer, Answers
<1>4. \A i \in Unexpired(now[l]) :
        /\ rows[i] \in Publishes /\ pc[rows[i]] \in {"accepted", "lost"}
        /\ AtLeast(id[rows[i]], rows[i])
  BY DEF Unexpired, IInv, RowsWellFormed, AtLeast
<1>5. \E I \in SUBSET Unexpired(now[l]) :
        \/ answer' = answer /\ shown' = [shown EXCEPT ![l] = {rows[i] : i \in I}]
        \/ shown' = shown /\ answer' = [answer EXCEPT ![l] = {rows[i] : i \in I}]
  BY DEF ReadRows, Meta, Matching
<1>6. /\ answer' \in [Lookups -> SUBSET Publishes]
      /\ shown' \in [Lookups -> SUBSET Publishes]
      /\ \A m \in Lookups : \A q \in Returned(m)' :
           q \in Returned(m) \/ (pc[q] \in {"accepted", "lost"} /\ AtLeast(id[q], q))
  BY <1>4, <1>5 DEF IInv, RowsWellFormed, Returned
<1>7. RowsWellFormed'
  <2>1. pc' \in [Requests -> Answers] /\ \A q \in Publishes : pc'[q] = pc[q]
    BY <1>2, <1>3 DEF IInv, RowsWellFormed
  <2>2. \A m \in Lookups : \A q \in Returned(m)' : pc[q] \in {"accepted", "lost"} /\ q \in Publishes
    BY <1>6 DEF IInv, RowsWellFormed, Returned
  <2> QED BY <1>2, <1>6, <2>1, <2>2 DEF IInv, RowsWellFormed
<1>8. AcceptedIsKept'
  <2>1. \A q \in Publishes : pc'[q] = pc[q]
    BY <1>2, <1>3 DEF IInv, RowsWellFormed
  <2> QED BY <1>2, <2>1 DEF AcceptedIsKept, AtLeast, IInv
<1>9. ReturnedIsKept'
  BY <1>2, <1>6 DEF ReturnedIsKept, AtLeast, IInv
<1> QED BY <1>1, <1>7, <1>8, <1>9 DEF IInv

\* A step that leaves the table and the answers alone, and lets a request move
\* on short of being accepted, keeps the invariant.
LEMMA QuietStep ==
  ASSUME IInv, ValuesArePast', clock' >= clock, rows' = rows, answer' = answer,
         shown' = shown, pc' \in [Requests -> Answers],
         id' \in [Requests -> LookupIds \cup {None}],
         exp' \in [Publishes -> Nat],
         \A p \in Publishes :
           /\ pc[p] \in {"accepted", "lost"} => pc'[p] = pc[p]
           /\ pc'[p] = "accepted" => pc[p] = "accepted"
           /\ pc'[p] # "idle" => id'[p] \in LookupIds
           /\ pc[p] # "idle" => id'[p] = id[p] /\ exp'[p] = exp[p]
  PROVE  IInv'
<1>0. clock \in Nat /\ clock' \in Nat BY DEF IInv, ValuesArePast
<1>1. RowsWellFormed'
  BY RecordAssumption DEF IInv, RowsWellFormed, Returned
<1>2. ASSUME NEW q \in Publishes, pc[q] \in {"accepted", "lost"}, AtLeast(id[q], q)
      PROVE  AtLeast(id[q], q)'
  <2>1. id[q] \in LookupIds BY <1>2 DEF IInv, RowsWellFormed
  <2>2. rows[id[q]] \in Publishes /\ pc[rows[id[q]]] # "idle"
    BY <1>2, <2>1 DEF AtLeast, IInv, RowsWellFormed
  <2> QED BY <1>2, <2>2 DEF AtLeast
<1>3. AcceptedIsKept'
  BY <1>0, <1>2 DEF AcceptedIsKept, IInv, RowsWellFormed
<1>4. ReturnedIsKept'
  BY <1>0, <1>2 DEF ReturnedIsKept, Returned, IInv, RowsWellFormed
<1> QED BY <1>1, <1>3, <1>4 DEF IInv

\* Every step keeps the inductive invariant.
LEMMA NextIInv == IInv /\ [Next]_vars => IInv'
<1> SUFFICES ASSUME IInv, [Next]_vars PROVE IInv' OBVIOUS
<1> USE DEF asks, reads, sweep
\* What QuietStep asks for, of steps in which one request r takes answer a and
\* neither identifiers nor expiries change.
<1>q. ASSUME NEW r \in Requests, NEW a \in Answers \ {"idle", "accepted"},
             Answer(r, a), pc[r] \notin {"accepted", "lost"},
             r \in Publishes => pc[r] # "idle",
             UNCHANGED <<clock, rows, now, id, exp, reads, timerNow>>
      PROVE  IInv'
  <2>1. ValuesArePast' BY <1>q DEF IInv, ValuesArePast
  <2>2. pc' \in [Requests -> Answers] BY <1>q DEF Answer, IInv, RowsWellFormed
  <2> QED
    BY <1>q, <2>1, <2>2, QuietStep DEF Answer, IInv, RowsWellFormed, ValuesArePast, Requests
<1>1. CASE Tick
  <2>1. ValuesArePast' BY <1>1 DEF Tick, IInv, ValuesArePast
  <2> QED
    BY <1>1, <2>1, QuietStep DEF Tick, IInv, RowsWellFormed, ValuesArePast, Requests
<1>2. ASSUME NEW p \in Publishes, CallPut(p) PROVE IInv'
  <2>1. ValuesArePast' BY <1>2 DEF CallPut, IInv, ValuesArePast, Requests
  <2>2. PICK i \in LookupIds : id' = [id EXCEPT ![p] = i] BY <1>2 DEF CallPut
  <2>3. PICK e \in Expiries : exp' = [exp EXCEPT ![p] = e] BY <1>2 DEF CallPut
  <2>4. e \in Nat BY RecordAssumption
  <2>5. pc' = [pc EXCEPT ![p] = "called"] /\ pc[p] = "idle" BY <1>2 DEF CallPut, Answer
  <2>6. clock' = clock /\ rows' = rows /\ answer' = answer /\ shown' = shown
    BY <1>2 DEF CallPut
  <2> QED
    BY <2>1, <2>2, <2>3, <2>4, <2>5, <2>6, QuietStep
    DEF IInv, RowsWellFormed, ValuesArePast, Requests, Answers
<1>3. ASSUME NEW p \in Publishes, PutStores(p) PROVE IInv'
  BY <1>3, WriteStep DEF PutStores
<1>4. ASSUME NEW p \in Publishes, PutLost(p) PROVE IInv'
  BY <1>4, WriteStep DEF PutLost
<1>5. ASSUME NEW p \in Publishes, PutNotNewer(p) PROVE IInv'
  BY <1>5, <1>q DEF PutNotNewer, Requests, Answers
<1>6. ASSUME NEW r \in Requests, Refuse(r) PROVE IInv'
  BY <1>6, <1>q DEF Refuse, InFlight, Answers
<1>7. ASSUME NEW l \in Lookups, CallMeta(l) \/ CallGet(l) PROVE IInv'
  <2>1. /\ l \in Requests /\ l \notin Publishes
        /\ now' = [now EXCEPT ![l] = clock]
        /\ clock' = clock /\ rows' = rows /\ exp' = exp
        /\ answer' = answer /\ shown' = shown /\ timerNow' = timerNow
    BY <1>7, RecordAssumption DEF CallMeta, CallGet, Requests
  <2>2. ValuesArePast' BY <2>1 DEF IInv, ValuesArePast
  <2>3. \E a \in {"asked", "called"} : pc' = [pc EXCEPT ![l] = a]
    BY <1>7 DEF CallMeta, CallGet, Answer
  <2>4. id' = id \/ \E i \in LookupIds : id' = [id EXCEPT ![l] = i]
    BY <1>7 DEF CallMeta, CallGet
  <2> QED
    BY <2>1, <2>2, <2>3, <2>4, QuietStep
    DEF IInv, RowsWellFormed, ValuesArePast, Requests, Answers
<1>8. ASSUME NEW l \in Lookups, Meta(l) PROVE IInv'
  BY <1>8, ReadStep
<1>9. ASSUME NEW l \in Lookups, CountRows(l) PROVE IInv'
  BY <1>9, <1>q, RecordAssumption DEF CountRows, Requests, Answers
<1>10. ASSUME NEW l \in Lookups, ReadRows(l) PROVE IInv'
  BY <1>10, ReadStep
<1>11. CASE TimerFires \/ SweepFails
  <2>1. ValuesArePast' BY <1>11 DEF TimerFires, SweepFails, IInv, ValuesArePast
  <2> QED
    BY <1>11, <2>1, QuietStep
    DEF TimerFires, SweepFails, IInv, RowsWellFormed, ValuesArePast, Requests
<1>12. CASE Sweep BY <1>12, SweepStep
<1>13. CASE Restart
  <2>1. ValuesArePast' BY <1>13 DEF Restart, IInv, ValuesArePast
  <2>2. /\ pc' \in [Requests -> Answers]
        /\ \A r \in Requests : pc'[r] = pc[r] \/ (pc[r] \in InFlight /\ pc'[r] = "lost")
    BY <1>13 DEF Restart, IInv, RowsWellFormed, Answers
  <2>3. UNCHANGED <<clock, rows, id, exp, answer, shown>>
    BY <1>13 DEF Restart
  <2>4. \A p \in Publishes :
          /\ pc[p] \in {"accepted", "lost"} => pc'[p] = pc[p]
          /\ pc'[p] = "accepted" => pc[p] = "accepted"
          /\ pc'[p] # "idle" => id'[p] \in LookupIds
    BY <2>2, <2>3 DEF InFlight, IInv, RowsWellFormed, Requests
  <2> QED
    BY <2>1, <2>2, <2>3, <2>4, QuietStep DEF IInv, RowsWellFormed, ValuesArePast
<1>14. CASE UNCHANGED vars
  <2>1. ValuesArePast' BY <1>14 DEF vars, IInv, ValuesArePast
  <2> QED
    BY <1>14, <2>1, QuietStep DEF vars, IInv, RowsWellFormed, ValuesArePast, Requests
<1> QED
  BY <1>1, <1>2, <1>3, <1>4, <1>5, <1>6, <1>7, <1>8, <1>9, <1>10, <1>11, <1>12,
     <1>13, <1>14 DEF Next

\* The inductive invariant holds, of the records table (store.go:113) and of all
\* that has been read from it.
THEOREM RecordInvariant == Spec => []IInv
BY InitIInv, NextIInv, PTL DEF Spec

\* An acknowledged publish (handlePutRecord, 204) stays in the table, or gives
\* way to a later one, until it expires.
THEOREM AcknowledgedIsKept == Spec => []AcceptedIsKept
<1>1. IInv => AcceptedIsKept BY DEF IInv
<1> QED BY <1>1, RecordInvariant, PTL

\* No step of any request, of the sweep or of a restart lets the row under an
\* identifier go back while it is unexpired (putSQL, store.go:164-189).
LEMMA NoRollbackStep ==
  ASSUME IInv, [Next]_vars, NEW i \in LookupIds, i \in Unexpired(clock), rows'[i] # rows[i]
  PROVE  rows'[i] # None /\ exp[rows'[i]] > exp[rows[i]]
<1>1. ASSUME NEW p \in Publishes, Admits(p), Write(p)
      PROVE  rows'[i] # None /\ exp[rows'[i]] > exp[rows[i]]
  <2>1. id[p] = i /\ rows'[i] = p /\ p # None
    BY <1>1, RecordAssumption DEF Write, IInv, RowsWellFormed
  <2>2. i \in Unexpired(now[p])
    BY DEF Unexpired, IInv, ValuesArePast, RowsWellFormed, Requests
  <2> QED BY <1>1, <2>1, <2>2 DEF Admits
<1>2. ~Sweep
  <2> SUFFICES ASSUME Sweep PROVE FALSE OBVIOUS
  <2>1. i \in Unexpired(timerNow)
    BY DEF Unexpired, IInv, ValuesArePast, RowsWellFormed
  <2> QED BY <2>1 DEF Sweep
<1>3. \E p \in Publishes : PutStores(p) \/ PutLost(p)
  BY <1>2 DEF Next, vars, Tick, CallPut, PutNotNewer, Refuse, CallMeta, Meta, CallGet,
              CountRows, ReadRows, TimerFires, SweepFails, Restart
<1> QED BY <1>1, <1>3 DEF PutStores, PutLost

\* The recency rule holds of the table over time, stale publishes and sweeps
\* included: nothing replaces an unexpired record but a later one.
THEOREM RecencyRule == Spec => NoRollback
<1>1. IInv /\ [Next]_vars =>
        [\A i \in LookupIds : i \in Unexpired(clock) /\ rows'[i] # rows[i]
           => rows'[i] # None /\ exp[rows'[i]] > exp[rows[i]]]_vars
  BY NoRollbackStep
<1> QED BY <1>1, RecordInvariant, PTL DEF Spec, NoRollback

\* The step in which a lookup is answered is its read of the table, and covers
\* every record the table keeps.
LEMMA AnswerCovers ==
  ASSUME IInv, [Next]_vars, NEW l \in Lookups, AnsweredNow(l),
         NEW q \in Publishes, id[q] \in LookupIds, exp[q] > clock, AtLeast(id[q], q)
  PROVE  Covers(l, q)
<1>1. ReadRows(l)
  <2>1. l \in Requests /\ l \notin Publishes BY RecordAssumption DEF Requests
  <2> QED
    BY <2>1 DEF AnsweredNow, Next, vars, Answer, Tick, CallPut, PutStores, PutLost, PutNotNewer,
           Refuse, CallMeta, Meta, CallGet, CountRows, ReadRows, TimerFires, Sweep, SweepFails,
           Restart, IInv, RowsWellFormed, Requests
<1>2. id[q] \in Unexpired(now[l])
  BY DEF AtLeast, Unexpired, IInv, ValuesArePast, RowsWellFormed, Requests
<1>3. answer'[l] = {rows[i] : i \in Matching(l, now[l])}
  BY <1>1 DEF ReadRows, IInv, RowsWellFormed
<1>4. ASSUME Common[id[q]][id[l]] >= bits[l]
      PROVE  rows[id[q]] \in answer'[l]
  BY <1>2, <1>3, <1>4 DEF Matching
<1>5. id[rows[id[q]]] = id[q] /\ exp[rows[id[q]]] >= exp[q]
  BY DEF AtLeast, IInv, RowsWellFormed
<1> QED BY <1>4, <1>5 DEF Covers

\* A lookup finds every acknowledged record that has not expired when the table
\* is read (handleGetRecord, record.go:115-176).
THEOREM LookupsFindWhatWasPublished == Spec => PublishedIsFound
<1>1. IInv /\ [Next]_vars =>
        [\A l \in Lookups, p \in Publishes :
           AnsweredNow(l) /\ pc[p] = "accepted" /\ exp[p] > clock => Covers(l, p)]_vars
  <2> SUFFICES ASSUME IInv, [Next]_vars, NEW l \in Lookups, NEW p \in Publishes,
                      AnsweredNow(l), pc[p] = "accepted", exp[p] > clock
               PROVE  Covers(l, p)
    OBVIOUS
  <2>1. id[p] \in LookupIds /\ AtLeast(id[p], p)
    BY DEF IInv, RowsWellFormed, AcceptedIsKept
  <2> QED BY <2>1, AnswerCovers
<1> QED BY <1>1, RecordInvariant, PTL DEF Spec, PublishedIsFound

\* Reads are monotonic: what one lookup returned, later ones return or better,
\* until it expires.
THEOREM LookupsAreMonotonic == Spec => LookupsNeverGoBack
<1>1. IInv /\ [Next]_vars =>
        [\A l, m \in Lookups :
           AnsweredNow(l) => \A q \in answer[m] : exp[q] > clock => Covers(l, q)]_vars
  <2> SUFFICES ASSUME IInv, [Next]_vars, NEW l \in Lookups, NEW m \in Lookups,
                      AnsweredNow(l), NEW q \in answer[m], exp[q] > clock
               PROVE  Covers(l, q)
    OBVIOUS
  <2>1. q \in Publishes /\ id[q] \in LookupIds /\ AtLeast(id[q], q)
    BY DEF IInv, RowsWellFormed, ReturnedIsKept, Returned
  <2> QED BY <2>1, AnswerCovers
<1> QED BY <1>1, RecordInvariant, PTL DEF Spec, LookupsNeverGoBack

-----------------------------------------------------------------------------
\* GET /v1/meta advertises a natural number of rows, and the bits a client makes
\* of it are one.
LEMMA CountType ==
  ASSUME NEW t PROVE IsFiniteSet(Unexpired(t)) /\ Count(t) \in Nat
<1>1. IsFiniteSet(Unexpired(t))
  BY RecordAssumption, FS_Subset DEF Unexpired
<1> QED BY <1>1, FS_CardinalityType DEF Count

\* What no other part of the invariant says of the types: the values each step
\* writes, the widths a client asks for among them.
Bounded ==
  /\ clock \in 0..MaxClock
  /\ now \in [Requests -> 0..MaxClock]
  /\ exp \in [Publishes -> Expiries \cup {0}]
  /\ bits \in [Lookups -> Nat]
  /\ timer \in {"idle", "called"}
  /\ restarts \in 0..MaxRestarts

\* Every step writes values of their types.
LEMMA NextBounded == Bounded /\ [Next]_vars => Bounded'
<1> SUFFICES ASSUME Bounded, [Next]_vars PROVE Bounded' OBVIOUS
<1> USE RecordAssumption DEF Bounded, asks, reads, sweep
<1>1. CASE Tick BY <1>1 DEF Tick
<1>2. ASSUME NEW p \in Publishes, CallPut(p) PROVE Bounded'
  BY <1>2 DEF CallPut, Requests
<1>3. ASSUME NEW p \in Publishes, PutStores(p) \/ PutNotNewer(p) \/ PutLost(p) PROVE Bounded'
  BY <1>3 DEF PutStores, PutNotNewer, PutLost
<1>4. ASSUME NEW r \in Requests, Refuse(r) PROVE Bounded'
  BY <1>4 DEF Refuse
<1>5. ASSUME NEW l \in Lookups, CallMeta(l) \/ CallGet(l) PROVE Bounded'
  <2>1. bits' \in [Lookups -> Nat]
    BY <1>5 DEF CallMeta, CallGet
  <2> QED BY <1>5, <2>1 DEF CallMeta, CallGet, Requests
<1>6. ASSUME NEW l \in Lookups, Meta(l) PROVE Bounded'
  <2>1. LogOf(Understate(Count(now[l])), KClient) \in Nat
    BY CountType, UnderstateBounds, LogOfType
  <2> QED BY <1>6, <2>1 DEF Meta
<1>7. ASSUME NEW l \in Lookups, CountRows(l) \/ ReadRows(l) PROVE Bounded'
  BY <1>7 DEF CountRows, ReadRows
<1>8. CASE TimerFires \/ Sweep \/ SweepFails
  BY <1>8 DEF TimerFires, Sweep, SweepFails
<1>9. CASE Restart BY <1>9 DEF Restart
<1>10. CASE UNCHANGED vars BY <1>10 DEF vars
<1> QED
  BY <1>1, <1>2, <1>3, <1>4, <1>5, <1>6, <1>7, <1>8, <1>9, <1>10 DEF Next

\* Type correctness, of the table, the requests and the sweep: a row under an
\* identifier was written by a publish that named it (store.go:113).
THEOREM RecordTypeCorrect == Spec => []TypeOK
<1>1. Init => Bounded
  BY RecordAssumption DEF Init, Bounded, Requests
<1>2. IInv /\ Bounded => TypeOK
  BY DEF IInv, ValuesArePast, RowsWellFormed, Bounded, TypeOK
<1> QED BY <1>1, <1>2, NextBounded, RecordInvariant, PTL DEF Spec

-----------------------------------------------------------------------------
\* A set whose members are told apart by where they go has no more of them than
\* there are places.
LEMMA NoMoreThanPlaces ==
  ASSUME NEW S, NEW T, IsFiniteSet(T), NEW f \in [S -> T],
         \A a, b \in S : f[a] = f[b] => a = b
  PROVE  IsFiniteSet(S) /\ Cardinality(S) <= Cardinality(T)
<1>1. f \in Injection(S, T)
  BY DEF Injection, IsInjective
<1> QED BY <1>1, FS_Injection

\* A publish that is over, and whatever a lookup has been told of it, stays as
\* it is, while the clock only goes forward.
LEMMA OverIsOver ==
  ASSUME IInv, [Next]_vars
  PROVE  /\ clock' >= clock
         /\ \A q \in Publishes :
              pc[q] \in {"accepted", "lost"} => id'[q] = id[q] /\ exp'[q] = exp[q]
<1>1. clock \in Nat BY DEF IInv, ValuesArePast
<1> USE RecordAssumption DEF asks, reads, sweep, Answer
<1>2. CASE \E p \in Publishes : CallPut(p)
  BY <1>1, <1>2 DEF CallPut, IInv, RowsWellFormed
<1>3. CASE \E l \in Lookups : CallGet(l)
  BY <1>1, <1>3 DEF CallGet, IInv, RowsWellFormed, Requests
<1>4. CASE ~(\E p \in Publishes : CallPut(p)) /\ ~(\E l \in Lookups : CallGet(l))
  <2>1. UNCHANGED <<id, exp>>
    BY <1>4 DEF Next, vars, Tick, PutStores, PutLost, PutNotNewer, Refuse, CallMeta, Meta,
                CountRows, ReadRows, TimerFires, Sweep, SweepFails, Restart
  <2>2. clock' = clock \/ clock' = clock + 1
    BY <1>4 DEF Next, vars, Tick, PutStores, PutLost, PutNotNewer, Refuse, CallMeta, Meta,
                CountRows, ReadRows, TimerFires, Sweep, SweepFails, Restart
  <2> QED BY <1>1, <2>1, <2>2
<1> QED BY <1>2, <1>3, <1>4

\* Only GET /v1/meta is counted for a lookup, once, before it asks its prefix;
\* the prefix then keeps the width that was made of the figure.
LEMMA SizeStands ==
  ASSUME TypeOK, IInv, [Next]_vars, NEW l \in Lookups, ~Meta(l)
  PROVE  /\ shown'[l] = shown[l]
         /\ pc'[l] \in {"idle", "asked"} => pc[l] \in {"idle", "asked"}
         /\ pc[l] \notin {"idle", "asked"} => bits'[l] = bits[l]
<1>0. /\ pc \in [Requests -> Answers] /\ l \in Requests
      /\ bits \in [Lookups -> Nat] /\ shown \in [Lookups -> SUBSET Publishes]
  BY DEF TypeOK, Requests
<1> USE <1>0, RecordAssumption DEF asks, reads, sweep, Answer, Requests
<1>1. ASSUME NEW m \in Lookups, CallMeta(m) \/ Meta(m) \/ CallGet(m) \/ CountRows(m) \/ ReadRows(m)
      PROVE  /\ shown'[l] = shown[l]
             /\ pc'[l] \in {"idle", "asked"} => pc[l] \in {"idle", "asked"}
             /\ pc[l] \notin {"idle", "asked"} => bits'[l] = bits[l]
  BY <1>1 DEF CallMeta, Meta, CallGet, CountRows, ReadRows
<1>2. CASE ~\E m \in Lookups : CallMeta(m) \/ Meta(m) \/ CallGet(m) \/ CountRows(m) \/ ReadRows(m)
  <2>1. UNCHANGED <<bits, shown>>
    BY <1>2 DEF Next, vars, Tick, CallPut, PutStores, PutLost, PutNotNewer, Refuse,
                TimerFires, Sweep, SweepFails, Restart
  <2>2. pc'[l] = pc[l] \/ pc'[l] \in {"refused", "lost"}
    BY <1>2 DEF Next, vars, Tick, CallPut, PutStores, PutLost, PutNotNewer, Refuse,
                TimerFires, Sweep, SweepFails, Restart
  <2> QED BY <2>1, <2>2
<1> QED BY <1>1, <1>2

\* Sizing survives every step.
LEMMA NextSized ==
  ASSUME TypeOK, IInv, SizedByMeta, [Next]_vars PROVE SizedByMeta'
<1> SUFFICES ASSUME NEW l \in Lookups
             PROVE  /\ pc'[l] \in {"idle", "asked"} => shown'[l] = {}
                    /\ shown'[l] # {} =>
                         bits'[l] = LogOf(Understate(Cardinality(shown'[l])), KClient)
                    /\ \A q, r \in shown'[l] : id'[q] = id'[r] => q = r
  BY DEF SizedByMeta
<1>1. CASE Meta(l)
  <2> DEFINE U == Unexpired(now[l])
  <2>1. /\ pc'[l] = "sized" /\ id' = id
        /\ shown'[l] = {rows[i] : i \in U}
        /\ bits'[l] = LogOf(Understate(Count(now[l])), KClient)
    <3>1. /\ l \in Requests /\ pc \in [Requests -> Answers] /\ shown \in [Lookups -> SUBSET Publishes]
          /\ bits \in [Lookups -> Nat]
      BY DEF Requests, TypeOK
    <3> QED BY <1>1, <3>1 DEF Meta, Answer
  <2>2. \A i \in U : i \in LookupIds /\ rows[i] \in Publishes /\ id[rows[i]] = i
    BY DEF Unexpired, IInv, RowsWellFormed
  <2>3. Cardinality(shown'[l]) = Count(now[l])
    <3> DEFINE S == shown'[l]
               f == [q \in S |-> id[q]]
               g == [i \in U |-> rows[i]]
    <3>1. S = {rows[i] : i \in U} BY <2>1
    <3>2. IsFiniteSet(U) BY CountType
    <3> HIDE DEF U, S
    <3>3. f \in [S -> U] /\ \A a, b \in S : f[a] = f[b] => a = b
      BY <2>2, <3>1
    <3>4. IsFiniteSet(S) /\ Cardinality(S) <= Cardinality(U)
      BY <3>2, <3>3, NoMoreThanPlaces
    <3>5. g \in [U -> S] /\ \A a, b \in U : g[a] = g[b] => a = b
      BY <2>2, <3>1
    <3>6. Cardinality(U) <= Cardinality(S)
      BY <3>4, <3>5, NoMoreThanPlaces
    <3>7. Cardinality(U) \in Nat /\ Cardinality(S) \in Nat
      BY <3>2, <3>4, FS_CardinalityType
    <3>8. Cardinality(S) = Cardinality(U) BY <3>4, <3>6, <3>7
    <3> QED BY <3>8 DEF S, U, Count
  <2> HIDE DEF U
  <2> QED BY <2>1, <2>2, <2>3
<1>2. CASE ~Meta(l)
  <2>1. shown'[l] = shown[l] /\ \A q \in shown[l] : id'[q] = id[q]
    BY <1>2, SizeStands, OverIsOver DEF IInv, RowsWellFormed, Returned
  <2> QED BY <1>2, <2>1, SizeStands DEF SizedByMeta
<1> QED BY <1>1, <1>2

\* What GET /v1/meta counted is still there to be counted while it has not
\* expired, so the figure the lookup is measured by is no smaller.
LEMMA CountedIsCounted ==
  ASSUME IInv, SizedByMeta, NEW l \in Lookups, \A q \in shown[l] : exp[q] > clock
  PROVE  Cardinality(shown[l]) \in Nat /\ Cardinality(shown[l]) <= Count(now[l])
<1> DEFINE S == shown[l]
           U == Unexpired(now[l])
           f == [q \in S |-> id[q]]
<1>1. ASSUME NEW q \in S PROVE id[q] \in U
  <2>1. q \in Publishes /\ id[q] \in LookupIds /\ AtLeast(id[q], q)
    BY DEF IInv, RowsWellFormed, ReturnedIsKept, Returned
  <2>2. rows[id[q]] \in Publishes /\ exp[rows[id[q]]] \in Nat /\ exp[q] \in Nat
    BY <2>1 DEF AtLeast, IInv, RowsWellFormed
  <2>3. exp[rows[id[q]]] > now[l]
    BY <2>1, <2>2 DEF AtLeast, IInv, ValuesArePast, Requests
  <2> QED BY <2>1, <2>3 DEF Unexpired, AtLeast
<1>2. \A a, b \in S : id[a] = id[b] => a = b
  BY DEF SizedByMeta
<1>3. IsFiniteSet(U) BY CountType
<1>4. Count(now[l]) = Cardinality(U) BY DEF Count
<1> HIDE DEF S, U
<1>5. f \in [S -> U] /\ \A a, b \in S : f[a] = f[b] => a = b
  BY <1>1, <1>2
<1>6. IsFiniteSet(S) /\ Cardinality(S) <= Cardinality(U)
  BY <1>3, <1>5, NoMoreThanPlaces
<1>7. Cardinality(S) \in Nat BY <1>6, FS_CardinalityType
<1> QED BY <1>4, <1>6, <1>7 DEF S

\* A width made of a figure that was understated, for a larger set than the
\* directory insists on, is no wider than the cap on the figure itself.
LEMMA SizedFits ==
  ASSUME NEW c \in Nat, NEW d \in Nat, c <= d
  PROVE  LogOf(Understate(c), KClient) <= Cap(d)
<1>1. Understate(c) \in Nat /\ Understate(c) <= d
  BY UnderstateBounds
<1>2. KMin \in Nat /\ KClient \in Nat /\ KMin <= KClient
  BY RecordAssumption
<1> QED BY <1>1, <1>2, LogOfMonotonic DEF Cap

\* A conforming lookup turned away as over-precise counted a record that has
\* expired since.
LEMMA NextExplained ==
  ASSUME TypeOK, SizeInv, [Next]_vars PROVE OverPreciseOnlyByExpiry'
<1> SUFFICES ASSUME NEW l \in Lookups, pc'[l] = "tooPrecise", shown'[l] # {}
             PROVE  \E q \in shown'[l] : exp'[q] <= clock'
  BY DEF OverPreciseOnlyByExpiry
<1>1. ~Meta(l)
  BY DEF Meta, Answer, SizeInv, IInv, RowsWellFormed, Requests
<1>2. shown'[l] = shown[l] /\ \A q \in shown[l] : exp'[q] = exp[q] /\ q \in Publishes
  BY <1>1, SizeStands, OverIsOver DEF SizeInv, IInv, RowsWellFormed, Returned
<1>3. CASE pc[l] = "tooPrecise"
  <2>1. PICK q \in shown[l] : exp[q] <= clock
    BY <1>2, <1>3 DEF SizeInv, OverPreciseOnlyByExpiry
  <2>2. exp[q] \in Nat /\ clock \in Nat /\ clock' >= clock /\ clock' \in Nat
    BY <1>2, OverIsOver, NextIInv DEF SizeInv, IInv, RowsWellFormed, ValuesArePast
  <2> QED BY <1>2, <2>1, <2>2
<1>4. CASE pc[l] # "tooPrecise"
  <2>1. CountRows(l)
    <3>1. l \in Requests /\ l \notin Publishes BY RecordAssumption DEF Requests
    <3> QED
      BY <1>4, <3>1 DEF Next, vars, Answer, Tick, CallPut, PutStores, PutLost, PutNotNewer,
           Refuse, CallMeta, Meta, CallGet, CountRows, ReadRows, TimerFires, Sweep, SweepFails,
           Restart, SizeInv, IInv, RowsWellFormed, Requests
  <2>2. bits[l] > Cap(Count(now[l])) /\ pc[l] = "called" /\ clock' = clock
    BY <2>1 DEF CountRows, Answer, SizeInv, IInv, RowsWellFormed, Requests
  <2> SUFFICES ASSUME \A q \in shown[l] : exp[q] > clock PROVE FALSE
    <3>1. \A q \in shown[l] : exp[q] \in Nat
      BY <1>2 DEF SizeInv, IInv, RowsWellFormed
    <3>2. clock \in Nat BY DEF SizeInv, IInv, ValuesArePast
    <3> QED BY <1>2, <2>2, <3>1, <3>2
  <2>3. Cardinality(shown[l]) \in Nat /\ Cardinality(shown[l]) <= Count(now[l])
    BY CountedIsCounted DEF SizeInv
  <2>4. LogOf(Understate(Cardinality(shown[l])), KClient) <= Cap(Count(now[l]))
    BY <2>3, CountType, SizedFits
  <2>5. bits[l] = LogOf(Understate(Cardinality(shown[l])), KClient)
    BY <1>2 DEF SizeInv, SizedByMeta
  <2>6. Cap(Count(now[l])) \in Nat
    BY CountType, LogOfType, RecordAssumption DEF Cap
  <2>7. bits[l] \in Nat
    BY <2>3, <2>5, UnderstateBounds, LogOfType, RecordAssumption
  <2> QED BY <2>2, <2>4, <2>5, <2>6, <2>7
<1> QED BY <1>3, <1>4

\* A client that sizes its prefix by GET /v1/meta is turned away as over-precise
\* only when something that was counted for it has expired (meta.go:66-97,
\* query.go:89-122, record.go:129-133).
THEOREM OverPrecisionIsExpiry == Spec => []OverPreciseOnlyByExpiry
<1>1. Init => SizeInv
  <2>1. Init => SizedByMeta /\ OverPreciseOnlyByExpiry
    BY DEF Init, SizedByMeta, OverPreciseOnlyByExpiry, Requests
  <2> QED BY <2>1, InitIInv DEF SizeInv
<1>2. TypeOK /\ SizeInv /\ [Next]_vars => SizeInv'
  BY NextIInv, NextSized, NextExplained DEF SizeInv
<1>3. SizeInv => OverPreciseOnlyByExpiry BY DEF SizeInv
<1> QED BY <1>1, <1>2, <1>3, RecordTypeCorrect, PTL DEF Spec

=============================================================================
