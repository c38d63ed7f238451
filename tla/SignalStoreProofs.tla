-------------------------- MODULE SignalStoreProofs --------------------------
(***************************************************************************)
(* Proofs about SignalStore, for any number of requests, channels, caps    *)
(* and clock values: its invariants and what its steps may not do, then    *)
(* that it implements its contract, Rendezvous, under the mapping of       *)
(* SignalRefinement, and then whom a sweep can mislead (SignalSweep).      *)
(***************************************************************************)
EXTENDS SignalRefinement, SignalSweep, FiniteSetTheorems, TLAPS

(***************************************************************************)
(* Facts about the helpers.                                                *)
(***************************************************************************)

\* The map a POST works on is the store's, less channels that are empty or
\* expired and that nobody waits in.
LEMMA MapForFacts ==
  ASSUME TypeOK, NEW p \in Posts
  PROVE  /\ MapFor(p) \in [ValidIds -> Requests \cup {None}]
         /\ \A k \in ValidIds :
              \/ MapFor(p)[k] = channels[k]
              \/ /\ MapFor(p)[k] = None
                 /\ channels[k] \in Requests
                 /\ waiters[channels[k]] = {}
                 /\ ~Held(channels[k], now[p])
         /\ NextSweepAt(p) \in Nat
<1> USE StoreAssumption DEF Requests, TypeOK
<1>1. /\ MapFor(p) \in [ValidIds -> Requests \cup {None}]
      /\ \A k \in ValidIds :
           \/ MapFor(p)[k] = channels[k]
           \/ /\ MapFor(p)[k] = None
              /\ channels[k] \in Requests
              /\ waiters[channels[k]] = {}
              /\ ~Held(channels[k], now[p])
  BY DEF MapFor, SweepLocked, Reclaimable
<1>2. Size(MapFor(p)) \in Nat
  <2>1. ValidIds \subseteq Ids /\ IsFiniteSet(Ids)
    OBVIOUS
  <2>2. IsFiniteSet({k \in ValidIds : MapFor(p)[k] # None})
    BY <2>1, FS_Subset
  <2> QED BY <2>2, FS_CardinalityType DEF Size
<1>3. NextSweepAt(p) \in Nat
  BY <1>2 DEF NextSweepAt
<1> QED BY <1>1, <1>3

\* Adding a waiter to the active ones, or removing one, moves their number by
\* one.
LEMMA ActiveCount ==
  ASSUME IsFiniteSet({h \in Gets : active[h]}), active \in [Gets -> BOOLEAN],
         NEW g \in Gets, NEW b \in BOOLEAN, active[g] # b,
         active' = [active EXCEPT ![g] = b]
  PROVE  /\ IsFiniteSet({h \in Gets : active'[h]})
         /\ Cardinality({h \in Gets : active[h]}) \in Nat
         /\ b => Cardinality({h \in Gets : active'[h]}) =
                   Cardinality({h \in Gets : active[h]}) + 1
         /\ ~b => /\ Cardinality({h \in Gets : active[h]}) > 0
                  /\ Cardinality({h \in Gets : active'[h]}) =
                       Cardinality({h \in Gets : active[h]}) - 1
<1> DEFINE S == {h \in Gets : active[h]}
           T == {h \in Gets : active'[h]}
<1>1. Cardinality(S) \in Nat
  BY FS_CardinalityType
<1>2. CASE b
  <2>1. T = S \cup {g} /\ g \notin S
    BY <1>2
  <2> HIDE DEF S, T
  <2>2. IsFiniteSet(T) /\ Cardinality(T) = Cardinality(S) + 1
    BY <2>1, FS_AddElement DEF S
  <2> QED BY <2>2, <1>1, <1>2 DEF S, T
<1>3. CASE ~b
  <2>1. T = S \ {g} /\ g \in S
    BY <1>3
  <2> HIDE DEF S, T
  <2>2. IsFiniteSet(T) /\ Cardinality(T) = Cardinality(S) - 1
    BY <2>1, FS_RemoveElement DEF S
  <2>3. Cardinality(S) # 0
    BY <2>1, FS_EmptySet DEF S
  <2> QED BY <2>2, <2>3, <1>1, <1>3 DEF S, T
<1> QED BY <1>2, <1>3

\* The caps survive a step that adds no waiter to any channel.
LEMMA CapsKept ==
  ASSUME IInv, waiting' <= waiting, waiting' \in Nat,
         \A k \in ValidIds :
           \/ channels'[k] = None
           \/ waiters'[channels'[k]] = {}
           \/ /\ channels'[k] = channels[k]
              /\ waiters'[channels[k]] \subseteq waiters[channels[k]]
  PROVE  CapsHold'
<1> USE StoreAssumption DEF IInv, TypeOK, CapsHold
<1>1. ASSUME NEW k \in ValidIds, channels'[k] # None
      PROVE  Cardinality(waiters'[channels'[k]]) <= MaxPerChan
  <2>1. CASE waiters'[channels'[k]] = {}
    BY <2>1, FS_EmptySet
  <2>2. CASE /\ channels'[k] = channels[k]
             /\ waiters'[channels[k]] \subseteq waiters[channels[k]]
    <3>1. waiters[channels[k]] \subseteq {g \in Gets : active[g]}
      BY <1>1, <2>2 DEF WaitersWellFormed
    <3>2. IsFiniteSet(waiters[channels[k]])
      BY <3>1, FS_Subset DEF WaitersWellFormed
    <3>3. /\ Cardinality(waiters'[channels[k]]) <= Cardinality(waiters[channels[k]])
          /\ Cardinality(waiters'[channels[k]]) \in Nat
          /\ Cardinality(waiters[channels[k]]) \in Nat
      BY <3>2, <2>2, FS_Subset, FS_CardinalityType
    <3> QED BY <1>1, <2>2, <3>3
  <2> QED BY <1>1, <2>1, <2>2
<1> QED BY <1>1

(***************************************************************************)
(* Every action preserves the inductive invariant.                         *)
(***************************************************************************)

\* A POST that finds a waiter keeps the invariant: the waiter leaves its set as
\* it is marked, uncounted and sent the blob.
LEMMA PostHandsOverStep ==
  ASSUME IInv, NEW p \in Posts, NEW g \in Gets, PostHandsOver(p, g)
  PROVE  IInv'
<1> DEFINE m  == MapFor(p)
           ch == StructIn(m, p)
<1> USE StoreAssumption DEF Requests
<1>1. /\ m \in [ValidIds -> Requests \cup {None}]
      /\ \A k \in ValidIds :
           \/ m[k] = channels[k]
           \/ /\ m[k] = None
              /\ channels[k] \in Requests
              /\ waiters[channels[k]] = {}
              /\ ~Held(channels[k], now[p])
      /\ NextSweepAt(p) \in Nat
  BY MapForFacts DEF IInv
<1>2. /\ ch = ptr[g] /\ active[g] /\ ch = channels[id[p]] /\ ch = m[id[p]]
      /\ id[g] = id[p] /\ ch \in Requests /\ id[p] \in ValidIds
      /\ ~delivered[g] /\ pc[g] \in {"polling", "leaving"} /\ pc[p] = "called"
  BY <1>1 DEF IInv, TypeOK, PostHandsOver, HandOver, Posting, StructIn, Arrived,
              StructsWellFormed, WaitersWellFormed
<1>3. /\ IsFiniteSet({h \in Gets : active'[h]})
      /\ waiting > 0
      /\ Cardinality({h \in Gets : active'[h]}) = waiting - 1
  <2>1. active' = [active EXCEPT ![g] = FALSE]
    BY DEF PostHandsOver, HandOver
  <2> QED BY <1>2, <2>1, ActiveCount DEF IInv, TypeOK, WaitersWellFormed, WaitingIsExact
<1>4. /\ channels' = IF waiters[ch] = {g} THEN [m EXCEPT ![id[p]] = None] ELSE m
      /\ blob' = [blob EXCEPT ![ch] = None]
      /\ waiters' = [waiters EXCEPT ![ch] = @ \ {g}]
      /\ waiting' = waiting - 1
      /\ active' = [active EXCEPT ![g] = FALSE]
      /\ delivered' = [delivered EXCEPT ![g] = TRUE]
      /\ inbox' = [inbox EXCEPT ![g] = p]
      /\ sweepAt' = NextSweepAt(p)
      /\ pc' = [pc EXCEPT ![p] = "done"]
      /\ reply' = [reply EXCEPT ![p] = "Stored"]
      /\ UNCHANGED <<clock, closed, id, now, ptr, got>>
      /\ ~closed
  BY <1>2 DEF PostHandsOver, HandOver, GcLocked, Return, callVars, IInv, TypeOK
<1> HIDE DEF m, ch
<1> USE DEF IInv
<1>5. TypeOK'
  BY <1>1, <1>2, <1>3, <1>4 DEF TypeOK, Reasons, PCs
<1>6. StructsWellFormed'
  BY <1>1, <1>2, <1>4 DEF TypeOK, StructsWellFormed, Arrived
<1>7. WaitersWellFormed'
  <2>1. ASSUME NEW s \in Requests
        PROVE  waiters'[s] = {h \in Gets : active'[h] /\ ptr'[h] = s}
    <3>1. waiters'[s] = IF s = ch THEN waiters[s] \ {g} ELSE waiters[s]
      BY <1>2, <1>4 DEF TypeOK
    <3>2. \A h \in Gets : active'[h] <=> active[h] /\ h # g
      BY <1>2, <1>4 DEF TypeOK
    <3>3. waiters[s] = {h \in Gets : active[h] /\ ptr[h] = s}
      BY DEF WaitersWellFormed
    <3> QED BY <1>2, <1>4, <3>1, <3>2, <3>3
  <2>2. ASSUME NEW h \in Gets, active'[h]
        PROVE  /\ pc'[h] \in {"polling", "leaving"}
               /\ ptr'[h] # None
               /\ id'[h] \in ValidIds
               /\ channels'[id'[h]] = ptr'[h]
               /\ ~delivered'[h]
    BY <2>2, <1>1, <1>2, <1>4 DEF TypeOK, WaitersWellFormed
  <2>3. \A s \in Requests : blob'[s] = None \/ waiters'[s] = {}
    BY <1>2, <1>4 DEF TypeOK, WaitersWellFormed
  <2> QED BY <1>3, <2>1, <2>2, <2>3 DEF WaitersWellFormed
<1>8. InboxesWellFormed'
  BY <1>2, <1>4 DEF TypeOK, InboxesWellFormed, Arrived
<1>9. BlobsWellFormed'
  BY <1>1, <1>2, <1>4
  DEF TypeOK, BlobsWellFormed, InboxesWellFormed, RepliesWellFormed
<1>10. RepliesWellFormed'
  BY <1>2, <1>4 DEF TypeOK, RepliesWellFormed, Arrived
<1>11. WaitingIsExact'
  BY <1>3, <1>4 DEF WaitingIsExact
<1>12. CapsHold'
  <2>1. waiting' \in Nat /\ waiting' <= waiting
    BY <1>3, <1>4 DEF TypeOK
  <2>2. ASSUME NEW k \in ValidIds, channels'[k] # None
        PROVE  /\ channels'[k] = channels[k]
               /\ waiters'[channels[k]] \subseteq waiters[channels[k]]
    <3>1. channels'[k] = channels[k] /\ channels[k] \in Requests
      BY <2>2, <1>1, <1>2, <1>4 DEF TypeOK
    <3> QED BY <3>1, <1>2, <1>4 DEF TypeOK
  <2> QED BY <2>1, <2>2, CapsKept
<1>13. ClosedStoreIsEmpty'
  BY <1>2, <1>4 DEF TypeOK, ClosedStoreIsEmpty
<1>14. NoBlobLost'
  <2> SUFFICES ASSUME NEW q \in Posts, reply'[q] = "Stored", clock < ExpiresAt(q)
               PROVE  \/ channels'[id[q]] # None /\ blob'[channels'[id[q]]] = q
                      \/ \E h \in Gets : /\ id[h] = id[q]
                                         /\ got[h] = q \/ (pc'[h] # "done" /\ inbox'[h] = q)
    BY <1>4 DEF NoBlobLost, ExpiresAt
  <2>1. CASE q = p
    BY <1>2, <1>4, <2>1 DEF TypeOK, WaitersWellFormed
  <2>2. CASE q # p
    <3>1. reply[q] = "Stored" /\ ~closed
      BY <1>4, <2>2 DEF TypeOK
    <3>2. CASE channels[id[q]] # None /\ blob[channels[id[q]]] = q
      <4>1. now[p] <= clock /\ id[q] \in ValidIds /\ channels[id[q]] \in Requests
        BY <3>1, <3>2 DEF TypeOK, RepliesWellFormed, BlobsWellFormed, StructsWellFormed
      <4>2. Held(channels[id[q]], now[p])
        BY <3>2, <4>1 DEF TypeOK, Held, ExpiresAt
      <4>3. m[id[q]] = channels[id[q]] /\ channels[id[q]] # ch
        BY <1>1, <1>2, <3>2, <4>1, <4>2 DEF TypeOK, WaitersWellFormed
      <4> QED BY <1>2, <1>4, <3>2, <4>1, <4>3 DEF TypeOK, StructsWellFormed
    <3>3. ASSUME NEW h \in Gets, id[h] = id[q],
                 got[h] = q \/ (pc[h] # "done" /\ inbox[h] = q)
          PROVE  got[h] = q \/ (pc'[h] # "done" /\ inbox'[h] = q)
      BY <1>2, <1>4, <3>3 DEF TypeOK, InboxesWellFormed
    <3> QED BY <3>1, <3>2, <3>3 DEF NoBlobLost
  <2> QED BY <2>1, <2>2
<1> QED BY <1>5, <1>6, <1>7, <1>8, <1>9, <1>10, <1>11, <1>12, <1>13, <1>14

\* A POST that finds no waiter and no unexpired blob keeps the invariant: its
\* blob is new to the store.
LEMMA PostStoresStep ==
  ASSUME IInv, NEW p \in Posts, PostStores(p)
  PROVE  IInv'
<1> DEFINE m  == MapFor(p)
           ch == StructIn(m, p)
<1> USE StoreAssumption DEF Requests
<1>1. /\ m \in [ValidIds -> Requests \cup {None}]
      /\ \A k \in ValidIds :
           \/ m[k] = channels[k]
           \/ /\ m[k] = None
              /\ channels[k] \in Requests
              /\ waiters[channels[k]] = {}
              /\ ~Held(channels[k], now[p])
      /\ NextSweepAt(p) \in Nat
  BY MapForFacts DEF IInv
<1>2. /\ ch \in Requests /\ id[ch] = id[p] /\ waiters[ch] = {} /\ ~Held(ch, now[p])
      /\ ch = p \/ (Arrived(ch) /\ ch = channels[id[p]] /\ ch = m[id[p]])
      /\ ch = p => m[id[p]] = None
      /\ id[p] \in ValidIds /\ pc[p] = "called" /\ ~closed
  BY <1>1 DEF IInv, TypeOK, PostStores, Posting, StructIn, Occupied, Held, Arrived,
              StructsWellFormed
<1>3. /\ channels' = [m EXCEPT ![id[p]] = ch]
      /\ blob' = [blob EXCEPT ![ch] = p]
      /\ sweepAt' = NextSweepAt(p)
      /\ pc' = [pc EXCEPT ![p] = "done"]
      /\ reply' = [reply EXCEPT ![p] = "Stored"]
      /\ UNCHANGED <<clock, waiters, waiting, closed, active, delivered, inbox, id,
                     now, ptr, got>>
  BY DEF PostStores, Return, callVars, waiterVars
<1> HIDE DEF m, ch
<1> USE DEF IInv
<1>5. TypeOK'
  BY <1>1, <1>2, <1>3 DEF TypeOK, Reasons, PCs
<1>6. StructsWellFormed'
  BY <1>1, <1>2, <1>3 DEF TypeOK, StructsWellFormed, Arrived
<1>7. WaitersWellFormed'
  <2>1. ASSUME NEW h \in Gets, active[h]
        PROVE  pc'[h] = pc[h] /\ channels'[id[h]] = ptr[h]
    BY <2>1, <1>1, <1>2, <1>3 DEF TypeOK, WaitersWellFormed
  <2>2. \A s \in Requests : blob'[s] = None \/ waiters[s] = {}
    BY <1>2, <1>3 DEF TypeOK, WaitersWellFormed
  <2> QED BY <1>3, <2>1, <2>2 DEF WaitersWellFormed
<1>8. InboxesWellFormed'
  BY <1>2, <1>3 DEF TypeOK, InboxesWellFormed, Arrived
<1>9. BlobsWellFormed'
  BY <1>1, <1>2, <1>3, SMTT(30)
  DEF TypeOK, BlobsWellFormed, InboxesWellFormed, RepliesWellFormed
<1>10. RepliesWellFormed'
  BY <1>2, <1>3 DEF TypeOK, RepliesWellFormed, Arrived
<1>11. WaitingIsExact'
  BY <1>3 DEF WaitingIsExact
<1>12. CapsHold'
  BY <1>1, <1>2, <1>3, CapsKept DEF TypeOK
<1>13. ClosedStoreIsEmpty'
  BY <1>2, <1>3 DEF ClosedStoreIsEmpty
<1>14. NoBlobLost'
  <2> SUFFICES ASSUME NEW q \in Posts, reply'[q] = "Stored", clock < ExpiresAt(q)
               PROVE  \/ channels'[id[q]] # None /\ blob'[channels'[id[q]]] = q
                      \/ \E h \in Gets : /\ id[h] = id[q]
                                         /\ got[h] = q \/ (pc'[h] # "done" /\ inbox[h] = q)
    BY <1>3 DEF NoBlobLost, ExpiresAt
  <2>1. CASE q = p
    BY <1>1, <1>2, <1>3, <2>1 DEF TypeOK
  <2>2. CASE q # p
    <3>1. reply[q] = "Stored"
      BY <1>3, <2>2 DEF TypeOK
    <3>2. CASE channels[id[q]] # None /\ blob[channels[id[q]]] = q
      <4>1. now[p] <= clock /\ id[q] \in ValidIds /\ channels[id[q]] \in Requests
        BY <3>1, <3>2 DEF TypeOK, RepliesWellFormed
      <4>2. Held(channels[id[q]], now[p])
        BY <3>2, <4>1 DEF TypeOK, Held, ExpiresAt
      <4>3. m[id[q]] = channels[id[q]] /\ channels[id[q]] # ch
        BY <1>1, <1>2, <4>1, <4>2
      <4>4. id[q] # id[p]
        BY <1>2, <4>1, <4>3 DEF TypeOK
      <4> QED BY <1>1, <1>2, <1>3, <3>2, <4>1, <4>3, <4>4 DEF TypeOK
    <3>3. ASSUME NEW h \in Gets, id[h] = id[q],
                 got[h] = q \/ (pc[h] # "done" /\ inbox[h] = q)
          PROVE  got[h] = q \/ (pc'[h] # "done" /\ inbox[h] = q)
      BY <1>2, <1>3, <3>3 DEF TypeOK
    <3> QED BY <1>2, <3>1, <3>2, <3>3 DEF NoBlobLost
  <2> QED BY <2>1, <2>2
<1> QED BY <1>5, <1>6, <1>7, <1>8, <1>9, <1>10, <1>11, <1>12, <1>13, <1>14

\* A refused POST keeps the invariant: all it may do is sweep the map.
LEMMA PostConflictsStep ==
  ASSUME IInv, NEW p \in Posts, PostConflicts(p)
  PROVE  IInv'
<1> DEFINE m == MapFor(p)
<1> USE StoreAssumption DEF Requests
<1>1. /\ m \in [ValidIds -> Requests \cup {None}]
      /\ \A k \in ValidIds :
           \/ m[k] = channels[k]
           \/ /\ m[k] = None
              /\ channels[k] \in Requests
              /\ waiters[channels[k]] = {}
              /\ ~Held(channels[k], now[p])
      /\ NextSweepAt(p) \in Nat
  BY MapForFacts DEF IInv
<1>2. id[p] \in ValidIds /\ pc[p] = "called" /\ ~closed
  BY DEF PostConflicts, Posting
<1>3. /\ channels' = m
      /\ sweepAt' = NextSweepAt(p)
      /\ pc' = [pc EXCEPT ![p] = "done"]
      /\ reply' = [reply EXCEPT ![p] = "Conflict"]
      /\ UNCHANGED <<clock, blob, waiters, waiting, closed, active, delivered, inbox,
                     id, now, ptr, got>>
  BY DEF PostConflicts, Return, callVars, waiterVars, structVars
<1> HIDE DEF m
<1> USE DEF IInv
<1>5. TypeOK'
  BY <1>1, <1>2, <1>3 DEF TypeOK, Reasons, PCs
<1>6. StructsWellFormed'
  BY <1>1, <1>2, <1>3 DEF TypeOK, StructsWellFormed, Arrived
<1>7. WaitersWellFormed'
  <2>1. ASSUME NEW h \in Gets, active[h]
        PROVE  pc'[h] = pc[h] /\ channels'[id[h]] = ptr[h]
    BY <2>1, <1>1, <1>2, <1>3 DEF TypeOK, WaitersWellFormed
  <2> QED BY <1>3, <2>1 DEF WaitersWellFormed
<1>8. InboxesWellFormed'
  BY <1>2, <1>3 DEF TypeOK, InboxesWellFormed, Arrived
<1>9. BlobsWellFormed'
  BY <1>2, <1>3, SMTT(30) DEF TypeOK, BlobsWellFormed, RepliesWellFormed
<1>10. RepliesWellFormed'
  BY <1>2, <1>3 DEF TypeOK, RepliesWellFormed, Arrived
<1>11. WaitingIsExact'
  BY <1>3 DEF WaitingIsExact
<1>12. CapsHold'
  BY <1>1, <1>3, CapsKept DEF TypeOK
<1>13. ClosedStoreIsEmpty'
  BY <1>2, <1>3 DEF ClosedStoreIsEmpty
<1>14. NoBlobLost'
  <2> SUFFICES ASSUME NEW q \in Posts, reply'[q] = "Stored", clock < ExpiresAt(q)
               PROVE  \/ channels'[id[q]] # None /\ blob[channels'[id[q]]] = q
                      \/ \E h \in Gets : /\ id[h] = id[q]
                                         /\ got[h] = q \/ (pc'[h] # "done" /\ inbox[h] = q)
    BY <1>3 DEF NoBlobLost, ExpiresAt
  <2>1. reply[q] = "Stored"
    BY <1>3 DEF TypeOK
  <2>2. CASE channels[id[q]] # None /\ blob[channels[id[q]]] = q
    <3>1. now[p] <= clock /\ id[q] \in ValidIds /\ channels[id[q]] \in Requests
      BY <2>1, <2>2 DEF TypeOK, RepliesWellFormed
    <3>2. Held(channels[id[q]], now[p])
      BY <2>2, <3>1 DEF TypeOK, Held, ExpiresAt
    <3> QED BY <1>1, <1>3, <2>2, <3>1, <3>2
  <2>3. ASSUME NEW h \in Gets, id[h] = id[q],
               got[h] = q \/ (pc[h] # "done" /\ inbox[h] = q)
        PROVE  got[h] = q \/ (pc'[h] # "done" /\ inbox[h] = q)
    BY <1>2, <1>3, <2>3 DEF TypeOK
  <2> QED BY <1>2, <2>1, <2>2, <2>3 DEF NoBlobLost
<1> QED BY <1>5, <1>6, <1>7, <1>8, <1>9, <1>10, <1>11, <1>12, <1>13, <1>14

\* The clock keeps the invariant: a blob it expires is no longer promised.
LEMMA TickStep ==
  ASSUME IInv, Tick
  PROVE  IInv'
<1> USE StoreAssumption DEF Requests, IInv
<1>1. /\ clock' = clock + 1 /\ clock < MaxClock
      /\ UNCHANGED <<channels, sweepAt, blob, waiters, waiting, closed, active,
                     delivered, inbox, pc, id, now, ptr, reply, got>>
  BY DEF Tick, mapVars, structVars, waiterVars, callVars
<1>2. TypeOK'
  BY <1>1 DEF TypeOK
<1>3. /\ StructsWellFormed'
      /\ WaitersWellFormed'
      /\ InboxesWellFormed'
      /\ BlobsWellFormed'
  BY <1>1 DEF StructsWellFormed, WaitersWellFormed, InboxesWellFormed, BlobsWellFormed,
              Arrived
<1>4. RepliesWellFormed'
  BY <1>1 DEF RepliesWellFormed, TypeOK, Arrived
<1>5. WaitingIsExact' /\ CapsHold' /\ ClosedStoreIsEmpty'
  BY <1>1 DEF WaitingIsExact, CapsHold, ClosedStoreIsEmpty
<1>6. NoBlobLost'
  BY <1>1 DEF NoBlobLost, ExpiresAt, TypeOK
<1> QED BY <1>2, <1>3, <1>4, <1>5, <1>6

\* An arriving request keeps the invariant: nothing of it is in the store yet.
LEMMA CallStep ==
  ASSUME IInv, NEW r \in Requests, Call(r)
  PROVE  IInv'
<1> USE StoreAssumption DEF Requests, IInv
<1>1. PICK k \in Ids : id' = [id EXCEPT ![r] = k]
  BY DEF Call
<1>2. /\ pc[r] = "idle"
      /\ pc' = [pc EXCEPT ![r] = "called"]
      /\ now' = [now EXCEPT ![r] = clock]
      /\ UNCHANGED <<clock, channels, sweepAt, blob, waiters, waiting, closed, active,
                     delivered, inbox, ptr, reply, got>>
  BY DEF Call, mapVars, structVars, waiterVars
<1>3. TypeOK'
  BY <1>1, <1>2 DEF TypeOK, PCs
<1>4. StructsWellFormed'
  BY <1>1, <1>2 DEF TypeOK, StructsWellFormed, Arrived
<1>5. WaitersWellFormed'
  <2>1. ASSUME NEW h \in Gets, active[h]
        PROVE  pc'[h] = pc[h] /\ id'[h] = id[h]
    BY <2>1, <1>1, <1>2 DEF TypeOK, WaitersWellFormed
  <2> QED BY <1>2, <2>1 DEF WaitersWellFormed
<1>6. InboxesWellFormed'
  BY <1>2 DEF TypeOK, InboxesWellFormed, Arrived
<1>7. reply[r] = "none" /\ \A g \in Gets : g = r => inbox[g] = None /\ got[g] = None
  BY <1>2 DEF TypeOK, RepliesWellFormed, InboxesWellFormed
<1>8. BlobsWellFormed'
  <2>1. \A a \in Requests : blob[a] # None => a # r /\ blob[a] # r
    BY <1>2, <1>7 DEF TypeOK, BlobsWellFormed, StructsWellFormed, Arrived
  <2>2. \A g \in Gets : /\ inbox[g] # None => g # r /\ inbox[g] # r
                        /\ got[g] # None => g # r /\ got[g] # r
    BY <1>7 DEF BlobsWellFormed
  <2> QED BY <1>1, <1>2, <2>1, <2>2 DEF TypeOK, BlobsWellFormed
<1>9. RepliesWellFormed'
  BY <1>1, <1>2, <1>7 DEF TypeOK, RepliesWellFormed, Arrived
<1>10. WaitingIsExact' /\ CapsHold' /\ ClosedStoreIsEmpty'
  BY <1>2 DEF WaitingIsExact, CapsHold, ClosedStoreIsEmpty
<1>11. NoBlobLost'
  <2> SUFFICES ASSUME NEW q \in Posts, reply[q] = "Stored", clock < ExpiresAt(q)', ~closed
               PROVE  \/ channels[id'[q]] # None /\ blob[channels[id'[q]]] = q
                      \/ \E h \in Gets : /\ id'[h] = id'[q]
                                         /\ got[h] = q \/ (pc'[h] # "done" /\ inbox[h] = q)
    BY <1>2 DEF NoBlobLost
  <2>1. q # r /\ id'[q] = id[q] /\ clock < ExpiresAt(q)
    BY <1>1, <1>2, <1>7 DEF TypeOK, ExpiresAt
  <2>2. ASSUME NEW h \in Gets, got[h] = q \/ (pc[h] # "done" /\ inbox[h] = q)
        PROVE  pc'[h] = pc[h] /\ id'[h] = id[h]
    BY <1>1, <1>2, <1>7, <2>2 DEF TypeOK
  <2> QED BY <2>1, <2>2 DEF NoBlobLost
<1> QED BY <1>3, <1>4, <1>5, <1>6, <1>8, <1>9, <1>10, <1>11

\* An answer that touches nothing in the store keeps the invariant.
LEMMA TurnAwayStep ==
  ASSUME IInv, NEW r \in Requests, NEW reason \in Reasons,
         reason # "Stored", pc[r] = "called", TurnAway(r, reason)
  PROVE  IInv'
<1> USE StoreAssumption DEF Requests, IInv
<1>1. /\ pc' = [pc EXCEPT ![r] = "done"]
      /\ reply' = [reply EXCEPT ![r] = reason]
      /\ UNCHANGED <<clock, channels, sweepAt, blob, waiters, waiting, closed, active,
                     delivered, inbox, id, now, ptr, got>>
  BY DEF TurnAway, Return, mapVars, structVars, waiterVars, callVars
<1>2. TypeOK'
  BY <1>1 DEF TypeOK, PCs
<1>3. StructsWellFormed'
  BY <1>1 DEF TypeOK, StructsWellFormed, Arrived
<1>4. WaitersWellFormed'
  <2>1. \A h \in Gets : active[h] => pc'[h] = pc[h]
    BY <1>1 DEF TypeOK, WaitersWellFormed
  <2> QED BY <1>1, <2>1 DEF WaitersWellFormed
<1>5. InboxesWellFormed'
  BY <1>1 DEF TypeOK, InboxesWellFormed, Arrived
<1>6. RepliesWellFormed'
  BY <1>1 DEF TypeOK, RepliesWellFormed, Reasons, Arrived
<1>7. \A q \in Posts : reply'[q] = "Stored" <=> reply[q] = "Stored"
  BY <1>1 DEF TypeOK, RepliesWellFormed
<1>8. BlobsWellFormed'
  BY <1>1, <1>7 DEF TypeOK, BlobsWellFormed
<1>9. WaitingIsExact' /\ CapsHold' /\ ClosedStoreIsEmpty'
  BY <1>1 DEF WaitingIsExact, CapsHold, ClosedStoreIsEmpty
<1>10. NoBlobLost'
  <2>1. \A h \in Gets : inbox[h] # None => pc'[h] = pc[h]
    BY <1>1 DEF TypeOK, InboxesWellFormed
  <2> QED BY <1>1, <1>7, <2>1 DEF NoBlobLost, ExpiresAt, TypeOK
<1> QED BY <1>2, <1>3, <1>4, <1>5, <1>6, <1>8, <1>9, <1>10

\* A poll that its timer, its client or Shutdown wakes keeps the invariant: it
\* stays registered until it takes the lock.
LEMMA WakeStep ==
  ASSUME IInv, NEW g \in Gets, Wake(g)
  PROVE  IInv'
<1> USE StoreAssumption DEF Requests, IInv
<1>1. /\ pc[g] = "polling"
      /\ pc' = [pc EXCEPT ![g] = "leaving"]
      /\ UNCHANGED <<clock, channels, sweepAt, blob, waiters, waiting, closed, active,
                     delivered, inbox, id, now, ptr, reply, got>>
  BY DEF Wake, mapVars, structVars, waiterVars, callVars
<1>2. TypeOK'
  BY <1>1 DEF TypeOK, PCs
<1>3. StructsWellFormed'
  BY <1>1 DEF TypeOK, StructsWellFormed, Arrived
<1>4. WaitersWellFormed'
  BY <1>1 DEF TypeOK, WaitersWellFormed
<1>5. InboxesWellFormed'
  BY <1>1 DEF TypeOK, InboxesWellFormed, Arrived
<1>6. BlobsWellFormed' /\ WaitingIsExact' /\ CapsHold' /\ ClosedStoreIsEmpty'
  BY <1>1 DEF BlobsWellFormed, WaitingIsExact, CapsHold, ClosedStoreIsEmpty
<1>7. RepliesWellFormed'
  BY <1>1 DEF TypeOK, RepliesWellFormed, Arrived
<1>8. NoBlobLost'
  BY <1>1 DEF TypeOK, NoBlobLost, ExpiresAt
<1> QED BY <1>2, <1>3, <1>4, <1>5, <1>6, <1>7, <1>8

\* A poll that takes its blob keeps the invariant: the blob moves from inbox to
\* answer.
LEMMA ReceiveStep ==
  ASSUME IInv, NEW g \in Gets, pc[g] \in {"polling", "leaving"}, Receive(g)
  PROVE  IInv'
<1> USE StoreAssumption DEF Requests, IInv
<1>1. /\ inbox[g] # None
      /\ got' = [got EXCEPT ![g] = inbox[g]]
      /\ inbox' = [inbox EXCEPT ![g] = None]
      /\ pc' = [pc EXCEPT ![g] = "done"]
      /\ reply' = [reply EXCEPT ![g] = "Delivered"]
      /\ UNCHANGED <<clock, channels, sweepAt, blob, waiters, waiting, closed, active,
                     delivered, id, now, ptr>>
  BY DEF Receive, Return, mapVars, structVars, callVars
<1>2. delivered[g] /\ ~active[g] /\ got[g] = None
  BY <1>1 DEF InboxesWellFormed, WaitersWellFormed, TypeOK
<1>3. TypeOK'
  BY <1>1 DEF TypeOK, PCs, Reasons
<1>4. StructsWellFormed'
  BY <1>1 DEF TypeOK, StructsWellFormed, Arrived
<1>5. WaitersWellFormed'
  BY <1>1, <1>2 DEF TypeOK, WaitersWellFormed
<1>6. InboxesWellFormed'
  BY <1>1 DEF TypeOK, InboxesWellFormed, Arrived
<1>7. BlobsWellFormed'
  BY <1>1 DEF TypeOK, BlobsWellFormed
<1>8. RepliesWellFormed'
  BY <1>1 DEF TypeOK, RepliesWellFormed, Arrived
<1>9. WaitingIsExact' /\ CapsHold' /\ ClosedStoreIsEmpty'
  BY <1>1 DEF WaitingIsExact, CapsHold, ClosedStoreIsEmpty
<1>10. NoBlobLost'
  <2> SUFFICES ASSUME NEW q \in Posts, reply[q] = "Stored", clock < ExpiresAt(q), ~closed
               PROVE  \/ channels[id[q]] # None /\ blob[channels[id[q]]] = q
                      \/ \E h \in Gets : /\ id[h] = id[q]
                                         /\ got'[h] = q \/ (pc'[h] # "done" /\ inbox'[h] = q)
    BY <1>1 DEF NoBlobLost, ExpiresAt, TypeOK
  <2>1. ASSUME NEW h \in Gets, got[h] = q \/ (pc[h] # "done" /\ inbox[h] = q)
        PROVE  got'[h] = q \/ (pc'[h] # "done" /\ inbox'[h] = q)
    BY <1>1, <1>2, <2>1 DEF TypeOK
  <2> QED BY <2>1 DEF NoBlobLost
<1> QED BY <1>3, <1>4, <1>5, <1>6, <1>7, <1>8, <1>9, <1>10

\* A GET that finds a blob keeps the invariant: the blob moves from channel to
\* answer, and the channel is collected if nobody waits in it.
LEMMA GetTakesStep ==
  ASSUME IInv, NEW g \in Gets, GetTakes(g)
  PROVE  IInv'
<1> DEFINE ch == channels[id[g]]
           p  == blob[ch]
<1> USE StoreAssumption DEF Requests, IInv
<1>1. /\ ch \in Requests /\ p \in Posts /\ id[g] \in ValidIds /\ waiters[ch] = {}
      /\ pc[g] = "called" /\ ~closed /\ ~active[g] /\ got[g] = None
      /\ reply[p] = "Stored" /\ id[p] = id[g] /\ p # g /\ reply[g] = "none"
  BY DEF GetTakes, Getting, Occupied, Held, TypeOK, WaitersWellFormed, StructsWellFormed,
         InboxesWellFormed, BlobsWellFormed, RepliesWellFormed
<1>2. /\ got' = [got EXCEPT ![g] = p]
      /\ blob' = [blob EXCEPT ![ch] = None]
      /\ channels' = [channels EXCEPT ![id[g]] = None]
      /\ pc' = [pc EXCEPT ![g] = "done"]
      /\ reply' = [reply EXCEPT ![g] = "Delivered"]
      /\ UNCHANGED <<clock, waiters, waiting, sweepAt, closed, active, delivered,
                     inbox, id, now, ptr>>
  BY <1>1 DEF GetTakes, GcLocked, Return, waiterVars, callVars
<1> HIDE DEF ch, p
<1>3. TypeOK'
  BY <1>1, <1>2 DEF TypeOK, PCs, Reasons
<1>4. StructsWellFormed'
  BY <1>1, <1>2 DEF TypeOK, StructsWellFormed, Arrived
<1>5. WaitersWellFormed'
  <2>1. ASSUME NEW h \in Gets, active[h]
        PROVE  pc'[h] = pc[h] /\ channels'[id[h]] = ptr[h]
    BY <2>1, <1>1, <1>2 DEF TypeOK, WaitersWellFormed, ch
  <2>2. \A s \in Requests : blob'[s] = None \/ waiters[s] = {}
    BY <1>2 DEF TypeOK, WaitersWellFormed
  <2> QED BY <1>2, <2>1, <2>2 DEF WaitersWellFormed
<1>6. InboxesWellFormed'
  BY <1>1, <1>2 DEF TypeOK, InboxesWellFormed, Arrived
<1>7. BlobsWellFormed'
  BY <1>1, <1>2 DEF TypeOK, BlobsWellFormed, p
<1>8. RepliesWellFormed'
  BY <1>1, <1>2 DEF TypeOK, RepliesWellFormed, Arrived
<1>9. WaitingIsExact' /\ ClosedStoreIsEmpty'
  BY <1>1, <1>2 DEF WaitingIsExact, ClosedStoreIsEmpty
<1>10. CapsHold'
  BY <1>1, <1>2, CapsKept DEF TypeOK
<1>11. NoBlobLost'
  <2> SUFFICES ASSUME NEW q \in Posts, reply'[q] = "Stored", clock < ExpiresAt(q)
               PROVE  \/ channels'[id[q]] # None /\ blob'[channels'[id[q]]] = q
                      \/ \E h \in Gets : /\ id[h] = id[q]
                                         /\ got'[h] = q \/ (pc'[h] # "done" /\ inbox[h] = q)
    BY <1>2 DEF NoBlobLost, ExpiresAt
  <2>1. reply[q] = "Stored"
    BY <1>1, <1>2 DEF TypeOK
  <2>2. CASE channels[id[q]] # None /\ blob[channels[id[q]]] = q
    <3>1. CASE q = p
      BY <1>1, <1>2, <3>1 DEF TypeOK
    <3>2. CASE q # p
      <4>1. id[q] \in ValidIds /\ id[q] # id[g] /\ channels[id[q]] \in Requests
        BY <2>1, <2>2, <3>2 DEF RepliesWellFormed, TypeOK, ch, p
      <4>2. channels[id[q]] # ch
        BY <4>1, <1>1, <2>2 DEF StructsWellFormed, ch
      <4> QED BY <4>1, <4>2, <2>2, <1>1, <1>2 DEF TypeOK
    <3> QED BY <3>1, <3>2
  <2>3. ASSUME NEW h \in Gets, id[h] = id[q],
               got[h] = q \/ (pc[h] # "done" /\ inbox[h] = q)
        PROVE  got'[h] = q \/ (pc'[h] # "done" /\ inbox[h] = q)
    BY <1>1, <1>2, <2>3 DEF TypeOK, InboxesWellFormed
  <2> QED BY <1>1, <2>1, <2>2, <2>3 DEF NoBlobLost
<1> QED BY <1>3, <1>4, <1>5, <1>6, <1>7, <1>8, <1>9, <1>10, <1>11

\* A GET refused at a cap keeps the invariant: what it drops has expired.
LEMMA GetRefusedStep ==
  ASSUME IInv, NEW g \in Gets, GetRefused(g)
  PROVE  IInv'
<1> DEFINE ch == channels[id[g]]
<1> USE StoreAssumption DEF Requests, IInv
<1>1. /\ id[g] \in ValidIds /\ pc[g] = "called" /\ ~closed /\ ~active[g]
      /\ ch = None \/ (ch \in Requests /\ ~Held(ch, now[g]))
      /\ reply[g] = "none" /\ now[g] <= clock
  BY DEF GetRefused, Getting, Occupied, TypeOK, WaitersWellFormed, RepliesWellFormed
<1>2. /\ blob' = [s \in Requests |-> IF s = ch THEN None ELSE blob[s]]
      /\ pc' = [pc EXCEPT ![g] = "done"]
      /\ reply' = [reply EXCEPT ![g] = "RateLimited"]
      /\ UNCHANGED <<clock, channels, sweepAt, waiters, waiting, closed, active, delivered,
                     inbox, id, now, ptr, got>>
  BY DEF GetRefused, Return, mapVars, waiterVars, callVars
<1> HIDE DEF ch
<1>3. TypeOK'
  BY <1>1, <1>2 DEF TypeOK, PCs, Reasons
<1>4. StructsWellFormed'
  BY <1>1, <1>2 DEF TypeOK, StructsWellFormed, Arrived
<1>5. WaitersWellFormed'
  <2>1. ASSUME NEW h \in Gets, active[h]
        PROVE  pc'[h] = pc[h]
    BY <2>1, <1>1, <1>2 DEF TypeOK
  <2>2. \A s \in Requests : blob'[s] = None \/ waiters[s] = {}
    BY <1>2 DEF TypeOK, WaitersWellFormed
  <2> QED BY <1>2, <2>1, <2>2 DEF WaitersWellFormed
<1>6. InboxesWellFormed'
  BY <1>1, <1>2 DEF TypeOK, InboxesWellFormed, Arrived
<1>7. BlobsWellFormed'
  BY <1>1, <1>2 DEF TypeOK, BlobsWellFormed
<1>8. RepliesWellFormed'
  BY <1>1, <1>2 DEF TypeOK, RepliesWellFormed, Arrived
<1>9. WaitingIsExact' /\ CapsHold' /\ ClosedStoreIsEmpty'
  BY <1>2 DEF WaitingIsExact, CapsHold, ClosedStoreIsEmpty
<1>10. NoBlobLost'
  <2> SUFFICES ASSUME NEW q \in Posts, reply'[q] = "Stored", clock < ExpiresAt(q)
               PROVE  \/ channels[id[q]] # None /\ blob'[channels[id[q]]] = q
                      \/ \E h \in Gets : /\ id[h] = id[q]
                                         /\ got[h] = q \/ (pc'[h] # "done" /\ inbox[h] = q)
    BY <1>2 DEF NoBlobLost, ExpiresAt
  <2>1. reply[q] = "Stored"
    BY <1>1, <1>2 DEF TypeOK
  <2>2. CASE channels[id[q]] # None /\ blob[channels[id[q]]] = q
    <3>1. channels[id[q]] \in Requests
      BY <2>1, <2>2 DEF TypeOK, RepliesWellFormed
    <3>2. Held(channels[id[q]], now[g])
      BY <2>2, <3>1, <1>1 DEF TypeOK, Held, ExpiresAt
    <3> QED BY <1>1, <1>2, <2>2, <3>1, <3>2
  <2>3. ASSUME NEW h \in Gets, got[h] = q \/ (pc[h] # "done" /\ inbox[h] = q)
        PROVE  got[h] = q \/ (pc'[h] # "done" /\ inbox[h] = q)
    BY <1>1, <1>2, <2>3 DEF TypeOK, InboxesWellFormed
  <2> QED BY <1>1, <2>1, <2>2, <2>3 DEF NoBlobLost
<1> QED BY <1>3, <1>4, <1>5, <1>6, <1>7, <1>8, <1>9, <1>10

\* A GET that starts to wait keeps the invariant: it is below both caps, and the
\* blob it drops has expired.
LEMMA GetRegistersStep ==
  ASSUME IInv, NEW g \in Gets, GetRegisters(g)
  PROVE  IInv'
<1> DEFINE ch == StructIn(channels, g)
<1> USE StoreAssumption DEF Requests, IInv
<1>1. ASSUME NEW s \in Requests
      PROVE  IsFiniteSet(waiters[s]) /\ Cardinality(waiters[s]) \in Nat
  <2>1. waiters[s] \subseteq {h \in Gets : active[h]}
    BY DEF WaitersWellFormed
  <2> QED BY <2>1, FS_Subset, FS_CardinalityType DEF WaitersWellFormed
<1>2. /\ id[g] \in ValidIds /\ pc[g] = "called" /\ ~closed /\ ~active[g] /\ ~delivered[g]
      /\ ch \in Requests /\ id[ch] = id[g] /\ ~Held(ch, now[g])
      /\ \/ ch = g /\ channels[id[g]] = None /\ waiters[ch] = {}
         \/ ch = channels[id[g]] /\ Arrived(ch) /\ Cardinality(waiters[ch]) < MaxPerChan
      /\ reply[g] = "none" /\ now[g] <= clock /\ waiting < MaxWaiters
  BY <1>1 DEF GetRegisters, Getting, Occupied, Held, AtCapacity, StructIn, TypeOK, CapsHold,
         StructsWellFormed, WaitersWellFormed, InboxesWellFormed, RepliesWellFormed, Arrived
<1>3. /\ blob' = [blob EXCEPT ![ch] = None]
      /\ channels' = [channels EXCEPT ![id[g]] = ch]
      /\ waiters' = [waiters EXCEPT ![ch] = @ \cup {g}]
      /\ waiting' = waiting + 1
      /\ active' = [active EXCEPT ![g] = TRUE]
      /\ ptr' = [ptr EXCEPT ![g] = ch]
      /\ pc' = [pc EXCEPT ![g] = "polling"]
      /\ UNCHANGED <<clock, sweepAt, closed, delivered, inbox, id, now, reply, got>>
  BY DEF GetRegisters, callVars
<1>4. /\ IsFiniteSet({h \in Gets : active'[h]})
      /\ Cardinality({h \in Gets : active'[h]}) = waiting + 1
  BY <1>2, <1>3, ActiveCount DEF TypeOK, WaitersWellFormed, WaitingIsExact
<1> HIDE DEF ch
<1>5. TypeOK'
  BY <1>2, <1>3 DEF TypeOK, PCs
<1>6. StructsWellFormed'
  BY <1>2, <1>3 DEF TypeOK, StructsWellFormed, Arrived
<1>7. WaitersWellFormed'
  <2>1. ASSUME NEW s \in Requests
        PROVE  waiters'[s] = {h \in Gets : active'[h] /\ ptr'[h] = s}
    <3>1. waiters'[s] = IF s = ch THEN waiters[s] \cup {g} ELSE waiters[s]
      BY <1>2, <1>3 DEF TypeOK
    <3>2. \A h \in Gets : /\ active'[h] <=> active[h] \/ h = g
                          /\ ptr'[h] = IF h = g THEN ch ELSE ptr[h]
      BY <1>2, <1>3 DEF TypeOK
    <3>3. waiters[s] = {h \in Gets : active[h] /\ ptr[h] = s}
      BY DEF WaitersWellFormed
    <3> QED BY <1>2, <3>1, <3>2, <3>3
  <2>2. ASSUME NEW h \in Gets, active'[h]
        PROVE  /\ pc'[h] \in {"polling", "leaving"}
               /\ ptr'[h] # None
               /\ id'[h] \in ValidIds
               /\ channels'[id'[h]] = ptr'[h]
               /\ ~delivered'[h]
    BY <2>2, <1>2, <1>3 DEF TypeOK, WaitersWellFormed
  <2>3. \A s \in Requests : blob'[s] = None \/ waiters'[s] = {}
    BY <1>2, <1>3 DEF TypeOK, WaitersWellFormed
  <2> QED BY <1>4, <2>1, <2>2, <2>3 DEF WaitersWellFormed
<1>8. InboxesWellFormed'
  BY <1>2, <1>3 DEF TypeOK, InboxesWellFormed, Arrived
<1>9. BlobsWellFormed'
  BY <1>2, <1>3 DEF TypeOK, BlobsWellFormed
<1>10. RepliesWellFormed'
  BY <1>2, <1>3 DEF TypeOK, RepliesWellFormed, Arrived
<1>11. WaitingIsExact'
  BY <1>3, <1>4 DEF WaitingIsExact
<1>12. CapsHold'
  <2>1. waiting' <= MaxWaiters
    BY <1>2, <1>3 DEF TypeOK
  <2>2. Cardinality(waiters[ch] \cup {g}) <= MaxPerChan
    <3>1. CASE waiters[ch] = {}
      <4>1. waiters[ch] \cup {g} = {g}
        BY <3>1
      <4>2. Cardinality({g}) = 1
        BY FS_Singleton
      <4> QED BY <4>1, <4>2
    <3>2. CASE Cardinality(waiters[ch]) < MaxPerChan
      <4>1. Cardinality(waiters[ch] \cup {g})
              \in {Cardinality(waiters[ch]), Cardinality(waiters[ch]) + 1}
        BY <1>2, <1>1, FS_AddElement
      <4> QED BY <1>2, <1>1, <3>2, <4>1
    <3> QED BY <1>2, <3>1, <3>2
  <2>3. ASSUME NEW k \in ValidIds, channels'[k] # None
        PROVE  Cardinality(waiters'[channels'[k]]) <= MaxPerChan
    <3>1. CASE k = id[g]
      BY <1>2, <1>3, <2>2, <3>1 DEF TypeOK
    <3>2. CASE k # id[g]
      <4>1. channels'[k] = channels[k] /\ channels[k] # ch /\ channels[k] \in Requests
        BY <1>2, <1>3, <2>3, <3>2 DEF TypeOK, StructsWellFormed
      <4> QED BY <1>2, <1>3, <2>3, <4>1 DEF TypeOK, CapsHold
    <3> QED BY <3>1, <3>2
  <2> QED BY <2>1, <2>3 DEF CapsHold
<1>13. ClosedStoreIsEmpty'
  BY <1>2, <1>3 DEF ClosedStoreIsEmpty
<1>14. NoBlobLost'
  <2> SUFFICES ASSUME NEW q \in Posts, reply[q] = "Stored", clock < ExpiresAt(q)
               PROVE  \/ channels'[id[q]] # None /\ blob'[channels'[id[q]]] = q
                      \/ \E h \in Gets : /\ id[h] = id[q]
                                         /\ got[h] = q \/ (pc'[h] # "done" /\ inbox[h] = q)
    BY <1>3 DEF NoBlobLost, ExpiresAt
  <2>1. CASE channels[id[q]] # None /\ blob[channels[id[q]]] = q
    <3>1. channels[id[q]] \in Requests /\ id[q] \in ValidIds
      BY <2>1 DEF TypeOK, RepliesWellFormed
    <3>2. Held(channels[id[q]], now[g])
      BY <2>1, <3>1, <1>2 DEF TypeOK, Held, ExpiresAt
    <3>3. channels[id[q]] # ch /\ id[q] # id[g]
      BY <1>2, <2>1, <3>1, <3>2 DEF StructsWellFormed, Held
    <3> QED BY <1>2, <1>3, <2>1, <3>1, <3>3 DEF TypeOK
  <2>2. ASSUME NEW h \in Gets, got[h] = q \/ (pc[h] # "done" /\ inbox[h] = q)
        PROVE  got[h] = q \/ (pc'[h] # "done" /\ inbox[h] = q)
    BY <1>3, <2>2 DEF TypeOK
  <2> QED BY <1>2, <2>1, <2>2 DEF NoBlobLost
<1> QED BY <1>5, <1>6, <1>7, <1>8, <1>9, <1>10, <1>11, <1>12, <1>13, <1>14

\* A poll that leaves with nothing keeps the invariant, whether Shutdown has
\* released its waiter already or not.
LEMMA LeaveEmptyStep ==
  ASSUME IInv, NEW g \in Gets, LeaveEmpty(g)
  PROVE  IInv'
<1> DEFINE ch == ptr[g]
           why == IF closed THEN "RateLimited" ELSE "Empty"
<1> USE StoreAssumption DEF Requests, IInv
<1>1. /\ pc[g] = "leaving" /\ ~delivered[g] /\ reply[g] = "none" /\ got[g] = None
      /\ inbox[g] = None
      /\ why \in Reasons /\ why # "Stored" /\ why # "none"
  BY DEF LeaveEmpty, ReleaseLocked, RepliesWellFormed, InboxesWellFormed, TypeOK, Reasons
<1>2. /\ pc' = [pc EXCEPT ![g] = "done"]
      /\ reply' = [reply EXCEPT ![g] = why]
      /\ UNCHANGED <<clock, blob, sweepAt, closed, delivered, inbox, id, now, ptr, got>>
  BY DEF LeaveEmpty, ReleaseLocked, Return, callVars
<1>3. CASE ~active[g]
  <2>1. UNCHANGED <<active, waiters, waiting, channels>>
    BY <1>3 DEF LeaveEmpty, ReleaseLocked
  <2> HIDE DEF why, ch
  <2>2. TypeOK'
    BY <1>1, <1>2, <2>1 DEF TypeOK, PCs
  <2>3. StructsWellFormed'
    BY <1>1, <1>2, <2>1 DEF TypeOK, StructsWellFormed, Arrived
  <2>4. WaitersWellFormed'
    <3>1. \A h \in Gets : active[h] => pc'[h] = pc[h]
      BY <1>2, <1>3 DEF TypeOK
    <3> QED BY <1>2, <2>1, <3>1 DEF WaitersWellFormed
  <2>5. InboxesWellFormed'
    BY <1>1, <1>2, <2>1 DEF TypeOK, InboxesWellFormed, Arrived
  <2>6. BlobsWellFormed'
    BY <1>1, <1>2, <2>1 DEF TypeOK, BlobsWellFormed
  <2>7. RepliesWellFormed'
    BY <1>1, <1>2, <2>1 DEF TypeOK, RepliesWellFormed, Arrived
  <2>8. WaitingIsExact' /\ CapsHold' /\ ClosedStoreIsEmpty'
    BY <1>2, <2>1 DEF WaitingIsExact, CapsHold, ClosedStoreIsEmpty
  <2>9. NoBlobLost'
    <3>1. \A h \in Gets : inbox[h] # None => pc'[h] = pc[h]
      BY <1>1, <1>2 DEF TypeOK
    <3>2. \A q \in Posts : reply'[q] = reply[q]
      BY <1>2 DEF TypeOK
    <3> QED BY <1>2, <2>1, <3>1, <3>2 DEF NoBlobLost, ExpiresAt, TypeOK
  <2> QED BY <2>2, <2>3, <2>4, <2>5, <2>6, <2>7, <2>8, <2>9
<1>4. CASE active[g]
  <2>1. /\ ch \in Requests /\ g \in waiters[ch] /\ blob[ch] = None /\ ~closed
        /\ id[g] \in ValidIds /\ channels[id[g]] = ch /\ id[ch] = id[g]
    BY <1>4 DEF WaitersWellFormed, StructsWellFormed, ClosedStoreIsEmpty, TypeOK
  <2>2. /\ active' = [active EXCEPT ![g] = FALSE]
        /\ waiters' = [waiters EXCEPT ![ch] = @ \ {g}]
        /\ waiting' = waiting - 1
        /\ channels' = IF waiters[ch] \ {g} = {} THEN [channels EXCEPT ![id[g]] = None]
                                                ELSE channels
    BY <1>4, <2>1 DEF LeaveEmpty, ReleaseLocked, GcLocked
  <2>3. /\ IsFiniteSet({h \in Gets : active'[h]})
        /\ waiting > 0
        /\ Cardinality({h \in Gets : active'[h]}) = waiting - 1
    BY <1>4, <2>2, ActiveCount DEF TypeOK, WaitersWellFormed, WaitingIsExact
  <2> HIDE DEF ch, why
  <2>4. TypeOK'
    BY <1>1, <1>2, <2>1, <2>2, <2>3 DEF TypeOK, PCs
  <2>5. StructsWellFormed'
    BY <1>1, <1>2, <2>1, <2>2 DEF TypeOK, StructsWellFormed, Arrived
  <2>6. WaitersWellFormed'
    <3>1. ASSUME NEW s \in Requests
          PROVE  waiters'[s] = {h \in Gets : active'[h] /\ ptr'[h] = s}
      <4>1. waiters'[s] = IF s = ch THEN waiters[s] \ {g} ELSE waiters[s]
        BY <2>1, <2>2 DEF TypeOK
      <4>2. \A h \in Gets : active'[h] <=> active[h] /\ h # g
        BY <2>2 DEF TypeOK
      <4>3. waiters[s] = {h \in Gets : active[h] /\ ptr[h] = s}
        BY DEF WaitersWellFormed
      <4> QED BY <1>2, <4>1, <4>2, <4>3 DEF ch
    <3>2. ASSUME NEW h \in Gets, active'[h]
          PROVE  /\ pc'[h] \in {"polling", "leaving"}
                 /\ ptr'[h] # None
                 /\ id'[h] \in ValidIds
                 /\ channels'[id'[h]] = ptr'[h]
                 /\ ~delivered'[h]
      <4>1. active[h] /\ h # g
        BY <3>2, <2>2 DEF TypeOK
      <4>2. id[h] = id[g] => h \in waiters[ch]
        BY <4>1, <2>1 DEF WaitersWellFormed
      <4> QED BY <4>1, <4>2, <1>2, <2>1, <2>2 DEF TypeOK, WaitersWellFormed
    <3>3. \A s \in Requests : blob'[s] = None \/ waiters'[s] = {}
      BY <1>2, <2>1, <2>2 DEF TypeOK, WaitersWellFormed
    <3> QED BY <2>3, <3>1, <3>2, <3>3 DEF WaitersWellFormed
  <2>7. InboxesWellFormed'
    BY <1>1, <1>2, <2>2 DEF TypeOK, InboxesWellFormed, Arrived
  <2>8. BlobsWellFormed'
    BY <1>1, <1>2, <2>2 DEF TypeOK, BlobsWellFormed
  <2>9. RepliesWellFormed'
    BY <1>1, <1>2, <2>2 DEF TypeOK, RepliesWellFormed, Arrived
  <2>10. WaitingIsExact'
    BY <2>2, <2>3 DEF WaitingIsExact
  <2>11. CapsHold'
    <3>1. waiting' \in Nat /\ waiting' <= waiting
      BY <2>2, <2>3 DEF TypeOK
    <3>2. ASSUME NEW k \in ValidIds, channels'[k] # None
          PROVE  /\ channels'[k] = channels[k]
                 /\ waiters'[channels[k]] \subseteq waiters[channels[k]]
      <4>1. channels'[k] = channels[k] /\ channels[k] \in Requests
        BY <3>2, <2>1, <2>2 DEF TypeOK
      <4> QED BY <4>1, <2>1, <2>2 DEF TypeOK
    <3> QED BY <3>1, <3>2, CapsKept
  <2>12. ClosedStoreIsEmpty'
    BY <1>2, <2>1 DEF ClosedStoreIsEmpty
  <2>13. NoBlobLost'
    <3>1. \A h \in Gets : inbox[h] # None => pc'[h] = pc[h]
      BY <1>1, <1>2 DEF TypeOK
    <3>2. \A q \in Posts : reply'[q] = reply[q]
      BY <1>2 DEF TypeOK
    <3>3. \A k \in ValidIds : channels[k] # None /\ blob[channels[k]] # None
                                => channels'[k] = channels[k]
      BY <2>1, <2>2 DEF TypeOK
    <3>4. \A q \in Posts : reply[q] = "Stored" => id[q] \in ValidIds
      BY DEF RepliesWellFormed
    <3> QED BY <1>2, <3>1, <3>2, <3>3, <3>4 DEF NoBlobLost, ExpiresAt, TypeOK
  <2> QED BY <2>4, <2>5, <2>6, <2>7, <2>8, <2>9, <2>10, <2>11, <2>12, <2>13
<1> QED BY <1>3, <1>4

\* Shutdown keeps the invariant: every active waiter is in the map it empties.
LEMMA ShutdownStep ==
  ASSUME IInv, Shutdown
  PROVE  IInv'
<1> DEFINE mapped == {channels[k] : k \in ValidIds} \ {None}
<1> USE StoreAssumption DEF Requests, IInv
<1>1. /\ ~closed /\ closed' = TRUE
      /\ active' = [g \in Gets |-> active[g] /\ \A ch \in mapped : g \notin waiters[ch]]
      /\ waiters' = [ch \in Requests |-> IF ch \in mapped THEN {} ELSE waiters[ch]]
      /\ channels' = [k \in ValidIds |-> None]
      /\ waiting' = 0
      /\ UNCHANGED <<clock, blob, sweepAt, delivered, inbox, pc, id, now, ptr, reply, got>>
  BY DEF Shutdown, callVars
<1>2. \A g \in Gets : ~active'[g]
  <2> SUFFICES ASSUME NEW g \in Gets, active[g]
               PROVE  \E ch \in mapped : g \in waiters[ch]
    BY <1>1
  <2>1. ptr[g] \in mapped /\ g \in waiters[ptr[g]]
    BY DEF WaitersWellFormed, TypeOK
  <2> QED BY <2>1
<1>3. {g \in Gets : active'[g]} = {}
  BY <1>2
<1>4. ASSUME NEW ch \in Requests
      PROVE  waiters'[ch] = {}
  <2>1. ASSUME NEW g \in waiters[ch]
        PROVE  ch \in mapped
    BY <2>1 DEF WaitersWellFormed, TypeOK
  <2> QED BY <2>1, <1>1 DEF TypeOK
<1>5. TypeOK'
  BY <1>1, <1>2, <1>4 DEF TypeOK
<1>6. StructsWellFormed'
  BY <1>1, <1>4 DEF TypeOK, StructsWellFormed, Arrived
<1>7. WaitersWellFormed'
  <2>1. IsFiniteSet({g \in Gets : active'[g]})
    BY <1>3, FS_EmptySet
  <2> QED BY <2>1, <1>2, <1>4 DEF WaitersWellFormed
<1>8. InboxesWellFormed' /\ BlobsWellFormed' /\ RepliesWellFormed'
  BY <1>1 DEF InboxesWellFormed, BlobsWellFormed, RepliesWellFormed, Arrived
<1>9. WaitingIsExact'
  BY <1>1, <1>3, FS_EmptySet DEF WaitingIsExact
<1>10. CapsHold' /\ ClosedStoreIsEmpty' /\ NoBlobLost'
  BY <1>1, <1>2 DEF CapsHold, ClosedStoreIsEmpty, NoBlobLost
<1> QED BY <1>5, <1>6, <1>7, <1>8, <1>9, <1>10

(***************************************************************************)
(* The theorems.                                                           *)
(***************************************************************************)

\* New (signal.go:197) establishes the inductive invariant.
LEMMA InitIInv == Init => IInv
<1> SUFFICES ASSUME Init PROVE IInv
  OBVIOUS
<1> USE StoreAssumption DEF Requests, Init
<1>1. {g \in Gets : active[g]} = {}
  OBVIOUS
<1>2. TypeOK
  <2>1. /\ closed \in BOOLEAN
        /\ active \in [Gets -> BOOLEAN]
        /\ delivered \in [Gets -> BOOLEAN]
    OBVIOUS
  <2>2. 0 \in 0..MaxClock
    OBVIOUS
  <2>3. now \in [Requests -> 0..MaxClock]
    BY <2>2
  <2>4. pc \in [Requests -> PCs] /\ reply \in [Requests -> Reasons \cup {"none"}]
    BY DEF PCs
  <2> QED BY <2>1, <2>2, <2>3, <2>4 DEF TypeOK
<1>3. StructsWellFormed /\ InboxesWellFormed
  BY DEF StructsWellFormed, InboxesWellFormed, Arrived
<1>6. BlobsWellFormed
  BY DEF BlobsWellFormed
<1>7. RepliesWellFormed
  BY DEF RepliesWellFormed
<1>4. WaitersWellFormed /\ WaitingIsExact
  BY <1>1, FS_EmptySet DEF WaitersWellFormed, WaitingIsExact
<1>5. CapsHold /\ ClosedStoreIsEmpty /\ NoBlobLost
  BY DEF CapsHold, ClosedStoreIsEmpty, NoBlobLost
<1> QED BY <1>2, <1>3, <1>4, <1>5, <1>6, <1>7 DEF IInv

\* Every step keeps the inductive invariant, one lemma above for each kind.
LEMMA NextIInv == IInv /\ [Next]_vars => IInv'
<1> SUFFICES ASSUME IInv, [Next]_vars PROVE IInv'
  OBVIOUS
<1>1. CASE Tick
  BY <1>1, TickStep
<1>2. ASSUME NEW r \in Requests, Call(r) PROVE IInv'
  BY <1>2, CallStep
<1>3. ASSUME NEW r \in Requests, RejectBadChannel(r) PROVE IInv'
  BY <1>3, TurnAwayStep DEF RejectBadChannel, Reasons
<1>4. ASSUME NEW p \in Posts, Post(p) PROVE IInv'
  <2>1. CASE PostTooLarge(p)
    BY <2>1, TurnAwayStep DEF PostTooLarge, Reasons, Requests
  <2>2. CASE PostAfterShutdown(p)
    BY <2>2, TurnAwayStep DEF PostAfterShutdown, Posting, Reasons, Requests
  <2>3. CASE PostConflicts(p)
    BY <2>3, PostConflictsStep
  <2>4. CASE \E g \in Gets : PostHandsOver(p, g)
    BY <2>4, PostHandsOverStep
  <2>5. CASE PostStores(p)
    BY <2>5, PostStoresStep
  <2> QED BY <1>4, <2>1, <2>2, <2>3, <2>4, <2>5 DEF Post
<1>5. ASSUME NEW g \in Gets, Get(g) PROVE IInv'
  <2>1. CASE GetAfterShutdown(g)
    BY <2>1, TurnAwayStep DEF GetAfterShutdown, Getting, Reasons, Requests
  <2>2. CASE GetTakes(g)
    BY <2>2, GetTakesStep
  <2>3. CASE GetRefused(g)
    BY <2>3, GetRefusedStep
  <2>4. CASE GetRegisters(g)
    BY <2>4, GetRegistersStep
  <2> QED BY <1>5, <2>1, <2>2, <2>3, <2>4 DEF Get
<1>6. ASSUME NEW g \in Gets, PollReceives(g) \/ LeaveWithBlob(g) PROVE IInv'
  BY <1>6, ReceiveStep DEF PollReceives, LeaveWithBlob
<1>7. ASSUME NEW g \in Gets, PollTimesOut(g) \/ PollSeesDone(g) PROVE IInv'
  BY <1>7, WakeStep DEF PollTimesOut, PollSeesDone
<1>8. ASSUME NEW g \in Gets, LeaveEmpty(g) PROVE IInv'
  BY <1>8, LeaveEmptyStep
<1>9. CASE Shutdown
  BY <1>9, ShutdownStep
<1>10. CASE UNCHANGED vars
  BY <1>10 DEF vars, IInv, TypeOK, StructsWellFormed, WaitersWellFormed, InboxesWellFormed,
               BlobsWellFormed, RepliesWellFormed, WaitingIsExact, CapsHold,
               ClosedStoreIsEmpty, NoBlobLost, Arrived, ExpiresAt
<1> QED BY <1>1, <1>2, <1>3, <1>4, <1>5, <1>6, <1>7, <1>8, <1>9, <1>10
        DEF Next, Leave, Finished

\* The inductive invariant holds: of the channel structs, waiters and blobs of
\* signal.go, whatever requests do in whatever order.
THEOREM InductiveInvariant == Spec => []IInv
<1> QED BY InitIInv, NextIInv, PTL DEF Spec

\* Type correctness; Store.waiting (signal.go:189) never goes negative.
THEOREM TypeCorrect == Spec => []TypeOK
<1>1. IInv => TypeOK
  BY DEF IInv
<1> QED BY <1>1, InductiveInvariant, PTL

\* A reader never waits beside a blob: Post hands over before it stores, Get
\* drops an expired blob before it registers.
THEOREM ReaderNeverWaitsBesideABlob == Spec => []NoBlobBesideAWaiter
<1>1. IInv => NoBlobBesideAWaiter
  BY DEF IInv, TypeOK, WaitersWellFormed, NoBlobBesideAWaiter
<1> QED BY <1>1, InductiveInvariant, PTL

\* Membership of a waiter set is the single source of truth (signal.go:38), and
\* no waiter's channel is replaced or collected under it (gcLocked).
THEOREM WaiterSetsAreTruthful == Spec => []WaiterSetIsTheTruth
<1>1. IInv => WaiterSetIsTheTruth
  BY DEF IInv, TypeOK, StructsWellFormed, WaitersWellFormed, WaiterSetIsTheTruth
<1> QED BY <1>1, InductiveInvariant, PTL

\* The count of waiters is exact and neither cap is exceeded, on every path a
\* waiter can stop by.
THEOREM WaitersAreCountedAndCapped == Spec => [](WaitingIsExact /\ CapsHold)
<1>1. IInv => WaitingIsExact /\ CapsHold
  BY DEF IInv
<1> QED BY <1>1, InductiveInvariant, PTL

\* The receive Get makes after it has lost the select (signal.go:378) never
\* blocks.
THEOREM DeliveredWaiterNeverBlocks == Spec => []NoReceiveBlocks
<1>1. IInv => NoReceiveBlocks
  BY DEF IInv, InboxesWellFormed, NoReceiveBlocks
<1> QED BY <1>1, InductiveInvariant, PTL

\* A blob whose POST was answered "stored" is in its channel or with a reader
\* of that channel until its TTL has passed or the store is shut down.
THEOREM StoredBlobIsNotLost == Spec => []NoBlobLost
<1>1. IInv => NoBlobLost
  BY DEF IInv
<1> QED BY <1>1, InductiveInvariant, PTL

\* Shutdown empties the store for good.
THEOREM ShutdownIsFinal == Spec => []ClosedStoreIsEmpty
<1>1. IInv => ClosedStoreIsEmpty
  BY DEF IInv
<1> QED BY <1>1, InductiveInvariant, PTL

\* A set without two different elements has at most one.
LEMMA AtMostOne ==
  ASSUME NEW S, \A x, y \in S : x = y
  PROVE  Cardinality(S) <= 1
<1>1. CASE S = {}
  BY <1>1, FS_EmptySet
<1>2. CASE S # {}
  <2>1. PICK x \in S : TRUE
    BY <1>2
  <2>2. S = {x}
    BY <2>1
  <2> QED BY <2>2, FS_Singleton
<1> QED BY <1>1, <1>2

\* Exactly-once delivery: a blob is stored, on its way or delivered, in one
\* place only, and the blob of a refused POST is nowhere (signal.go:30, 304).
THEOREM BlobIsDeliveredAtMostOnce == Spec => []BlobInOnePlace
<1> USE StoreAssumption DEF Requests
<1>1. IInv => BlobInOnePlace
  <2> SUFFICES ASSUME IInv, NEW p \in Posts
               PROVE  /\ \A x, y \in Places(p) : x = y
                      /\ reply[p] # "Stored" => Places(p) = {}
    BY AtMostOne DEF BlobInOnePlace
  <2> USE DEF IInv, TypeOK
  <2>1. \A j, k \in ValidIds :
          /\ channels[j] # None /\ blob[channels[j]] = p
          /\ channels[k] # None /\ blob[channels[k]] = p
          => j = k
    <3> SUFFICES ASSUME NEW j \in ValidIds, NEW k \in ValidIds,
                        channels[j] # None, blob[channels[j]] = p,
                        channels[k] # None, blob[channels[k]] = p
                 PROVE  j = k
      OBVIOUS
    <3>1. channels[j] \in Requests /\ channels[k] \in Requests
      OBVIOUS
    <3>2. channels[j] = channels[k]
      BY <3>1 DEF BlobsWellFormed
    <3> QED BY <3>2 DEF StructsWellFormed
  <2>2. \A k \in ValidIds, g \in Gets :
          channels[k] # None /\ blob[channels[k]] = p => inbox[g] # p /\ got[g] # p
    <3> SUFFICES ASSUME NEW k \in ValidIds, NEW g \in Gets,
                        channels[k] # None, blob[channels[k]] = p
                 PROVE  inbox[g] # p /\ got[g] # p
      OBVIOUS
    <3>1. channels[k] \in Requests
      OBVIOUS
    <3> QED BY <3>1 DEF BlobsWellFormed
  <2>3. \A g, h \in Gets : /\ inbox[g] = p /\ inbox[h] = p => g = h
                           /\ got[g] = p /\ got[h] = p => g = h
                           /\ ~(inbox[g] = p /\ got[h] = p)
    BY DEF BlobsWellFormed
  <2>4. \A x, y \in Places(p) : x = y
    BY <2>1, <2>2, <2>3 DEF Places
  <2>5. ASSUME reply[p] # "Stored"
        PROVE  Places(p) = {}
    <3>1. \A k \in ValidIds : channels[k] # None => blob[channels[k]] # p
      <4> SUFFICES ASSUME NEW k \in ValidIds, channels[k] # None
                   PROVE  blob[channels[k]] # p
        OBVIOUS
      <4>1. channels[k] \in Requests
        OBVIOUS
      <4> QED BY <4>1, <2>5 DEF BlobsWellFormed
    <3>2. \A g \in Gets : inbox[g] # p /\ got[g] # p
      BY <2>5 DEF BlobsWellFormed
    <3> QED BY <3>1, <3>2 DEF Places
  <2> QED BY <2>4, <2>5
<1> QED BY <1>1, InductiveInvariant, PTL

\* How FirstWriteWins lets an unexpired blob leave: with Shutdown, or to a reader.
Given(k, p) == closed' \/ \E g \in Gets : id[g] = k /\ got[g] = None /\ got'[g] = p

\* A step in which an unexpired blob ceases to be stored gives it to a reader,
\* or closes the store.
LEMMA FirstWriteStep ==
  ASSUME IInv, Next, NEW k \in ValidIds, NEW p \in Posts,
         Leaves(k, p), clock < ExpiresAt(p)
  PROVE  Given(k, p)
<1> USE StoreAssumption DEF Requests
<1> USE DEF IInv
<1> DEFINE ch == channels[k]
<1>1. ch \in Requests /\ blob[ch] = p /\ id[ch] = k
  BY DEF Leaves, StoredIn, TypeOK, StructsWellFormed
<1>2. \A r \in Requests : Held(ch, now[r])
  BY <1>1 DEF Held, ExpiresAt, TypeOK, RepliesWellFormed
<1>3. ASSUME channels'[k] = ch, blob'[ch] = p
      PROVE  FALSE
  BY <1>1, <1>3 DEF Leaves, StoredIn
<1>4. ASSUME UNCHANGED <<channels, blob>>
      PROVE  FALSE
  BY <1>1, <1>3, <1>4
<1>5. ASSUME NEW q \in Posts, Post(q)
      PROVE  FALSE
  <2>1. CASE PostTooLarge(q) \/ PostAfterShutdown(q)
    BY <2>1, <1>4 DEF PostTooLarge, PostAfterShutdown, TurnAway, mapVars, structVars
  <2> DEFINE m == MapFor(q)
  <2>2. m \in [ValidIds -> Requests \cup {None}] /\ m[k] = ch
    BY <1>1, <1>2, MapForFacts
  <2>3. CASE PostConflicts(q)
    BY <2>2, <2>3, <1>1, <1>3 DEF PostConflicts, structVars
  <2>4. ASSUME Posting(q), ~Occupied(m, id[q], now[q])
        PROVE  id[q] # k /\ StructIn(m, q) # ch
    <3>1. id[q] # k
      BY <2>2, <2>4, <1>1, <1>2 DEF Occupied
    <3>2. blob[q] = None /\ id[q] \in ValidIds
      BY <2>4 DEF Posting, StructsWellFormed, Arrived
    <3>3. ASSUME m[id[q]] = ch
          PROVE  FALSE
      BY <3>1, <3>2, <3>3, <1>1, <2>2, MapForFacts DEF StructsWellFormed, TypeOK
    <3> QED BY <3>1, <3>2, <3>3, <1>1 DEF StructIn
  <2>5. ASSUME NEW g \in Gets, PostHandsOver(q, g)
        PROVE  FALSE
    <3>1. id[q] # k /\ StructIn(m, q) # ch
      BY <2>4, <2>5 DEF PostHandsOver, HandOver
    <3>2. channels'[k] = ch
      BY <2>2, <2>5, <3>1 DEF PostHandsOver, HandOver, GcLocked
    <3>3. blob'[ch] = p
      BY <2>5, <3>1, <1>1 DEF PostHandsOver, HandOver, TypeOK
    <3> QED BY <3>2, <3>3, <1>3
  <2>6. CASE PostStores(q)
    <3>1. id[q] # k /\ StructIn(m, q) # ch
      BY <2>4, <2>6 DEF PostStores
    <3>2. channels'[k] = ch
      BY <2>2, <2>6, <3>1 DEF PostStores
    <3>3. blob'[ch] = p
      BY <2>6, <3>1, <1>1 DEF PostStores, TypeOK
    <3> QED BY <3>2, <3>3, <1>3
  <2> QED BY <1>5, <2>1, <2>3, <2>5, <2>6 DEF Post
<1>6. ASSUME NEW g \in Gets, GetTakes(g)
      PROVE  Given(k, p)
  <2>1. CASE id[g] = k
    BY <1>1, <1>6, <2>1 DEF Given, GetTakes, Getting, TypeOK, InboxesWellFormed
  <2>2. CASE id[g] # k
    <3>1. id[g] \in ValidIds /\ channels[id[g]] \in Requests /\ channels[id[g]] # ch
      BY <1>1, <1>6, <2>2 DEF GetTakes, Getting, Occupied, TypeOK, StructsWellFormed
    <3>2. channels'[k] = ch /\ blob'[ch] = p
      BY <1>1, <1>6, <2>2, <3>1 DEF GetTakes, GcLocked, TypeOK
    <3> QED BY <3>2, <1>3
  <2> QED BY <2>1, <2>2
<1>7. ASSUME NEW g \in Gets, GetRefused(g) \/ GetRegisters(g)
      PROVE  FALSE
  <2>1. id[g] \in ValidIds /\ id[g] # k /\ pc[g] = "called"
    BY <1>1, <1>2, <1>7 DEF GetRefused, GetRegisters, Getting, Occupied
  <2>2. channels[id[g]] # ch /\ g # ch
    BY <1>1, <2>1 DEF StructsWellFormed, Arrived, TypeOK
  <2>3. CASE GetRefused(g)
    BY <2>2, <2>3, <1>1, <1>3 DEF GetRefused, mapVars
  <2>4. CASE GetRegisters(g)
    BY <2>1, <2>2, <2>4, <1>1, <1>3 DEF GetRegisters, StructIn, TypeOK
  <2> QED BY <1>7, <2>3, <2>4
<1>8. ASSUME NEW g \in Gets, LeaveEmpty(g)
      PROVE  FALSE
  <2>1. blob' = blob
    BY <1>8 DEF LeaveEmpty, ReleaseLocked
  <2>2. channels'[k] = ch
    <3>1. CASE ~active[g]
      BY <1>8, <3>1 DEF LeaveEmpty, ReleaseLocked
    <3>2. CASE active[g]
      <4>1. blob[ptr[g]] = None /\ id[g] \in ValidIds /\ channels[id[g]] = ptr[g]
        BY <3>2 DEF WaitersWellFormed, TypeOK
      <4>2. id[g] # k
        BY <4>1, <1>1
      <4> QED BY <1>8, <3>2, <4>2 DEF LeaveEmpty, ReleaseLocked, GcLocked, TypeOK
    <3> QED BY <3>1, <3>2
  <2> QED BY <2>1, <2>2, <1>1, <1>3
<1>9. CASE Shutdown
  BY <1>9 DEF Shutdown, Given
<1>10. CASE Tick \/ Finished
  BY <1>10, <1>4 DEF Tick, Finished, mapVars, structVars, vars
<1>11. ASSUME NEW r \in Requests, Call(r) \/ RejectBadChannel(r)
       PROVE  FALSE
  BY <1>11, <1>4 DEF Call, RejectBadChannel, TurnAway, mapVars, structVars
<1>12. ASSUME NEW g \in Gets, \/ GetAfterShutdown(g)
                              \/ PollReceives(g)
                              \/ PollTimesOut(g)
                              \/ PollSeesDone(g)
                              \/ LeaveWithBlob(g)
       PROVE  FALSE
  BY <1>12, <1>4
  DEF GetAfterShutdown, TurnAway, PollReceives, LeaveWithBlob, Receive, PollTimesOut,
      PollSeesDone, Wake, mapVars, structVars
<1> QED BY <1>5, <1>6, <1>7, <1>8, <1>9, <1>10, <1>11, <1>12 DEF Next, Get, Leave

\* First write wins (signal.go:229): an unexpired blob leaves its channel only
\* into the hands of a reader, or with Shutdown.
THEOREM FirstWriteIsKept == Spec => FirstWriteWins
<1>1. IInv /\ [Next]_vars =>
        [\A k \in ValidIds, p \in Posts :
           Leaves(k, p) /\ clock < ExpiresAt(p) => Given(k, p)]_vars
  BY FirstWriteStep
<1> QED BY <1>1, InductiveInvariant, PTL DEF Spec, FirstWriteWins, Given

(***************************************************************************)
(* The refinement of Rendezvous: the mapping.                              *)
(***************************************************************************)

\* Tick: the clock is the contract's.
LEMMA TickMaps ==
  ASSUME Tick
  PROVE  Contract!Tick
<1>1. Slot' = Slot /\ Taken' = Taken /\ UserState' = UserState
  BY DEF Tick, Slot, StoredIn, Taken, UserState, PostState, GetState, mapVars, structVars,
         waiterVars
<1>2. UNCHANGED <<closed, callVars>> /\ clock < MaxClock /\ clock' = clock + 1
  BY DEF Tick
<1> QED BY <1>1, <1>2 DEF Contract!Tick, callVars

\* Call: the handler reads the clock.
LEMMA CallMaps ==
  ASSUME IInv, NEW r \in Requests, Call(r)
  PROVE  Contract!Ask(r)
<1> USE StoreAssumption DEF Requests
<1> USE DEF Call
<1>1. Slot' = Slot /\ Taken' = Taken
  BY DEF Slot, StoredIn, Taken, mapVars, structVars, waiterVars
<1>2. UserState[r] = "idle"
  BY DEF UserState, PostState, GetState
<1>3. UserState' = [UserState EXCEPT ![r] = "asked"]
  <2>1. pc' = [pc EXCEPT ![r] = "called"] /\ pc \in [Requests -> PCs]
    BY DEF IInv, TypeOK
  <2>2. active' = active /\ reply' = reply
    BY DEF waiterVars
  <2>3. \A u \in Requests : u # r => UserState'[u] = UserState[u]
    BY <2>1, <2>2, <1>1 DEF UserState, PostState, GetState
  <2>4. UserState'[r] = "asked"
    BY <2>1, <2>2, <1>1 DEF UserState, PostState, GetState
  <2> QED BY <2>3, <2>4 DEF UserState
<1> QED BY <1>1, <1>2, <1>3 DEF Contract!Ask, Contract!Becomes

\* A request that has not been served has been given nothing and waits for
\* nothing.
LEMMA CalledView ==
  ASSUME IInv, NEW r \in Requests, pc[r] = "called"
  PROVE  /\ UserState[r] = "asked"
         /\ r \in Gets => inbox[r] = None /\ got[r] = None /\ ~active[r]
<1> USE StoreAssumption DEF Requests
<1>1. UserState[r] = "asked"
  BY DEF UserState, PostState, GetState
<1>2. r \in Gets => inbox[r] = None /\ got[r] = None
  BY DEF IInv, InboxesWellFormed
<1>3. r \in Gets => ~active[r]
  BY DEF IInv, WaitersWellFormed
<1> QED BY <1>1, <1>2, <1>3

\* TurnAway: a request that is malformed, too large or too late.
LEMMA TurnAwayMaps ==
  ASSUME IInv, NEW r \in Requests, NEW reason \in Reasons, reason # "Stored",
         pc[r] = "called", TurnAway(r, reason),
         id[r] \notin ValidIds \/ closed \/ r \in Oversized
  PROVE  Contract!Decline(r)
<1> USE StoreAssumption DEF Requests
<1> USE DEF TurnAway, Return
<1>1. Slot' = Slot /\ Taken' = Taken
  BY DEF Slot, StoredIn, Taken, mapVars, structVars, waiterVars
<1>2. UserState' = [UserState EXCEPT ![r] = "turnedAway"]
  <2>1. pc' = [pc EXCEPT ![r] = "done"] /\ pc \in [Requests -> PCs]
    BY DEF IInv, TypeOK
  <2>2. active' = active
    BY DEF waiterVars
  <2>3. reply' = [reply EXCEPT ![r] = reason] /\ reply \in [Requests -> Reasons \cup {"none"}]
    BY DEF IInv, TypeOK
  <2>4. \A u \in Requests : u # r => UserState'[u] = UserState[u]
    BY <2>1, <2>2, <2>3, <1>1 DEF UserState, PostState, GetState
  <2>5. UserState'[r] = "turnedAway"
    <3>1. CASE r \in Posts
      BY <2>1, <2>3, <3>1 DEF UserState, PostState
    <3>2. CASE r \in Gets
      <4>1. Taken'[r] = None /\ ~active'[r]
        BY <2>2, <3>2, <1>1, CalledView DEF Taken
      <4>2. pc'[r] = "done"
        BY <2>1
      <4> QED BY <3>2, <4>1, <4>2 DEF UserState, GetState
    <3> QED BY <3>1, <3>2
  <2>6. /\ UserState = [u \in Requests |-> UserState[u]]
        /\ UserState' = [u \in Requests |-> UserState'[u]]
    BY DEF UserState
  <2> QED BY ONLY r \in Requests, <2>4, <2>5, <2>6
<1> QED BY <1>1, <1>2, CalledView DEF Contract!Decline, Contract!Becomes, callVars

\* What has expired by the clock value a request carries has outlived its TTL by
\* the directory's clock: channel.held (signal.go:168) judges by a clock that
\* may be stale, never by one that runs ahead.
LEMMA ExpiredIsOutlived ==
  ASSUME IInv, NEW r \in Requests, NEW k \in ValidIds, StoredIn(k) # None,
         ~Held(channels[k], now[r])
  PROVE  Contract!Outlived(k)
<1> USE StoreAssumption DEF Requests
<1>1. channels[k] \in Requests /\ blob[channels[k]] \in Posts
  BY DEF StoredIn, IInv, TypeOK
<1>2. Slot[k] = blob[channels[k]]
  BY <1>1 DEF Slot, StoredIn
<1>3. now[r] >= now[blob[channels[k]]] + TTL
  BY <1>1 DEF Held, ExpiresAt, IInv, TypeOK
<1>4. clock >= now[blob[channels[k]]] + TTL
  BY <1>1, <1>3 DEF IInv, TypeOK, RepliesWellFormed
<1> QED BY <1>1, <1>2, <1>4 DEF Contract!Outlived

\* The channels whose blobs a POST's sweep reclaims.
Swept(p) == {k \in ValidIds : StoredIn(k) # None /\ MapFor(p)[k] = None}

\* Those blobs have outlived their TTL, so the contract may forget them, and the
\* others stay where they are.
LEMMA SweepForgets ==
  ASSUME IInv, NEW p \in Posts
  PROVE  /\ Swept(p) \in Contract!Forgettable
         /\ \A k \in ValidIds :
              Contract!After(Swept(p))[k] = IF MapFor(p)[k] = None THEN None ELSE StoredIn(k)
<1> USE StoreAssumption DEF Requests
<1>1. ASSUME NEW k \in Swept(p)
      PROVE  Contract!Outlived(k)
  <2>1. k \in ValidIds /\ StoredIn(k) # None /\ channels[k] # None
    BY <1>1 DEF Swept, StoredIn
  <2>2. ~Held(channels[k], now[p])
    BY <1>1, <2>1, MapForFacts DEF Swept, IInv
  <2> QED BY <2>1, <2>2, ExpiredIsOutlived
<1>2. Swept(p) \in Contract!Forgettable
  BY <1>1 DEF Swept, Contract!Forgettable
<1>3. ASSUME NEW k \in ValidIds
      PROVE  Contract!After(Swept(p))[k] = IF MapFor(p)[k] = None THEN None ELSE StoredIn(k)
  BY DEF Contract!After, Swept, Slot
<1> QED BY <1>2, <1>3

\* Post finds the place taken.
LEMMA PostConflictsMaps ==
  ASSUME IInv, NEW p \in Posts, PostConflicts(p)
  PROVE  Contract!Conflict(p)
<1> USE StoreAssumption DEF Requests
<1> USE DEF PostConflicts, Posting, Return
<1>1. Taken' = Taken /\ blob' = blob /\ active' = active
  BY DEF Taken, waiterVars, structVars
<1>2. UserState' = [UserState EXCEPT ![p] = "turnedAway"]
  <2>1. pc' = [pc EXCEPT ![p] = "done"] /\ pc \in [Requests -> PCs]
    BY DEF IInv, TypeOK
  <2>2. reply' = [reply EXCEPT ![p] = "Conflict"] /\ reply \in [Requests -> Reasons \cup {"none"}]
    BY DEF IInv, TypeOK
  <2>3. UserState'[p] = "turnedAway"
    BY <2>1, <2>2 DEF UserState, PostState
  <2>4. \A u \in Requests : u # p => UserState'[u] = UserState[u]
    BY <2>1, <2>2, <1>1 DEF UserState, PostState, GetState
  <2>5. /\ UserState = [u \in Requests |-> UserState[u]]
        /\ UserState' = [u \in Requests |-> UserState'[u]]
    BY DEF UserState
  <2> QED BY ONLY p \in Requests, <2>3, <2>4, <2>5
<1>3. \A k \in ValidIds : MapFor(p)[k] = None \/ MapFor(p)[k] = channels[k]
  BY MapForFacts DEF IInv
<1>4. Slot' = Contract!After(Swept(p))
  <2>1. \A k \in ValidIds : Slot'[k] = Contract!After(Swept(p))[k]
    BY <1>1, <1>3, SweepForgets DEF Slot, StoredIn
  <2> QED BY <2>1 DEF Slot, Contract!After
<1>5. Slot'[id[p]] # None
  BY <1>1 DEF Slot, StoredIn, Occupied, Held
<1> QED BY <1>1, <1>2, <1>4, <1>5, SweepForgets, CalledView
        DEF Contract!Conflict, Contract!Serving, Contract!Becomes, callVars

\* Post finds a reader waiting: it is given the blob, and the place it would
\* have had stays empty.
LEMMA PostHandsOverMaps ==
  ASSUME IInv, NEW p \in Posts, NEW g \in Gets, PostHandsOver(p, g)
  PROVE  Contract!Give(p, g)
<1> USE StoreAssumption DEF Requests
<1> DEFINE m == MapFor(p)
           ch == StructIn(m, p)
<1>1. pc[p] = "called" /\ id[p] \in ValidIds /\ ~closed /\ g \in waiters[ch]
  BY DEF PostHandsOver, Posting
<1>2. /\ m \in [ValidIds -> Requests \cup {None}]
      /\ \A k \in ValidIds : m[k] = None \/ m[k] = channels[k]
  BY MapForFacts DEF IInv
<1>3. ch = channels[id[p]] /\ ch = m[id[p]] /\ ch \in Requests
  <2>1. waiters[p] = {}
    BY <1>1 DEF IInv, StructsWellFormed, Arrived
  <2> QED BY <1>1, <1>2, <2>1 DEF StructIn
<1> HIDE DEF m, ch
<1>4. active[g] /\ ptr[g] = ch /\ id[g] = id[p] /\ ~delivered[g] /\ blob[ch] = None
  <2>1. active[g] /\ ptr[g] = ch
    BY <1>1, <1>3 DEF IInv, WaitersWellFormed
  <2>2. id[g] \in ValidIds /\ channels[id[g]] = ch /\ ~delivered[g]
    BY <2>1 DEF IInv, WaitersWellFormed
  <2>3. id[g] = id[p]
    <3>1. ch # None
      BY <1>3
    <3>2. \A k \in ValidIds : channels[k] # None => id[channels[k]] = k
      BY DEF IInv, StructsWellFormed
    <3> QED BY <3>1, <3>2, <2>2, <1>1, <1>3
  <2>4. blob[ch] = None
    BY <1>1, <1>3 DEF IInv, WaitersWellFormed
  <2> QED BY <2>1, <2>2, <2>3, <2>4
<1>5. pc[g] \in {"polling", "leaving"} /\ inbox[g] = None /\ got[g] = None
  BY <1>4 DEF IInv, WaitersWellFormed, InboxesWellFormed
<1>6. UserState[g] = "waiting" /\ p # g
  BY <1>4, <1>5 DEF UserState, GetState, Taken
<1>7. Taken' = [Taken EXCEPT ![g] = p]
  <2>1. inbox' = [inbox EXCEPT ![g] = p] /\ inbox \in [Gets -> Posts \cup {None}] /\ got' = got
    BY DEF PostHandsOver, HandOver, IInv, TypeOK
  <2> QED BY <2>1 DEF Taken
<1>8. UserState' = [UserState EXCEPT ![p] = "served", ![g] = "served"]
  <2>1. pc' = [pc EXCEPT ![p] = "done"] /\ pc \in [Requests -> PCs]
    BY DEF PostHandsOver, Return, IInv, TypeOK
  <2>2. reply' = [reply EXCEPT ![p] = "Stored"] /\ reply \in [Requests -> Reasons \cup {"none"}]
    BY DEF PostHandsOver, Return, IInv, TypeOK
  <2>3. active' = [active EXCEPT ![g] = FALSE] /\ active \in [Gets -> BOOLEAN]
    BY DEF PostHandsOver, HandOver, IInv, TypeOK
  <2>4. UserState'[p] = "served"
    BY <2>1, <2>2 DEF UserState, PostState
  <2>5. UserState'[g] = "served"
    BY <2>1, <1>5, <1>6, <1>7 DEF UserState, GetState, Taken
  <2>6. \A u \in Posts : u # p => UserState'[u] = UserState[u]
    BY <2>1, <2>2 DEF UserState, PostState
  <2>7. \A u \in Gets : u # g => UserState'[u] = UserState[u]
    <3> SUFFICES ASSUME NEW u \in Gets, u # g PROVE UserState'[u] = UserState[u]
      OBVIOUS
    <3>1. pc'[u] = pc[u] /\ active'[u] = active[u] /\ Taken'[u] = Taken[u]
      BY <2>1, <2>3, <1>7 DEF Taken
    <3> QED BY <3>1 DEF UserState, GetState
  <2> QED BY <2>4, <2>5, <2>6, <2>7, <1>6 DEF UserState
<1>9. Slot' = Contract!After(Swept(p)) /\ Slot'[id[p]] = None
  <2>1. blob' = [blob EXCEPT ![ch] = None] /\ blob \in [Requests -> Posts \cup {None}]
    BY DEF PostHandsOver, IInv, TypeOK, m, ch
  <2>2. blob' = blob
    BY <2>1, <1>3, <1>4
  <2>3. \A k \in ValidIds : channels'[k] = m[k] \/ (k = id[p] /\ channels'[k] = None)
    BY <1>2 DEF PostHandsOver, GcLocked, m
  <2>4. Slot'[id[p]] = None /\ StoredIn(id[p]) = None
    BY <2>2, <2>3, <1>1, <1>3, <1>4 DEF Slot, StoredIn
  <2>5. \A k \in ValidIds : Slot'[k] = Contract!After(Swept(p))[k]
    BY <2>2, <2>3, <2>4, <1>2, SweepForgets DEF Slot, StoredIn, m
  <2> QED BY <2>4, <2>5 DEF Slot, Contract!After
<1>10. now' = now /\ id' = id /\ clock' = clock /\ closed' = closed
  BY DEF PostHandsOver, callVars
<1> QED BY <1>1, <1>4, <1>6, <1>7, <1>8, <1>9, <1>10, SweepForgets, CalledView
        DEF Contract!Give, Contract!Serving

\* Post finds the place free, or its blob expired, and nobody waiting.
LEMMA PostStoresMaps ==
  ASSUME IInv, NEW p \in Posts, PostStores(p)
  PROVE  Contract!Put(p)
<1> USE StoreAssumption DEF Requests
<1> DEFINE m == MapFor(p)
           ch == StructIn(m, p)
           F == Swept(p) \cup {k \in ValidIds : k = id[p] /\ StoredIn(k) # None}
<1>1. pc[p] = "called" /\ id[p] \in ValidIds /\ ~closed /\ waiters[ch] = {}
  BY DEF PostStores, Posting
<1>2. /\ m \in [ValidIds -> Requests \cup {None}]
      /\ \A k \in ValidIds : m[k] = None \/ m[k] = channels[k]
  BY MapForFacts DEF IInv
<1>3. ch \in Requests /\ \A k \in ValidIds : k # id[p] => m[k] # ch
  <2>1. ch \in Requests
    BY <1>1, <1>2 DEF StructIn
  <2>2. ASSUME NEW k \in ValidIds, k # id[p], m[k] = ch PROVE FALSE
    <3>1. channels[k] = ch /\ id[ch] = k /\ Arrived(ch)
      BY <2>1, <2>2, <1>2 DEF IInv, StructsWellFormed
    <3>2. ch # p
      BY <3>1, <1>1 DEF Arrived
    <3>3. channels[id[p]] = ch
      BY <3>2, <2>1, <1>1, <1>2 DEF StructIn
    <3> QED BY <3>1, <3>3, <2>1, <2>2, <1>1 DEF IInv, StructsWellFormed
  <2> QED BY <2>1, <2>2
<1>4. \A k \in F : Contract!Outlived(k)
  <2>1. ASSUME StoredIn(id[p]) # None PROVE Contract!Outlived(id[p])
    <3>1. channels[id[p]] # None
      BY <2>1 DEF StoredIn
    <3>2. ~Held(channels[id[p]], now[p])
      BY <1>1, <3>1, MapForFacts DEF PostStores, Occupied, IInv
    <3> QED BY <2>1, <3>2, <1>1, ExpiredIsOutlived
  <2> QED BY <2>1, SweepForgets DEF Contract!Forgettable
<1>5. F \in Contract!Forgettable
  BY <1>4 DEF Contract!Forgettable, Swept
<1>6. Contract!After(F)[id[p]] = None
  BY <1>1 DEF Contract!After, Slot
<1> HIDE DEF m, ch, F
<1>7. Slot' = [Contract!After(F) EXCEPT ![id[p]] = p]
  <2>1. blob' = [blob EXCEPT ![ch] = p] /\ blob \in [Requests -> Posts \cup {None}]
    BY DEF PostStores, IInv, TypeOK, m, ch
  <2>2. channels' = [m EXCEPT ![id[p]] = ch]
    BY DEF PostStores, m, ch
  <2>3. Slot'[id[p]] = p
    BY <2>1, <2>2, <1>1, <1>2, <1>3 DEF Slot, StoredIn
  <2>4. ASSUME NEW k \in ValidIds, k # id[p]
        PROVE  Slot'[k] = Contract!After(F)[k]
    <3>1. Slot'[k] = IF m[k] = None THEN None ELSE StoredIn(k)
      BY <2>1, <2>2, <2>4, <1>2, <1>3 DEF Slot, StoredIn
    <3>2. Contract!After(F)[k] = Contract!After(Swept(p))[k]
      BY <2>4 DEF Contract!After, F
    <3> QED BY <3>1, <3>2, SweepForgets DEF m
  <2> QED BY <2>3, <2>4, <1>1 DEF Slot, Contract!After
<1>8. UserState' = [UserState EXCEPT ![p] = "served"]
  <2>1. pc' = [pc EXCEPT ![p] = "done"] /\ pc \in [Requests -> PCs]
    BY DEF PostStores, Return, IInv, TypeOK
  <2>2. reply' = [reply EXCEPT ![p] = "Stored"] /\ reply \in [Requests -> Reasons \cup {"none"}]
    BY DEF PostStores, Return, IInv, TypeOK
  <2>3. active' = active /\ Taken' = Taken
    BY DEF PostStores, Taken, waiterVars
  <2> QED BY <2>1, <2>2, <2>3 DEF UserState, PostState, GetState
<1>9. \A g \in Gets : ~(UserState[g] = "waiting" /\ id[g] = id[p])
  <2> SUFFICES ASSUME NEW g \in Gets, UserState[g] = "waiting", id[g] = id[p] PROVE FALSE
    OBVIOUS
  <2>1. active[g]
    BY DEF UserState, GetState
  <2>2. channels[id[p]] = ptr[g] /\ ptr[g] \in Requests /\ g \in waiters[ptr[g]]
    BY <2>1 DEF IInv, TypeOK, WaitersWellFormed
  <2>3. m[id[p]] = ptr[g]
    BY <2>2, <1>1, MapForFacts DEF m, IInv
  <2> QED BY <2>2, <2>3, <1>1 DEF ch, StructIn
<1>10. now' = now /\ id' = id /\ clock' = clock /\ closed' = closed /\ Taken' = Taken
  BY DEF PostStores, callVars, waiterVars, Taken
<1> QED BY <1>1, <1>5, <1>6, <1>7, <1>8, <1>9, <1>10, CalledView
        DEF Contract!Put, Contract!Serving, Contract!Becomes

\* Get finds a blob: it is taken out of its place.
LEMMA GetTakesMaps ==
  ASSUME IInv, NEW g \in Gets, GetTakes(g)
  PROVE  Contract!Take(g)
<1> USE StoreAssumption DEF Requests
<1> DEFINE ch == channels[id[g]]
<1>1. /\ pc[g] = "called" /\ id[g] \in ValidIds /\ ~closed
      /\ ch \in Requests /\ blob[ch] \in Posts
      /\ id[ch] = id[g]
  BY DEF GetTakes, Getting, Occupied, Held, IInv, TypeOK, StructsWellFormed
<1>2. Slot[id[g]] = blob[ch] /\ blob[ch] # None
  BY <1>1 DEF Slot, StoredIn
<1>3. Taken' = [Taken EXCEPT ![g] = blob[ch]]
  <2>1. inbox' = inbox /\ inbox[g] = None
    BY <1>1, CalledView DEF GetTakes, waiterVars
  <2>2. got' = [got EXCEPT ![g] = blob[ch]] /\ got \in [Gets -> Posts \cup {None}]
    BY DEF GetTakes, IInv, TypeOK
  <2> QED BY <2>1, <2>2 DEF Taken
<1>4. UserState' = [UserState EXCEPT ![g] = "served"]
  <2>1. pc' = [pc EXCEPT ![g] = "done"] /\ pc \in [Requests -> PCs]
    BY DEF GetTakes, Return, IInv, TypeOK
  <2>2. reply' = [reply EXCEPT ![g] = "Delivered"] /\ reply \in [Requests -> Reasons \cup {"none"}]
    BY DEF GetTakes, Return, IInv, TypeOK
  <2>3. active' = active
    BY DEF GetTakes, waiterVars
  <2>4. UserState'[g] = "served"
    BY <2>1, <1>1, <1>2, <1>3 DEF UserState, GetState, Taken
  <2>5. \A u \in Posts : UserState'[u] = UserState[u]
    BY <2>1, <2>2 DEF UserState, PostState
  <2>6. ASSUME NEW u \in Gets, u # g PROVE UserState'[u] = UserState[u]
    <3>1. pc'[u] = pc[u] /\ active'[u] = active[u] /\ Taken'[u] = Taken[u]
      BY <2>1, <2>3, <2>6, <1>3 DEF Taken
    <3> QED BY <3>1 DEF UserState, GetState
  <2> QED BY <2>4, <2>5, <2>6 DEF UserState
<1>5. Slot' = [Slot EXCEPT ![id[g]] = None]
  <2>1. blob' = [blob EXCEPT ![ch] = None] /\ blob \in [Requests -> Posts \cup {None}]
    BY DEF GetTakes, IInv, TypeOK
  <2>2. /\ channels' = channels \/ channels' = [channels EXCEPT ![id[g]] = None]
        /\ channels \in [ValidIds -> Requests \cup {None}]
    BY DEF GetTakes, GcLocked, IInv, TypeOK
  <2>3. Slot'[id[g]] = None
    BY <2>1, <2>2, <1>1 DEF Slot, StoredIn
  <2>4. ASSUME NEW k \in ValidIds, k # id[g] PROVE Slot'[k] = Slot[k]
    <3>1. channels'[k] = channels[k]
      BY <2>2, <2>4, <1>1
    <3>2. channels[k] = None \/ channels[k] # ch
      BY <2>4, <1>1 DEF IInv, StructsWellFormed
    <3>3. channels[k] # None => blob'[channels[k]] = blob[channels[k]]
      BY <3>2, <2>1, <2>2, <2>4
    <3> QED BY <3>1, <3>3 DEF Slot, StoredIn
  <2> QED BY <2>3, <2>4 DEF Slot
<1>6. now' = now /\ id' = id /\ clock' = clock /\ closed' = closed
  BY DEF GetTakes, callVars
<1> QED BY <1>1, <1>2, <1>3, <1>4, <1>5, <1>6, CalledView
        DEF Contract!Take, Contract!Serving, Contract!Becomes

\* A GET drops the expired blob it finds in its channel, and that is all the
\* contract sees of it.
LEMMA DropsTheExpired ==
  ASSUME IInv, NEW g \in Gets, Getting(g), ~Occupied(channels, id[g], now[g]),
         \A k \in ValidIds : Slot'[k] = IF k = id[g] THEN None ELSE Slot[k]
  PROVE  \E F \in Contract!Forgettable : Slot' = Contract!After(F) /\ Slot'[id[g]] = None
<1> USE StoreAssumption DEF Requests
<1> DEFINE F == {k \in ValidIds : k = id[g] /\ StoredIn(k) # None}
<1>1. ASSUME NEW k \in F PROVE Contract!Outlived(k)
  <2>1. ~Held(channels[k], now[g])
    BY <1>1 DEF Occupied, StoredIn
  <2> QED BY <1>1, <2>1, ExpiredIsOutlived
<1>2. F \in Contract!Forgettable
  BY <1>1 DEF Contract!Forgettable
<1>3. Slot' = Contract!After(F)
  <2>1. \A k \in ValidIds : Slot'[k] = Contract!After(F)[k]
    BY DEF Contract!After, Slot
  <2> QED BY <2>1 DEF Slot, Contract!After
<1>4. Slot'[id[g]] = None
  BY DEF Getting
<1> QED BY <1>2, <1>3, <1>4

\* Get finds nothing and no room to wait.
LEMMA GetRefusedMaps ==
  ASSUME IInv, NEW g \in Gets, GetRefused(g)
  PROVE  Contract!FindNothing(g)
<1> USE StoreAssumption DEF Requests
<1>1. pc[g] = "called" /\ id[g] \in ValidIds /\ ~closed /\ Getting(g)
  BY DEF GetRefused, Getting
<1>2. Taken' = Taken /\ active' = active
  BY DEF GetRefused, Taken, waiterVars
<1>3. UserState' = [UserState EXCEPT ![g] = "turnedAway"]
  <2>1. pc' = [pc EXCEPT ![g] = "done"] /\ pc \in [Requests -> PCs]
    BY DEF GetRefused, Return, IInv, TypeOK
  <2>2. reply' = [reply EXCEPT ![g] = "RateLimited"] /\ reply \in [Requests -> Reasons \cup {"none"}]
    BY DEF GetRefused, Return, IInv, TypeOK
  <2>3. \A u \in Requests : u # g => UserState'[u] = UserState[u]
    BY <2>1, <2>2, <1>2 DEF UserState, PostState, GetState
  <2>4. Taken'[g] = None /\ ~active'[g]
    BY <1>1, <1>2, CalledView DEF Taken
  <2> QED BY <2>1, <2>3, <2>4 DEF UserState, PostState, GetState
<1>4. \A k \in ValidIds : Slot'[k] = IF k = id[g] THEN None ELSE Slot[k]
  <2> SUFFICES ASSUME NEW k \in ValidIds PROVE Slot'[k] = IF k = id[g] THEN None ELSE Slot[k]
    OBVIOUS
  <2>1. channels' = channels /\ channels \in [ValidIds -> Requests \cup {None}]
    BY DEF GetRefused, mapVars, IInv, TypeOK
  <2>2. blob' = [c \in Requests |-> IF c = channels[id[g]] THEN None ELSE blob[c]]
    BY DEF GetRefused
  <2>3. k # id[g] => channels[k] = None \/ channels[k] # channels[id[g]]
    BY <1>1 DEF IInv, StructsWellFormed
  <2> QED BY <2>1, <2>2, <2>3, <1>1 DEF Slot, StoredIn
<1>5. now' = now /\ id' = id /\ clock' = clock /\ closed' = closed
  BY DEF GetRefused, callVars
<1>6. ~Occupied(channels, id[g], now[g])
  BY DEF GetRefused
<1> QED BY <1>1, <1>2, <1>3, <1>4, <1>5, <1>6, DropsTheExpired, CalledView
        DEF Contract!FindNothing, Contract!Serving, Contract!Becomes

\* Get finds nothing and waits.
LEMMA GetRegistersMaps ==
  ASSUME IInv, NEW g \in Gets, GetRegisters(g)
  PROVE  Contract!FindNothing(g)
<1> USE StoreAssumption DEF Requests
<1> DEFINE ch == StructIn(channels, g)
<1>1. pc[g] = "called" /\ id[g] \in ValidIds /\ ~closed /\ Getting(g)
  BY DEF GetRegisters, Getting
<1>2. Taken' = Taken
  BY DEF GetRegisters, Taken
<1>3. UserState' = [UserState EXCEPT ![g] = "waiting"]
  <2>1. pc' = [pc EXCEPT ![g] = "polling"] /\ pc \in [Requests -> PCs]
    BY DEF GetRegisters, IInv, TypeOK
  <2>2. active' = [active EXCEPT ![g] = TRUE] /\ active \in [Gets -> BOOLEAN]
    BY DEF GetRegisters, IInv, TypeOK
  <2>3. reply' = reply
    BY DEF GetRegisters
  <2>4. \A u \in Posts : UserState'[u] = UserState[u]
    BY <2>1, <2>3 DEF UserState, PostState
  <2>5. ASSUME NEW u \in Gets, u # g PROVE UserState'[u] = UserState[u]
    <3>1. pc'[u] = pc[u] /\ active'[u] = active[u]
      BY <2>1, <2>2, <2>5
    <3> QED BY <3>1, <1>2 DEF UserState, GetState
  <2>6. Taken'[g] = None /\ active'[g]
    BY <1>1, <1>2, <2>2, CalledView DEF Taken
  <2>7. UserState'[g] = "waiting"
    BY <2>1, <2>6 DEF UserState, GetState
  <2> QED BY <2>4, <2>5, <2>7 DEF UserState
<1>4. \A k \in ValidIds : Slot'[k] = IF k = id[g] THEN None ELSE Slot[k]
  <2> SUFFICES ASSUME NEW k \in ValidIds PROVE Slot'[k] = IF k = id[g] THEN None ELSE Slot[k]
    OBVIOUS
  <2>1. ch \in Requests /\ channels \in [ValidIds -> Requests \cup {None}]
    BY <1>1 DEF StructIn, IInv, TypeOK
  <2>2. channels' = [channels EXCEPT ![id[g]] = ch]
    BY DEF GetRegisters
  <2>3. blob' = [blob EXCEPT ![ch] = None] /\ blob \in [Requests -> Posts \cup {None}]
    BY DEF GetRegisters, IInv, TypeOK
  <2>4. k # id[g] => channels[k] = None \/ channels[k] # ch
    BY <1>1 DEF IInv, StructsWellFormed, Arrived, StructIn
  <2> HIDE DEF ch
  <2> QED BY <2>1, <2>2, <2>3, <2>4, <1>1 DEF Slot, StoredIn
<1>5. now' = now /\ id' = id /\ clock' = clock /\ closed' = closed
  BY DEF GetRegisters, callVars
<1>6. ~Occupied(channels, id[g], now[g])
  BY DEF GetRegisters
<1> QED BY <1>1, <1>2, <1>3, <1>4, <1>5, <1>6, DropsTheExpired, CalledView
        DEF Contract!FindNothing, Contract!Serving, Contract!Becomes

\* Receive: the blob moves from the waiter's inbox to the answer, and the reader
\* had been given it before.
LEMMA ReceiveMaps ==
  ASSUME IInv, NEW g \in Gets, pc[g] \in {"polling", "leaving"}, Receive(g)
  PROVE  UNCHANGED Contract!vars
<1> USE StoreAssumption DEF Requests
<1>1. inbox[g] # None /\ inbox \in [Gets -> Posts \cup {None}] /\ got \in [Gets -> Posts \cup {None}]
  BY DEF Receive, IInv, TypeOK
<1>2. Taken' = Taken
  <2>1. got' = [got EXCEPT ![g] = inbox[g]] /\ inbox' = [inbox EXCEPT ![g] = None]
    BY DEF Receive
  <2> QED BY <1>1, <2>1 DEF Taken
<1>3. UserState' = UserState
  <2>1. pc' = [pc EXCEPT ![g] = "done"] /\ pc \in [Requests -> PCs]
    BY DEF Receive, Return, IInv, TypeOK
  <2>2. reply' = [reply EXCEPT ![g] = "Delivered"] /\ reply \in [Requests -> Reasons \cup {"none"}]
    BY DEF Receive, Return, IInv, TypeOK
  <2>3. active' = active
    BY DEF Receive
  <2>4. Taken[g] # None
    BY <1>1 DEF Taken
  <2>5. \A u \in Requests : u # g => UserState'[u] = UserState[u]
    BY <2>1, <2>2, <2>3, <1>2 DEF UserState, PostState, GetState
  <2>6. UserState'[g] = UserState[g]
    BY <2>1, <2>4, <1>2 DEF UserState, GetState
  <2> QED BY <2>5, <2>6 DEF UserState
<1>4. Slot' = Slot
  BY DEF Receive, Slot, StoredIn, mapVars, structVars
<1> QED BY <1>2, <1>3, <1>4 DEF Receive, Contract!vars, callVars

\* Wake: a poll that stops waiting is still registered.
LEMMA WakeMaps ==
  ASSUME IInv, NEW g \in Gets, Wake(g)
  PROVE  UNCHANGED Contract!vars
<1> USE StoreAssumption DEF Requests
<1>1. Slot' = Slot /\ Taken' = Taken
  BY DEF Wake, Slot, StoredIn, Taken, mapVars, structVars, waiterVars
<1>2. UserState' = UserState
  <2>1. pc' = [pc EXCEPT ![g] = "leaving"] /\ pc[g] = "polling" /\ pc \in [Requests -> PCs]
    BY DEF Wake, IInv, TypeOK
  <2>2. reply' = reply /\ active' = active
    BY DEF Wake, waiterVars
  <2> QED BY <2>1, <2>2, <1>1 DEF UserState, PostState, GetState
<1> QED BY <1>1, <1>2 DEF Wake, Contract!vars, callVars

\* A poll that leaves empty-handed gives up its place among the waiters, unless
\* Shutdown has already taken it.
LEMMA LeaveEmptyMaps ==
  ASSUME IInv, NEW g \in Gets, LeaveEmpty(g)
  PROVE  Contract!GiveUp(g) \/ UNCHANGED Contract!vars
<1> USE StoreAssumption DEF Requests
<1>1. pc[g] = "leaving" /\ inbox[g] = None /\ got[g] = None
  BY DEF LeaveEmpty, IInv, InboxesWellFormed
<1>2. Taken' = Taken /\ Taken[g] = None
  BY <1>1 DEF LeaveEmpty, Taken
<1>3. pc' = [pc EXCEPT ![g] = "done"] /\ pc \in [Requests -> PCs]
  BY DEF LeaveEmpty, Return, IInv, TypeOK
<1>4. /\ reply' = [reply EXCEPT ![g] = IF closed THEN "RateLimited" ELSE "Empty"]
      /\ reply \in [Requests -> Reasons \cup {"none"}]
  BY DEF LeaveEmpty, Return, IInv, TypeOK
<1>5. \A u \in Posts : UserState'[u] = UserState[u]
  BY <1>3, <1>4 DEF UserState, PostState
<1>6. now' = now /\ id' = id /\ clock' = clock /\ closed' = closed /\ blob' = blob
  BY DEF LeaveEmpty, callVars
<1>7. CASE active[g]
  <2>1. active' = [active EXCEPT ![g] = FALSE] /\ active \in [Gets -> BOOLEAN]
    BY <1>7 DEF LeaveEmpty, ReleaseLocked, IInv, TypeOK
  <2>2. UserState[g] = "waiting" /\ UserState'[g] = "turnedAway"
    BY <2>1, <1>1, <1>2, <1>3, <1>7 DEF UserState, GetState
  <2>3. ASSUME NEW u \in Gets, u # g PROVE UserState'[u] = UserState[u]
    <3>1. pc'[u] = pc[u] /\ active'[u] = active[u]
      BY <2>1, <2>3, <1>3
    <3> QED BY <3>1, <1>2 DEF UserState, GetState
  <2>4. UserState' = [UserState EXCEPT ![g] = "turnedAway"]
    BY <2>2, <2>3, <1>5 DEF UserState
  <2>5. Slot' = Slot
    <3>1. id[g] \in ValidIds /\ channels[id[g]] = ptr[g] /\ ptr[g] # None /\ blob[ptr[g]] = None
      BY <1>7 DEF IInv, TypeOK, WaitersWellFormed
    <3>2. /\ channels' = channels \/ channels' = [channels EXCEPT ![id[g]] = None]
          /\ channels \in [ValidIds -> Requests \cup {None}]
      BY <1>7 DEF LeaveEmpty, ReleaseLocked, GcLocked, IInv, TypeOK
    <3>3. \A k \in ValidIds : Slot'[k] = Slot[k]
      BY <3>1, <3>2, <1>6 DEF Slot, StoredIn
    <3> QED BY <3>3 DEF Slot
  <2> QED BY <2>2, <2>4, <2>5, <1>2, <1>6 DEF Contract!GiveUp, Contract!Becomes
<1>8. CASE ~active[g]
  <2>1. active' = active /\ channels' = channels
    BY <1>8 DEF LeaveEmpty, ReleaseLocked
  <2>2. Slot' = Slot
    BY <2>1, <1>6 DEF Slot, StoredIn
  <2>3. UserState'[g] = UserState[g]
    BY <2>1, <1>1, <1>2, <1>3, <1>8 DEF UserState, GetState
  <2>4. \A u \in Gets : u # g => UserState'[u] = UserState[u]
    BY <2>1, <1>2, <1>3 DEF UserState, GetState
  <2>5. UserState' = UserState
    BY <2>3, <2>4, <1>5 DEF UserState
  <2> QED BY <2>2, <2>5, <1>2, <1>6 DEF Contract!vars
<1> QED BY <1>7, <1>8

\* Shutdown empties every place and turns every waiting reader away.
LEMMA ShutdownMaps ==
  ASSUME IInv, Shutdown
  PROVE  Contract!Close
<1> USE StoreAssumption DEF Requests
<1>1. \A g \in Gets : ~active'[g]
  BY ShutdownStep DEF Shutdown, IInv, ClosedStoreIsEmpty
<1>2. Slot' = [k \in ValidIds |-> None]
  BY DEF Shutdown, Slot, StoredIn
<1>3. Taken' = Taken /\ pc' = pc /\ reply' = reply
  BY DEF Shutdown, Taken
<1>4. UserState' = [u \in Contract!Users |->
                      IF UserState[u] = "waiting" THEN "turnedAway" ELSE UserState[u]]
  <2>1. ASSUME NEW u \in Posts
        PROVE  UserState[u] # "waiting" /\ UserState'[u] = UserState[u]
    BY <1>3 DEF UserState, PostState
  <2>2. ASSUME NEW u \in Gets
        PROVE  UserState'[u] = IF UserState[u] = "waiting" THEN "turnedAway" ELSE UserState[u]
    <3>1. UserState[u] = GetState(u) /\ UserState'[u] = GetState(u)'
      BY DEF UserState
    <3>2. ~active'[u]
      BY <1>1
    <3> QED BY <3>1, <3>2, <1>3 DEF GetState
  <2> QED BY <2>1, <2>2 DEF UserState, Contract!Users
<1>5. now' = now /\ id' = id /\ clock' = clock /\ ~closed /\ closed' = TRUE
  BY DEF Shutdown, callVars
<1> QED BY <1>2, <1>3, <1>4, <1>5 DEF Contract!Close

(***************************************************************************)
(* The refinement.                                                         *)
(***************************************************************************)

\* An empty store is an empty rendezvous.
LEMMA InitMaps == Init => Contract!Init
<1> SUFFICES ASSUME Init PROVE Contract!Init
  OBVIOUS
<1> USE StoreAssumption DEF Requests, Init
<1>1. Slot = [k \in ValidIds |-> None] /\ Taken = [g \in Gets |-> None]
  BY DEF Slot, StoredIn, Taken
<1>2. UserState = [u \in Contract!Users |-> "idle"]
  BY DEF UserState, PostState, GetState, Contract!Users
<1> QED BY <1>1, <1>2 DEF Contract!Init, Contract!Users

\* Every step of the store is a step of the contract, or none.
LEMMA NextMaps == IInv /\ [Next]_vars => [Contract!Next]_(Contract!vars)
<1> SUFFICES ASSUME IInv, [Next]_vars PROVE [Contract!Next]_(Contract!vars)
  OBVIOUS
<1> USE DEF Contract!Next, Contract!Users
<1>1. CASE Tick
  BY <1>1, TickMaps
<1>2. ASSUME NEW r \in Requests, Call(r) PROVE Contract!Next
  BY <1>2, CallMaps DEF Requests
<1>3. ASSUME NEW r \in Requests, RejectBadChannel(r) PROVE Contract!Next
  BY <1>3, TurnAwayMaps DEF RejectBadChannel, Reasons, Requests
<1>4. ASSUME NEW p \in Posts, Post(p) PROVE Contract!Next
  <2>1. CASE PostTooLarge(p)
    BY <2>1, TurnAwayMaps DEF PostTooLarge, Reasons, Requests
  <2>2. CASE PostAfterShutdown(p)
    BY <2>2, TurnAwayMaps DEF PostAfterShutdown, Posting, Reasons, Requests
  <2>3. CASE PostConflicts(p)
    BY <2>3, PostConflictsMaps
  <2>4. CASE \E g \in Gets : PostHandsOver(p, g)
    BY <2>4, PostHandsOverMaps
  <2>5. CASE PostStores(p)
    BY <2>5, PostStoresMaps
  <2> QED BY <1>4, <2>1, <2>2, <2>3, <2>4, <2>5 DEF Post
<1>5. ASSUME NEW g \in Gets, Get(g) PROVE Contract!Next
  <2>1. CASE GetAfterShutdown(g)
    BY <2>1, TurnAwayMaps DEF GetAfterShutdown, Getting, Reasons, Requests
  <2>2. CASE GetTakes(g)
    BY <2>2, GetTakesMaps
  <2>3. CASE GetRefused(g)
    BY <2>3, GetRefusedMaps
  <2>4. CASE GetRegisters(g)
    BY <2>4, GetRegistersMaps
  <2> QED BY <1>5, <2>1, <2>2, <2>3, <2>4 DEF Get
<1>6. ASSUME NEW g \in Gets, PollReceives(g) \/ LeaveWithBlob(g)
      PROVE  UNCHANGED Contract!vars
  BY <1>6, ReceiveMaps DEF PollReceives, LeaveWithBlob
<1>7. ASSUME NEW g \in Gets, PollTimesOut(g) \/ PollSeesDone(g)
      PROVE  UNCHANGED Contract!vars
  BY <1>7, WakeMaps DEF PollTimesOut, PollSeesDone
<1>8. ASSUME NEW g \in Gets, LeaveEmpty(g)
      PROVE  Contract!Next \/ UNCHANGED Contract!vars
  BY <1>8, LeaveEmptyMaps
<1>9. CASE Shutdown
  BY <1>9, ShutdownMaps
<1>10. CASE UNCHANGED vars
  BY <1>10 DEF vars, Contract!vars, Slot, StoredIn, Taken, UserState, PostState, GetState
<1> QED BY <1>1, <1>2, <1>3, <1>4, <1>5, <1>6, <1>7, <1>8, <1>9, <1>10
        DEF Next, Leave, Finished

\* The signal channel store (signal.go:245-423), with its structs, waiter sets,
\* caps and sweeps, keeps the promises of a one-place buffer whose blob goes to
\* one reader, whatever order stale requests, timers, disconnects, sweeps and
\* Shutdown come in.
THEOREM StoreImplementsRendezvous == Spec => ImplementsRendezvous
<1> QED BY InitMaps, NextMaps, InductiveInvariant, PTL
        DEF Spec, ImplementsRendezvous, Contract!Spec

(***************************************************************************)
(* What a sweep lets its users see.                                        *)
(***************************************************************************)

\* A step serves one request at most, and leaves the answered ones as they are.
LEMMA OneRequestAtATime ==
  ASSUME IInv, Next
  PROVE  /\ \A r, s \in Served : r = s
         /\ \A r \in Requests : pc[r] = "done" => pc'[r] = "done" /\ now'[r] = now[r]
<1> USE StoreAssumption DEF Requests
<1>1. pc \in [Requests -> PCs] /\ now \in [Requests -> 0..MaxClock]
  BY DEF IInv, TypeOK
<1>2. \/ pc' = pc
      \/ \E r \in Requests, q \in PCs : pc[r] # "done" /\ pc' = [pc EXCEPT ![r] = q]
  <2> USE DEF PCs
  <2>1. CASE Tick \/ Shutdown \/ Finished
    BY <2>1 DEF Tick, Shutdown, Finished, vars
  <2>2. ASSUME NEW r \in Requests, Call(r) \/ RejectBadChannel(r)
        PROVE  \E q \in PCs : pc[r] # "done" /\ pc' = [pc EXCEPT ![r] = q]
    BY <2>2 DEF Call, RejectBadChannel, TurnAway, Return
  <2>3. ASSUME NEW p \in Posts, Post(p)
        PROVE  \E q \in PCs : pc[p] # "done" /\ pc' = [pc EXCEPT ![p] = q]
    BY <2>3 DEF Post, PostTooLarge, PostAfterShutdown, PostConflicts, PostHandsOver, PostStores,
                Posting, TurnAway, Return
  <2>4. ASSUME NEW g \in Gets, Get(g)
        PROVE  \E q \in PCs : pc[g] # "done" /\ pc' = [pc EXCEPT ![g] = q]
    BY <2>4 DEF Get, GetAfterShutdown, GetTakes, GetRefused, GetRegisters, Getting,
                TurnAway, Return
  <2>5. ASSUME NEW g \in Gets, PollReceives(g) \/ PollTimesOut(g) \/ PollSeesDone(g) \/ Leave(g)
        PROVE  \E q \in PCs : pc[g] # "done" /\ pc' = [pc EXCEPT ![g] = q]
    BY <2>5 DEF PollReceives, PollTimesOut, PollSeesDone, Leave, LeaveWithBlob, LeaveEmpty,
                Wake, Receive, Return
  <2> QED BY <2>1, <2>2, <2>3, <2>4, <2>5 DEF Next
<1>3. \A r, s \in Served : r = s
  BY <1>1, <1>2 DEF Served, Serves
<1>4. \/ now' = now
      \/ \E r \in Requests : pc[r] = "idle" /\ now' = [now EXCEPT ![r] = clock]
  <2>1. CASE Tick \/ Shutdown \/ Finished
    BY <2>1 DEF Tick, Shutdown, Finished, vars, callVars
  <2>2. ASSUME NEW r \in Requests, RejectBadChannel(r) PROVE now' = now
    BY <2>2 DEF RejectBadChannel, TurnAway, callVars
  <2>3. ASSUME NEW r \in Requests, Call(r)
        PROVE  pc[r] = "idle" /\ now' = [now EXCEPT ![r] = clock]
    BY <2>3 DEF Call
  <2>4. ASSUME NEW p \in Posts, Post(p) PROVE now' = now
    BY <2>4 DEF Post, PostTooLarge, PostAfterShutdown, PostConflicts, PostHandsOver, PostStores,
                TurnAway, callVars
  <2>5. ASSUME NEW g \in Gets, Get(g) PROVE now' = now
    BY <2>5 DEF Get, GetAfterShutdown, GetTakes, GetRefused, GetRegisters, TurnAway, callVars
  <2>6. ASSUME NEW g \in Gets, PollReceives(g) \/ PollTimesOut(g) \/ PollSeesDone(g) \/ Leave(g)
        PROVE  now' = now
    BY <2>6 DEF PollReceives, PollTimesOut, PollSeesDone, Leave, LeaveWithBlob, LeaveEmpty,
                Wake, Receive, callVars
  <2> QED BY <2>1, <2>2, <2>3, <2>4, <2>5, <2>6 DEF Next
<1>5. \A r \in Requests : pc[r] = "done" => pc'[r] = "done" /\ now'[r] = now[r]
  BY <1>1, <1>2, <1>4
<1> QED BY <1>3, <1>5

\* What a POST removes from another channel had expired by the POST's clock.
LEMMA SweptByExpired ==
  ASSUME IInv, Next, NEW p \in Served \cap Posts, NEW k \in ValidIds, SweptBy(p, k)
  PROVE  /\ StoredIn(k) \in Posts
         /\ pc[StoredIn(k)] = "done"
         /\ ExpiresAt(StoredIn(k)) <= now[p]
<1> USE StoreAssumption DEF Requests
<1>1. pc[p] = "called" /\ pc'[p] # "called" /\ id[p] # k
  BY DEF Served, Serves, SweptBy
<1>2. channels[k] \in Requests /\ blob[channels[k]] \in Posts /\ StoredIn(k) = blob[channels[k]]
      /\ channels'[k] = None
  BY DEF SweptBy, StoredIn, IInv, TypeOK
<1>3. pc[StoredIn(k)] = "done"
  BY <1>2 DEF IInv, BlobsWellFormed, RepliesWellFormed
<1>4. pc \in [Requests -> PCs]
  BY DEF IInv, TypeOK
<1>5. Post(p) \/ RejectBadChannel(p)
  <2>1. CASE Tick \/ Shutdown \/ Finished
    BY <2>1, <1>1 DEF Tick, Shutdown, Finished, vars
  <2>2. ASSUME NEW r \in Requests, Call(r) PROVE FALSE
    BY <2>2, <1>1, <1>4 DEF Call
  <2>3. ASSUME NEW r \in Requests, RejectBadChannel(r) PROVE r = p
    BY <2>3, <1>1, <1>4 DEF RejectBadChannel, TurnAway, Return
  <2>4. ASSUME NEW q \in Posts, Post(q) PROVE q = p
    BY <2>4, <1>1, <1>4
    DEF Post, PostTooLarge, PostAfterShutdown, PostConflicts, PostHandsOver, PostStores,
        TurnAway, Return
  <2>5. ASSUME NEW g \in Gets, Get(g) PROVE FALSE
    BY <2>5, <1>1, <1>4
    DEF Get, GetAfterShutdown, GetTakes, GetRefused, GetRegisters, TurnAway, Return
  <2>6. ASSUME NEW g \in Gets, PollReceives(g) \/ PollTimesOut(g) \/ PollSeesDone(g) \/ Leave(g)
        PROVE  FALSE
    BY <2>6, <1>1, <1>4
    DEF PollReceives, PollTimesOut, PollSeesDone, Leave, LeaveWithBlob, LeaveEmpty, Wake,
        Receive, Return
  <2> QED BY <2>1, <2>2, <2>3, <2>4, <2>5, <2>6 DEF Next
<1>6. MapFor(p)[k] = None
  <2>1. MapFor(p) \in [ValidIds -> Requests \cup {None}]
    BY MapForFacts DEF IInv
  <2>2. CASE RejectBadChannel(p) \/ PostTooLarge(p) \/ PostAfterShutdown(p)
    BY <2>2, <1>2 DEF RejectBadChannel, PostTooLarge, PostAfterShutdown, TurnAway, mapVars
  <2>3. CASE PostConflicts(p)
    BY <2>3, <1>2 DEF PostConflicts
  <2>4. ASSUME NEW g \in Gets, PostHandsOver(p, g) PROVE MapFor(p)[k] = None
    <3>1. channels' = MapFor(p) \/ channels' = [MapFor(p) EXCEPT ![id[p]] = None]
      BY <2>4 DEF PostHandsOver, GcLocked
    <3> QED BY <3>1, <2>1, <1>1, <1>2
  <2>5. CASE PostStores(p)
    <3>1. channels' = [MapFor(p) EXCEPT ![id[p]] = StructIn(MapFor(p), p)]
      BY <2>5 DEF PostStores
    <3> QED BY <3>1, <2>1, <1>1, <1>2
  <2> QED BY <1>5, <2>2, <2>3, <2>4, <2>5 DEF Post
<1>7. ~Held(channels[k], now[p])
  BY <1>2, <1>6, MapForFacts DEF IInv
<1>8. ExpiresAt(StoredIn(k)) <= now[p]
  BY <1>2, <1>7 DEF Held, ExpiresAt, IInv, TypeOK
<1> QED BY <1>2, <1>3, <1>8

\* Every step keeps what the history of sweeps says.
LEMMA SweepStep ==
  ASSUME IInv, SweptIsExpired, SweepNext
  PROVE  SweptIsExpired'
<1> USE StoreAssumption DEF Requests
<1>1. Next /\ Served \subseteq Requests /\ now \in [Requests -> 0..MaxClock]
  BY DEF SweepNext, Served, IInv, TypeOK
<1>2. /\ latest' \in Nat /\ latest <= latest'
      /\ \A r \in Served : now[r] <= latest'
  <2> DEFINE c == CHOOSE r \in Served : TRUE
  <2>1. latest' = IF \E r \in Served : now[r] > latest THEN now[c] ELSE latest
    BY DEF SweepNext
  <2>2. \A r \in Served : r = c
    BY <1>1, OneRequestAtATime
  <2> HIDE DEF c
  <2> QED BY <2>1, <2>2, <1>1 DEF SweptIsExpired
<1>3. ASSUME NEW k \in ValidIds
      PROVE  /\ swept'[k] \in Posts \cup {None}
             /\ swept'[k] # None => pc'[swept'[k]] = "done" /\ ExpiresAt(swept[k])' <= latest'
  <2>1. \/ swept'[k] = None
        \/ \E p \in Served \cap Posts : SweptBy(p, k) /\ swept'[k] = StoredIn(k)
        \/ swept'[k] = swept[k]
    BY DEF SweepNext
  <2>2. CASE swept'[k] = None
    BY <2>2
  <2>3. ASSUME NEW p \in Served \cap Posts, SweptBy(p, k), swept'[k] = StoredIn(k)
        PROVE  /\ swept'[k] \in Posts
               /\ pc[swept'[k]] = "done" /\ now[swept'[k]] + TTL <= latest'
    <3>1. StoredIn(k) \in Posts /\ pc[StoredIn(k)] = "done" /\ now[StoredIn(k)] + TTL <= now[p]
      BY <2>3, <1>1, SweptByExpired DEF ExpiresAt
    <3>2. now[p] <= latest' /\ now[p] \in Nat /\ now[StoredIn(k)] \in Nat
      BY <3>1, <1>1, <1>2
    <3>3. now[StoredIn(k)] + TTL <= latest'
      BY <3>1, <3>2, <1>2
    <3> QED BY <3>1, <3>3, <2>3
  <2>4. ASSUME swept'[k] = swept[k], swept[k] # None
        PROVE  /\ swept'[k] \in Posts
               /\ pc[swept'[k]] = "done" /\ now[swept'[k]] + TTL <= latest'
    <3> DEFINE q == swept[k]
    <3>1. q \in Posts /\ pc[q] = "done" /\ now[q] + TTL <= latest /\ latest \in Nat
      BY <2>4 DEF SweptIsExpired, ExpiresAt
    <3>2. now[q] \in Nat
      BY <3>1, <1>1
    <3>3. now[q] + TTL <= latest'
      BY <3>1, <3>2, <1>2
    <3> QED BY <3>1, <3>3, <2>4
  <2>5. ASSUME swept'[k] # None
        PROVE  swept'[k] \in Posts /\ pc[swept'[k]] = "done" /\ now[swept'[k]] + TTL <= latest'
    BY <2>1, <2>3, <2>4, <2>5
  <2>6. ASSUME swept'[k] # None
        PROVE  pc'[swept'[k]] = "done" /\ now'[swept'[k]] = now[swept'[k]]
    BY <2>5, <2>6, <1>1, OneRequestAtATime
  <2> QED BY <2>5, <2>6 DEF ExpiresAt
<1>4. swept' = [k \in ValidIds |-> swept'[k]]
  BY DEF SweepNext
<1> QED BY <1>2, <1>3, <1>4 DEF SweptIsExpired, ExpiresAt

\* The history keeps to the store's own steps, and what it says holds.
LEMMA SweepInvariant == SweepSpec => [](IInv /\ SweptIsExpired)
<1>1. SweepInit => IInv /\ SweptIsExpired
  BY InitIInv, StoreAssumption DEF SweepInit, SweptIsExpired
<1>2. IInv /\ SweptIsExpired /\ [SweepNext]_sweepVars => IInv' /\ SweptIsExpired'
  <2> SUFFICES ASSUME IInv, SweptIsExpired, [SweepNext]_sweepVars
               PROVE  IInv' /\ SweptIsExpired'
    OBVIOUS
  <2>1. CASE SweepNext
    BY <2>1, SweepStep, NextIInv DEF SweepNext
  <2>2. CASE UNCHANGED sweepVars
    <3>1. UNCHANGED vars /\ swept' = swept /\ latest' = latest
      BY <2>2 DEF sweepVars
    <3>2. pc' = pc /\ now' = now
      BY <3>1 DEF vars
    <3> QED BY <3>1, <3>2, NextIInv DEF SweptIsExpired, ExpiresAt
  <2> QED BY <2>1, <2>2
<1> QED BY <1>1, <1>2, PTL DEF SweepSpec

\* A sweep (sweepLocked, signal.go:507) changes what a request finds only if
\* another request, with a later clock, overtook it on the way to the lock.
THEOREM SweepMisleadsOnlyOvertaken == SweepSpec => SweepMisleadsOnlyTheOvertaken
<1>1. IInv /\ SweptIsExpired =>
        \A r \in Requests : id[r] \in ValidIds /\ Misled(r) => now[r] < latest
  BY StoreAssumption DEF SweptIsExpired, Misled, ExpiresAt, IInv, TypeOK, Requests
<1>2. IInv /\ SweptIsExpired /\ [SweepNext]_sweepVars =>
        [\A r \in Requests : Serves(r) /\ id[r] \in ValidIds /\ Misled(r)
                               => now[r] < latest]_sweepVars
  BY <1>1
<1> QED BY <1>2, SweepInvariant, PTL DEF SweepSpec, SweepMisleadsOnlyTheOvertaken
=============================================================================
