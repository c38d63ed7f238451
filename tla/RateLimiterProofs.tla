-------------------------- MODULE RateLimiterProofs --------------------------
(***************************************************************************)
(* Proofs about RateLimiter, for every number of requests, networks,       *)
(* classes and keys, every limit, window, sweep interval and lag the       *)
(* assumptions allow.                                                      *)
(***************************************************************************)
EXTENDS RateLimiter, FiniteSetTheorems, TLAPS

\* The keys are finitely many, so every set of tracked keys has a size, and a
\* smaller set of keys is no larger.
LEMMA TrackedFinite ==
  /\ IsFiniteSet(Keys)
  /\ \A m : IsFiniteSet(Tracked(m)) /\ Cardinality(Tracked(m)) \in Nat
  /\ \A A, B : A \subseteq B /\ B \subseteq Keys => Cardinality(A) <= Cardinality(B)
<1>1. IsFiniteSet(Keys)
  BY FS_Product, LimiterAssumption DEF Keys
<1>2. ASSUME NEW m PROVE IsFiniteSet(Tracked(m)) /\ Cardinality(Tracked(m)) \in Nat
  BY <1>1, FS_Subset, FS_CardinalityType DEF Tracked
<1>3. ASSUME NEW A, NEW B, A \subseteq B, B \subseteq Keys
      PROVE  Cardinality(A) <= Cardinality(B)
  BY <1>1, <1>3, FS_Subset
<1> QED BY <1>1, <1>2, <1>3

\* A sweep at t only takes entries away, and leaves none that is not live.
LEMMA SweepFacts ==
  ASSUME TypeOK, NEW t \in Nat
  PROVE  /\ SweepLocked(t) \in [Keys -> Nat]
         /\ \A k \in Keys : SweepLocked(t)[k] = n[k] \/ SweepLocked(t)[k] = 0
         /\ \A k \in Keys : SweepLocked(t)[k] > 0 => n[k] > 0 /\ Live(start[k], t)
         /\ Tracked(SweepLocked(t)) \subseteq Tracked(n)
BY DEF SweepLocked, Tracked, TypeOK

\* What a request finds: the counters with or without a sweep at its clock
\* value, and the schedule that goes with them.
LEMMA RequestFacts ==
  ASSUME TypeOK, NEW r \in Requests
  PROVE  /\ Current(r) = n \/ Current(r) = SweepLocked(now[r])
         /\ MadeRoom(r) = Current(r) \/ MadeRoom(r) = SweepLocked(now[r])
         /\ InWindow(r) /\ ~Swept(r) => Current(r) = n /\ now[r] < nextSweep
         /\ InWindow(r) /\ Swept(r) => Current(r) = SweepLocked(now[r])
         /\ ~InWindow(r) /\ ~Swept(r) => MadeRoom(r) = n /\ now[r] < nextSweep
         /\ ~InWindow(r) /\ Swept(r) => MadeRoom(r) = SweepLocked(now[r])
         /\ now[r] \in Nat
BY LimiterAssumption DEF Current, MadeRoom, Swept, TypeOK

\* Init establishes the inductive invariant: the table is empty.
LEMMA InitIInv == Init => IInv
<1> SUFFICES ASSUME Init PROVE IInv
  OBVIOUS
<1>1. TypeOK
  BY LimiterAssumption DEF Init, TypeOK
<1>2. Tracked(n) = {}
  BY DEF Init, Tracked
<1>3. TableBounded
  BY <1>2, FS_EmptySet, LimiterAssumption DEF TableBounded
<1>4. WithinLimit
  BY LimiterAssumption DEF Init, WithinLimit, Keys
<1>5. ValuesAreRecent /\ ScheduleIsSound
  BY LimiterAssumption DEF Init, ValuesAreRecent, ScheduleIsSound
<1> QED BY <1>1, <1>3, <1>4, <1>5 DEF IInv

\* The table left when no sweep ran, or when one ran at t: counters m and
\* schedule s keep what the invariant says of the table.
LEMMA TableKept ==
  ASSUME IInv, NEW t \in Nat, t <= clock, NEW m, NEW s,
         \/ m = n /\ s = nextSweep
         \/ m = SweepLocked(t) /\ s = t + SweepInterval
  PROVE  /\ m \in [Keys -> Nat] /\ s \in Nat /\ Kept(m) \in [Keys -> Nat]
         /\ Cardinality(Tracked(m)) <= MaxKeys
         /\ \A k \in Keys : m[k] <= Limit[k[2]]
         /\ s <= clock + SweepInterval
         /\ \A k \in Keys : m[k] > 0 => /\ Kept(m)[k] = start[k]
                                        /\ s < start[k] + Window + SweepInterval
<1> USE LimiterAssumption
<1>0. TypeOK
  BY DEF IInv
<1>1. m \in [Keys -> Nat] /\ s \in Nat
  BY <1>0, SweepFacts DEF TypeOK
<1>2. Kept(m) \in [Keys -> Nat] /\ \A k \in Keys : m[k] > 0 => Kept(m)[k] = start[k]
  BY <1>0, <1>1 DEF Kept, TypeOK
<1>3. Cardinality(Tracked(m)) <= MaxKeys
  <2>1. Tracked(m) \subseteq Tracked(n)
    BY <1>0, SweepFacts
  <2>2. Tracked(n) \subseteq Keys
    BY DEF Tracked
  <2>3. Cardinality(Tracked(m)) <= Cardinality(Tracked(n))
    BY <2>1, <2>2, TrackedFinite
  <2>4. Cardinality(Tracked(m)) \in Nat /\ Cardinality(Tracked(n)) \in Nat
    BY TrackedFinite
  <2> QED BY <2>3, <2>4 DEF IInv, TableBounded
<1>4. \A k \in Keys : m[k] <= Limit[k[2]]
  <2>1. \A k \in Keys : m[k] = n[k] \/ m[k] = 0
    BY <1>0, SweepFacts
  <2>2. \A k \in Keys : Limit[k[2]] \in Nat
    BY DEF Keys
  <2> QED BY <2>1, <2>2 DEF IInv, WithinLimit
<1>5. s <= clock + SweepInterval
  BY <1>0 DEF IInv, ScheduleIsSound, TypeOK
<1>6. ASSUME NEW k \in Keys, m[k] > 0
      PROVE  s < start[k] + Window + SweepInterval
  <2>1. CASE m = n /\ s = nextSweep
    BY <2>1, <1>6 DEF IInv, ScheduleIsSound
  <2>2. CASE m = SweepLocked(t) /\ s = t + SweepInterval
    <3>1. Live(start[k], t) /\ start[k] \in Nat
      BY <2>2, <1>6, <1>0, SweepFacts DEF TypeOK
    <3> QED BY <3>1, <2>2 DEF Live
  <2> QED BY <2>1, <2>2
<1> QED BY <1>1, <1>2, <1>3, <1>4, <1>5, <1>6

\* A table that satisfies the invariant, with the callers as they are known to
\* be, satisfies it as a whole.
LEMMA Assemble ==
  ASSUME TypeOK', TableBounded', WithinLimit', ValuesAreRecent', ScheduleIsSound'
  PROVE  IInv'
BY DEF IInv

\* A request that is served takes a clock value from the past with it.
LEMMA ServedFacts ==
  ASSUME IInv, NEW r \in Requests, Counted(r), NEW a \in {"allowed", "refused"},
         Answer(r, a), clock' = clock, UNCHANGED sweep
  PROVE  /\ now[r] \in Nat /\ now[r] <= clock /\ clock <= now[r] + Lag
         /\ KeyOf(r) \in Keys /\ KeyOf(r)[2] = class[r]
         /\ ValuesAreRecent'
         /\ clock' \in 0..MaxClock
         /\ pc' \in [Requests -> {"idle", "called", "allowed", "refused"}]
         /\ addr' \in [Requests -> Addrs]
         /\ class' \in [Requests -> Classes]
         /\ now' \in [Requests -> Nat]
         /\ timer' \in {"idle", "called"} /\ timerNow' \in Nat
<1>1. TypeOK /\ ValuesAreRecent
  BY DEF IInv
<1>2. now[r] \in Nat /\ now[r] <= clock /\ clock <= now[r] + Lag
  BY <1>1 DEF ValuesAreRecent, Counted, TypeOK
<1>3. KeyOf(r) \in Keys /\ KeyOf(r)[2] = class[r]
  BY <1>1, LimiterAssumption DEF KeyOf, Keys, Counted, TypeOK
<1>4. pc' \in [Requests -> {"idle", "called", "allowed", "refused"}]
  BY <1>1 DEF Answer, TypeOK
<1>5. ValuesAreRecent'
  BY <1>1 DEF Answer, ValuesAreRecent, TypeOK, sweep
<1> QED BY <1>1, <1>2, <1>3, <1>4, <1>5 DEF Answer, TypeOK, sweep

\* A request refused, at its limit or for want of room, leaves the table as the
\* sweeps it caused left it.
LEMMA RefuseStep ==
  ASSUME IInv, NEW r \in Requests, RefuseOverLimit(r) \/ RefuseFull(r)
  PROVE  IInv'
<1> DEFINE m == IF InWindow(r) THEN Current(r) ELSE MadeRoom(r)
<1>1. /\ n' = m /\ start' = Kept(m)
      /\ Counted(r) /\ Answer(r, "refused") /\ clock' = clock /\ UNCHANGED sweep
  BY DEF RefuseOverLimit, RefuseFull
<1>2. \/ m = n /\ nextSweep' = nextSweep
      \/ m = SweepLocked(now[r]) /\ nextSweep' = now[r] + SweepInterval
  BY RequestFacts DEF RefuseOverLimit, RefuseFull, Schedule, IInv
<1> HIDE DEF m
<1>3. now[r] \in Nat /\ now[r] <= clock
  BY <1>1, ServedFacts
<1>4. /\ m \in [Keys -> Nat] /\ nextSweep' \in Nat /\ Kept(m) \in [Keys -> Nat]
      /\ Cardinality(Tracked(m)) <= MaxKeys
      /\ \A k \in Keys : m[k] <= Limit[k[2]]
      /\ nextSweep' <= clock + SweepInterval
      /\ \A k \in Keys : m[k] > 0 => /\ Kept(m)[k] = start[k]
                                     /\ nextSweep' < start[k] + Window + SweepInterval
  BY <1>2, <1>3, TableKept
<1>5. TypeOK' /\ ValuesAreRecent'
  BY <1>1, <1>4, ServedFacts DEF TypeOK
<1>6. TableBounded' /\ WithinLimit' /\ ScheduleIsSound'
  BY <1>1, <1>4 DEF TableBounded, WithinLimit, ScheduleIsSound
<1> QED BY <1>5, <1>6, Assemble

\* A request admitted in an open window adds one to a counter below its limit.
LEMMA AdmitStep ==
  ASSUME IInv, NEW r \in Requests, AdmitInWindow(r)
  PROVE  IInv'
<1> DEFINE m == Current(r)
<1> DEFINE k0 == KeyOf(r)
<1>1. /\ n' = [m EXCEPT ![k0] = @ + 1] /\ start' = Kept(m)
      /\ m[k0] > 0 /\ m[k0] < Limit[class[r]]
      /\ Counted(r) /\ Answer(r, "allowed") /\ clock' = clock /\ UNCHANGED sweep
  BY DEF AdmitInWindow, InWindow
<1>2. \/ m = n /\ nextSweep' = nextSweep
      \/ m = SweepLocked(now[r]) /\ nextSweep' = now[r] + SweepInterval
  BY RequestFacts DEF AdmitInWindow, Schedule, IInv
<1>3. /\ now[r] \in Nat /\ now[r] <= clock /\ k0 \in Keys /\ k0[2] = class[r]
  BY <1>1, ServedFacts
<1> HIDE DEF m, k0
<1>4. /\ m \in [Keys -> Nat] /\ nextSweep' \in Nat /\ Kept(m) \in [Keys -> Nat]
      /\ Cardinality(Tracked(m)) <= MaxKeys
      /\ \A k \in Keys : m[k] <= Limit[k[2]]
      /\ nextSweep' <= clock + SweepInterval
      /\ \A k \in Keys : m[k] > 0 => /\ Kept(m)[k] = start[k]
                                     /\ nextSweep' < start[k] + Window + SweepInterval
  BY <1>2, <1>3, TableKept
<1>5. n' \in [Keys -> Nat] /\ \A k \in Keys : n'[k] > 0 <=> m[k] > 0
  BY <1>1, <1>3, <1>4
<1>6. TypeOK' /\ ValuesAreRecent'
  BY <1>1, <1>4, <1>5, ServedFacts DEF TypeOK
<1>7. TableBounded'
  <2>1. Tracked(n') = Tracked(m)
    BY <1>5 DEF Tracked
  <2> QED BY <2>1, <1>4 DEF TableBounded
<1>8. WithinLimit'
  <2>1. \A k \in Keys : Limit[k[2]] \in Nat
    BY LimiterAssumption DEF Keys
  <2> QED BY <2>1, <1>1, <1>3, <1>4 DEF WithinLimit
<1>9. ScheduleIsSound'
  BY <1>1, <1>4, <1>5 DEF ScheduleIsSound
<1> QED BY <1>6, <1>7, <1>8, <1>9, Assemble

\* A request that opens a window adds at most one key, and there is room for it.
LEMMA OpenStep ==
  ASSUME IInv, NEW r \in Requests, OpenWindow(r)
  PROVE  IInv'
<1> DEFINE m == MadeRoom(r)
<1> DEFINE k0 == KeyOf(r)
<1>1. /\ n' = [m EXCEPT ![k0] = 1] /\ start' = [Kept(m) EXCEPT ![k0] = now[r]]
      /\ m[k0] = 0 => ~(Cardinality(Tracked(m)) >= MaxKeys)
      /\ Counted(r) /\ Answer(r, "allowed") /\ clock' = clock /\ UNCHANGED sweep
  BY DEF OpenWindow, Full
<1>2. \/ m = n /\ nextSweep' = nextSweep
      \/ m = SweepLocked(now[r]) /\ nextSweep' = now[r] + SweepInterval
  BY RequestFacts DEF OpenWindow, Schedule, IInv
<1>3. /\ now[r] \in Nat /\ now[r] <= clock /\ clock <= now[r] + Lag
      /\ k0 \in Keys /\ k0[2] = class[r]
  BY <1>1, ServedFacts
<1> HIDE DEF m, k0
<1>4. /\ m \in [Keys -> Nat] /\ nextSweep' \in Nat /\ Kept(m) \in [Keys -> Nat]
      /\ Cardinality(Tracked(m)) <= MaxKeys
      /\ \A k \in Keys : m[k] <= Limit[k[2]]
      /\ nextSweep' <= clock + SweepInterval
      /\ \A k \in Keys : m[k] > 0 => /\ Kept(m)[k] = start[k]
                                     /\ nextSweep' < start[k] + Window + SweepInterval
  BY <1>2, <1>3, TableKept
<1>5. n' \in [Keys -> Nat] /\ start' \in [Keys -> Nat]
  BY <1>1, <1>3, <1>4
<1>6. TypeOK' /\ ValuesAreRecent'
  BY <1>1, <1>4, <1>5, ServedFacts DEF TypeOK
<1>7. TableBounded'
  <2>1. Tracked(n') = Tracked(m) \cup {k0}
    BY <1>1, <1>3, <1>4 DEF Tracked
  <2>2. IsFiniteSet(Tracked(m)) /\ Cardinality(Tracked(m)) \in Nat
    BY TrackedFinite
  <2>3. CASE m[k0] = 0
    <3>1. k0 \notin Tracked(m)
      BY <2>3 DEF Tracked
    <3>2. Cardinality(Tracked(n')) = Cardinality(Tracked(m)) + 1
      BY <2>1, <2>2, <3>1, FS_AddElement
    <3> QED BY <3>2, <2>2, <2>3, <1>1, LimiterAssumption DEF TableBounded
  <2>4. CASE m[k0] # 0
    <3>1. Tracked(n') = Tracked(m)
      BY <2>1, <2>4, <1>3, <1>4 DEF Tracked
    <3> QED BY <3>1, <1>4 DEF TableBounded
  <2> QED BY <2>3, <2>4
<1>8. WithinLimit'
  <2>1. \A k \in Keys : Limit[k[2]] \in Nat \ {0}
    BY LimiterAssumption DEF Keys
  <2> QED BY <2>1, <1>1, <1>3, <1>4 DEF WithinLimit
<1>9. ScheduleIsSound'
  <2>1. ASSUME NEW k \in Keys, n'[k] > 0
        PROVE  nextSweep' < start'[k] + Window + SweepInterval
    <3>1. CASE k = k0
      <4>1. start'[k] = now[r]
        BY <3>1, <1>1, <1>3, <1>4
      <4>2. clock \in Nat /\ Lag < Window
        BY LimiterAssumption DEF IInv, TypeOK
      <4> QED BY <4>1, <4>2, <1>3, <1>4, LimiterAssumption
    <3>2. CASE k # k0
      BY <3>2, <2>1, <1>1, <1>3, <1>4
    <3> QED BY <3>1, <3>2
  <2> QED BY <2>1, <1>1, <1>4 DEF ScheduleIsSound
<1> QED BY <1>6, <1>7, <1>8, <1>9, Assemble

\* The timer's sweep is one of those TableKept speaks of.
LEMMA SweepStep ==
  ASSUME IInv, Sweep
  PROVE  IInv'
<1>1. timerNow \in Nat /\ timerNow <= clock
  BY DEF IInv, TypeOK, ValuesAreRecent, Sweep
<1>2. n' = SweepLocked(timerNow) /\ nextSweep' = timerNow + SweepInterval /\ start' = Kept(n')
  BY DEF Sweep
<1>3. /\ n' \in [Keys -> Nat] /\ nextSweep' \in Nat /\ Kept(n') \in [Keys -> Nat]
      /\ Cardinality(Tracked(n')) <= MaxKeys
      /\ \A k \in Keys : n'[k] <= Limit[k[2]]
      /\ nextSweep' <= clock + SweepInterval
      /\ \A k \in Keys : n'[k] > 0 => /\ Kept(n')[k] = start[k]
                                      /\ nextSweep' < start[k] + Window + SweepInterval
  BY <1>1, <1>2, TableKept
<1>4. TypeOK' /\ ValuesAreRecent'
  BY <1>2, <1>3 DEF Sweep, IInv, TypeOK, ValuesAreRecent, caller
<1>5. TableBounded' /\ WithinLimit' /\ ScheduleIsSound'
  BY <1>2, <1>3 DEF TableBounded, WithinLimit, ScheduleIsSound, Sweep
<1> QED BY <1>4, <1>5, Assemble

\* Every step preserves the inductive invariant.
LEMMA NextIInv == IInv /\ [Next]_vars => IInv'
<1> SUFFICES ASSUME IInv, [Next]_vars PROVE IInv'
  OBVIOUS
<1> USE LimiterAssumption
<1>1. CASE Tick
  <2>1. TypeOK' /\ TableBounded' /\ WithinLimit' /\ ScheduleIsSound'
    BY <1>1 DEF Tick, IInv, TypeOK, TableBounded, WithinLimit, ScheduleIsSound,
                table, caller, sweep
  <2>2. ValuesAreRecent'
    BY <1>1 DEF Tick, IInv, TypeOK, ValuesAreRecent, caller, sweep
  <2> QED BY <2>1, <2>2, Assemble
<1>2. ASSUME NEW r \in Requests, Call(r) PROVE IInv'
  <2>1. TypeOK'
    BY <1>2 DEF Call, IInv, TypeOK, table, sweep
  <2>2. TableBounded' /\ WithinLimit' /\ ScheduleIsSound'
    BY <1>2 DEF Call, IInv, TableBounded, WithinLimit, ScheduleIsSound, table
  <2>3. ValuesAreRecent'
    BY <1>2 DEF Call, IInv, TypeOK, ValuesAreRecent, sweep
  <2> QED BY <2>1, <2>2, <2>3, Assemble
<1>3. ASSUME NEW r \in Requests, RefuseUnparsed(r) PROVE IInv'
  <2>1. TypeOK'
    BY <1>3 DEF RefuseUnparsed, Answer, IInv, TypeOK, table, sweep
  <2>2. TableBounded' /\ WithinLimit' /\ ScheduleIsSound'
    BY <1>3 DEF RefuseUnparsed, IInv, TableBounded, WithinLimit, ScheduleIsSound, table
  <2>3. ValuesAreRecent'
    BY <1>3 DEF RefuseUnparsed, Answer, IInv, TypeOK, ValuesAreRecent, sweep
  <2> QED BY <2>1, <2>2, <2>3, Assemble
<1>4. CASE TimerFires
  <2>1. TypeOK' /\ TableBounded' /\ WithinLimit' /\ ScheduleIsSound'
    BY <1>4 DEF TimerFires, IInv, TypeOK, TableBounded, WithinLimit, ScheduleIsSound,
                table, caller
  <2>2. ValuesAreRecent'
    BY <1>4 DEF TimerFires, IInv, TypeOK, ValuesAreRecent, caller
  <2> QED BY <2>1, <2>2, Assemble
<1>5. CASE UNCHANGED vars
  BY <1>5 DEF vars, table, caller, sweep, IInv, TypeOK, TableBounded, WithinLimit,
              ValuesAreRecent, ScheduleIsSound, Tracked
<1> QED
  BY <1>1, <1>2, <1>3, <1>4, <1>5, RefuseStep, AdmitStep, OpenStep, SweepStep
  DEF Next, Allow

\* The inductive invariant holds, of the table and of the clock values it is
\* given (ratelimit.go:310-399).
THEOREM LimiterInvariant == Spec => []IInv
BY InitIInv, NextIInv, PTL DEF Spec

\* Type correctness; table.nextSweep is a time, never before the start.
THEOREM LimiterTypeCorrect == Spec => []TypeOK
<1>1. IInv => TypeOK
  BY DEF IInv
<1> QED BY <1>1, LimiterInvariant, PTL

\* The table holds at most MaxKeys keys, whatever addresses requests come from
\* (ratelimit.go:348-365).
THEOREM TableNeverOutgrowsItsBound == Spec => []TableBounded
<1>1. IInv => TableBounded
  BY DEF IInv
<1> QED BY <1>1, LimiterInvariant, PTL

\* No counter passes its limit (ratelimit.go:338).
THEOREM CountersStayWithinTheirLimit == Spec => []WithinLimit
<1>1. IInv => WithinLimit
  BY DEF IInv
<1> QED BY <1>1, LimiterInvariant, PTL

\* A request that has been counted leaves no entry older than its window and a
\* sweep interval, at its own clock value.
LEMMA NothingOutlivesStep ==
  ASSUME IInv, IInv', NEW r \in Requests, NEW k \in Keys, Next,
         pc[r] = "called", addr[r] \in Hosts, pc'[r] \in {"allowed", "refused"},
         n'[k] > 0
  PROVE  now[r] < start'[k] + Window + SweepInterval
<1>1. Allow(r)
  BY DEF Next, Tick, Call, Allow, RefuseUnparsed, RefuseOverLimit, AdmitInWindow, RefuseFull,
         OpenWindow, Answer, TimerFires, Sweep, caller, IInv, TypeOK
<1>2. Schedule(r)
  BY <1>1 DEF Allow, RefuseUnparsed, RefuseOverLimit, AdmitInWindow, RefuseFull, OpenWindow
<1>3. now[r] \in Nat /\ nextSweep \in Nat /\ nextSweep' \in Nat /\ start'[k] \in Nat
  BY DEF IInv, TypeOK
<1>4. now[r] < nextSweep'
  BY <1>2, <1>3, LimiterAssumption DEF Schedule, Swept
<1>5. nextSweep' < start'[k] + Window + SweepInterval
  BY DEF IInv, ScheduleIsSound
<1> QED BY <1>3, <1>4, <1>5, LimiterAssumption

\* Address-derived state does not outlive its window by more than one sweep
\* interval while requests come in (ratelimit.go:374), stale ones included.
THEOREM AddressesAreForgottenUnderTraffic == Spec => NothingOutlivesItsWindow
<1>1. IInv /\ IInv' /\ [Next]_vars =>
        [\A r \in Requests, k \in Keys :
           /\ pc[r] = "called" /\ addr[r] \in Hosts
           /\ pc'[r] \in {"allowed", "refused"}
           /\ n'[k] > 0
           => now[r] < start'[k] + Window + SweepInterval]_vars
  BY NothingOutlivesStep
<1> QED BY <1>1, LimiterInvariant, PTL DEF Spec, NothingOutlivesItsWindow

\* A refusal of a counted request has one of its two reasons.
LEMMA RefusalStep ==
  ASSUME IInv, IInv', NEW r \in Requests, Next,
         pc[r] = "called", addr[r] \in Hosts, pc'[r] = "refused"
  PROVE  \/ /\ n'[KeyOf(r)] >= Limit[class[r]]
            /\ Live(start[KeyOf(r)], now[r])
         \/ /\ n'[KeyOf(r)] = 0
            /\ Cardinality(Tracked(n')) = MaxKeys
            /\ \A k \in Tracked(n') : Live(start[k], now[r])
<1>1. RefuseOverLimit(r) \/ RefuseFull(r)
  BY DEF Next, Tick, Call, Allow, RefuseUnparsed, RefuseOverLimit, AdmitInWindow, RefuseFull,
         OpenWindow, Answer, TimerFires, Sweep, caller, IInv, TypeOK
<1>2. CASE RefuseOverLimit(r)
  BY <1>2 DEF RefuseOverLimit, InWindow
<1>3. CASE RefuseFull(r)
  <2>1. n' = MadeRoom(r) /\ Full(r, MadeRoom(r))
    BY <1>3 DEF RefuseFull
  <2>2. n' = SweepLocked(now[r])
    BY <2>1 DEF MadeRoom
  <2>3. Cardinality(Tracked(n')) = MaxKeys
    <3>1. Cardinality(Tracked(n')) \in Nat /\ Cardinality(Tracked(n')) <= MaxKeys
      BY TrackedFinite DEF IInv, TableBounded
    <3> QED BY <3>1, <2>1, LimiterAssumption DEF Full
  <2>4. \A k \in Tracked(n') : Live(start[k], now[r])
    BY <2>2, SweepFacts DEF Tracked, IInv, TypeOK
  <2> QED BY <2>1, <2>3, <2>4 DEF Full
<1> QED BY <1>1, <1>2, <1>3

\* Nobody is refused short of their own limit or a table full of live keys
\* (ratelimit.go:349).
THEOREM RefusalsHaveAReason == Spec => RefusedForAReason
<1>1. IInv /\ IInv' /\ [Next]_vars =>
        [\A r \in Requests :
           pc[r] = "called" /\ addr[r] \in Hosts /\ pc'[r] = "refused" =>
             \/ /\ n'[KeyOf(r)] >= Limit[class[r]]
                /\ Live(start[KeyOf(r)], now[r])
             \/ /\ n'[KeyOf(r)] = 0
                /\ Cardinality(Tracked(n')) = MaxKeys
                /\ \A k \in Tracked(n') : Live(start[k], now[r])]_vars
  BY RefusalStep
<1> QED BY <1>1, LimiterInvariant, PTL DEF Spec, RefusedForAReason


-----------------------------------------------------------------------------
(***************************************************************************)
(* At most twice the limit in a Spell.                                     *)
(***************************************************************************)

\* Where the windows of a key are apart, a Spell meets two of them at most: it
\* ends before any current request, or begins where only the last of the elapsed
\* windows reaches.
LEMMA SpellMeetsTwo ==
  ASSUME IInv, NEW k \in Keys, IsFiniteSet(AdmittedUnder(k)),
         NEW current \in SUBSET AdmittedUnder(k), NEW end \in Nat, Apart(k, current, end),
         NEW t \in 0..MaxClock
  PROVE  Cardinality(Admitted(k, t)) <= 2 * Limit[k[2]]
<1> DEFINE L == Limit[k[2]]
           earlier == AdmittedUnder(k) \ current
           recent == {r \in earlier : end + Lag <= now[r] + Window}
<1>1. /\ L \in Nat /\ Lag \in Nat /\ Window \in Nat /\ t \in Nat /\ n[k] \in Nat
      /\ \A r \in Requests : now[r] \in Nat
  BY LimiterAssumption DEF IInv, TypeOK, Keys
<1>2. IsFiniteSet(recent) /\ IsFiniteSet(current) /\ IsFiniteSet(Admitted(k, t))
  BY FS_Subset DEF Admitted
<1>3. Cardinality(recent) \in Nat /\ Cardinality(current) \in Nat /\ Cardinality(Admitted(k, t)) \in Nat
  BY <1>2, FS_CardinalityType
<1>4. CASE t + Spell - 1 + Lag < end
  <2>1. \A r \in Admitted(k, t) : r \in Requests /\ now[r] <= t + Spell - 1
    BY <1>1, LimiterAssumption DEF Admitted, AdmittedUnder, Spell
  <2>2. \A r \in current : end <= now[r] + Lag
    BY DEF Apart
  <2>3. \A r \in Admitted(k, t) : r \notin current
    BY <1>1, <1>4, <2>1, <2>2, LimiterAssumption DEF Spell
  <2>4. Admitted(k, t) \ current = Admitted(k, t)
    BY <2>3
  <2> QED BY <2>4 DEF Apart
<1>5. CASE end <= t + Spell - 1 + Lag
  <2>1. \A r \in Admitted(k, t) : r \in Requests /\ t <= now[r]
    BY <1>1, LimiterAssumption DEF Admitted, AdmittedUnder, Spell
  <2>2. \A r \in Admitted(k, t) : end + Lag <= now[r] + Window
    BY <1>1, <1>5, <2>1, LimiterAssumption DEF Spell
  <2>3. Admitted(k, t) \subseteq recent \cup current
    BY <2>2 DEF Admitted
  <2>4. recent \cap current = {}
    OBVIOUS
  <2>5. Cardinality(recent) <= L
    BY DEF Apart
  <2>6. Cardinality(current) <= L
    <3>1. Cardinality(current) <= n[k] /\ n[k] <= L
      BY DEF Apart, IInv, WithinLimit
    <3> QED BY <1>1, <1>3, <3>1
  <2> HIDE DEF recent, earlier
  <2>7. /\ IsFiniteSet(recent \cup current)
        /\ Cardinality(recent \cup current)
             = Cardinality(recent) + Cardinality(current) - Cardinality(recent \cap current)
    BY <1>2, FS_Union
  <2>8. Cardinality(recent \cap current) = 0
    BY <2>4, FS_EmptySet
  <2>9. Cardinality(Admitted(k, t)) <= Cardinality(recent \cup current)
    BY <2>3, <2>7, FS_Subset
  <2> HIDE DEF L
  <2> QED BY <1>1, <1>3, <2>5, <2>6, <2>7, <2>8, <2>9 DEF L
<1> QED
  BY <1>1, <1>4, <1>5, LimiterAssumption DEF Spell

\* Every window under k has elapsed by end, and the last one alone reaches into
\* the Window before.
Elapsed(k, end) ==
  /\ \A r \in AdmittedUnder(k) : now[r] < end
  /\ Cardinality({r \in AdmittedUnder(k) : end + Lag <= now[r] + Window}) <= Limit[k[2]]
  /\ \A t \in 0..MaxClock : Cardinality(Admitted(k, t)) <= 2 * Limit[k[2]]

\* A key with no entry, or one that a recent clock value finds elapsed, has only
\* elapsed windows.
LEMMA ClosingElapses ==
  ASSUME IInv, NEW k \in Keys, ApartUnder(k),
         n[k] = 0 \/ (\E t \in Nat : t <= clock /\ clock <= t + Lag /\ ~Live(start[k], t))
  PROVE  \E end \in 0..clock : Elapsed(k, end)
<1>1. PICK current \in SUBSET AdmittedUnder(k), end \in 0..clock : Apart(k, current, end)
  BY DEF ApartUnder
<1> DEFINE L == Limit[k[2]]
           earlier == AdmittedUnder(k) \ current
<1>2. /\ L \in Nat /\ Lag \in Nat /\ Window \in Nat /\ n[k] \in Nat /\ start[k] \in Nat
      /\ clock \in Nat /\ Lag < Window /\ end \in Nat
      /\ \A r \in Requests : now[r] \in Nat
  BY LimiterAssumption DEF IInv, TypeOK, Keys
<1>3. IsFiniteSet(AdmittedUnder(k)) /\ AdmittedUnder(k) \subseteq Requests
  BY DEF ApartUnder, AdmittedUnder
<1>4. \A t \in 0..MaxClock : Cardinality(Admitted(k, t)) <= 2 * L
  BY <1>1, <1>2, <1>3, SpellMeetsTwo
<1>5. IsFiniteSet(current) /\ Cardinality(current) \in Nat /\ Cardinality(current) <= n[k]
  BY <1>1, <1>3, FS_Subset, FS_CardinalityType DEF Apart
<1>6. CASE n[k] = 0
  <2>1. current = {}
    <3>1. Cardinality(current) = 0
      BY <1>2, <1>5, <1>6
    <3> QED BY <1>5, <3>1, FS_EmptySet
  <2>2. earlier = AdmittedUnder(k)
    BY <2>1
  <2>3. Elapsed(k, end)
    BY <1>1, <1>4, <2>2, Zenon DEF Apart, Elapsed
  <2> QED BY <2>3
<1>7. CASE n[k] > 0
  <2> DEFINE after == start[k] + Window
             recent == {r \in AdmittedUnder(k) : after + Lag <= now[r] + Window}
  <2>1. PICK t \in Nat : t <= clock /\ clock <= t + Lag /\ ~Live(start[k], t)
    BY <1>2, <1>7
  <2>2. start[k] <= clock
    BY <1>1, <1>7 DEF Apart
  <2>3. after \in 0..clock
    BY <1>2, <2>1, <2>2 DEF Live
  <2>4. end <= start[k] + Lag
    BY <1>1, <1>7 DEF Apart
  <2>5. \A r \in earlier : now[r] < end
    BY <1>1 DEF Apart
  <2>6. \A r \in current : now[r] < start[k] + Window
    BY <1>1 DEF Apart
  <2>7. \A r \in AdmittedUnder(k) : now[r] < after
    BY <1>2, <1>3, <2>4, <2>5, <2>6
  <2>8. recent \subseteq current
    BY <1>2, <1>3, <2>4, <2>5
  <2>9. Cardinality(recent) <= L
    <3>1. Cardinality(recent) <= Cardinality(current) /\ IsFiniteSet(recent)
      BY <1>5, <2>8, FS_Subset
    <3>2. Cardinality(recent) \in Nat
      BY <3>1, FS_CardinalityType
    <3>3. n[k] <= L
      BY DEF IInv, WithinLimit
    <3> HIDE DEF recent
    <3> QED BY <1>2, <1>5, <3>1, <3>2, <3>3
  <2>10. Elapsed(k, after)
    BY <1>4, <2>7, <2>9 DEF Elapsed
  <2> QED BY <2>3, <2>10
<1> QED BY <1>2, <1>6, <1>7

\* A recent clock value finds the window of k elapsed.
FoundElapsed(k) == \E t \in Nat : t <= clock /\ clock <= t + Lag /\ ~Live(start[k], t)

\* A step that lets nothing through under k, and leaves its entry or reclaims it.
LEMMA LeftAlone ==
  ASSUME IInv, NEW k \in Keys, ApartUnder(k),
         AdmittedUnder(k)' = AdmittedUnder(k), clock <= clock', clock' \in Nat,
         \A r \in AdmittedUnder(k) : now'[r] = now[r],
         \/ n'[k] = n[k] /\ (n[k] > 0 => start'[k] = start[k])
         \/ n'[k] = 0 /\ FoundElapsed(k)
  PROVE  ApartUnder(k)'
<1>1. /\ clock \in Nat /\ n[k] \in Nat
      /\ \A end \in 0..clock : end \in 0..clock'
  BY DEF IInv, TypeOK
<1>2. \A t \in 0..MaxClock : Admitted(k, t)' = Admitted(k, t)
  BY DEF Admitted
<1>3. IsFiniteSet(AdmittedUnder(k)')
  BY DEF ApartUnder
<1>4. CASE n'[k] = n[k] /\ (n[k] > 0 => start'[k] = start[k])
  <2>1. PICK current \in SUBSET AdmittedUnder(k), end \in 0..clock : Apart(k, current, end)
    BY DEF ApartUnder
  <2> DEFINE earlier == AdmittedUnder(k) \ current
  <2>2. {r \in earlier : end + Lag <= now'[r] + Window} = {r \in earlier : end + Lag <= now[r] + Window}
    OBVIOUS
  <2>3. /\ Cardinality(current) <= n'[k]
        /\ n'[k] > 0 => start'[k] <= clock' /\ end <= start'[k] + Lag
    <3>1. /\ Cardinality(current) <= n[k]
          /\ n[k] > 0 => start[k] <= clock /\ end <= start[k] + Lag
      BY <2>1 DEF Apart
    <3>2. start[k] \in Nat
      BY DEF IInv, TypeOK
    <3> QED BY <1>1, <1>4, <3>1, <3>2
  <2>4. /\ \A r \in current : end <= now'[r] + Lag /\ now'[r] < start'[k] + Window
        /\ \A r \in earlier : now'[r] < end
    <3>1. /\ \A r \in current : end <= now[r] + Lag /\ now[r] < start[k] + Window
          /\ \A r \in earlier : now[r] < end
          /\ Cardinality(current) <= n[k]
      BY <2>1 DEF Apart
    <3>2. n[k] = 0 => current = {}
      <4>1. IsFiniteSet(current) /\ Cardinality(current) \in Nat
        BY FS_Subset, FS_CardinalityType DEF ApartUnder
      <4> QED BY <3>1, <4>1, FS_EmptySet
    <3> QED BY <1>1, <1>4, <3>1, <3>2
  <2>5. Apart(k, current, end)'
    <3>1. /\ Cardinality({r \in earlier : end + Lag <= now[r] + Window}) <= Limit[k[2]]
          /\ \A t \in 0..MaxClock : Cardinality(Admitted(k, t) \ current) <= 2 * Limit[k[2]]
      BY <2>1 DEF Apart
    <3> QED BY <1>2, <2>2, <2>3, <2>4, <3>1 DEF Apart
  <2> QED BY <1>1, <1>3, <2>5 DEF ApartUnder
<1>5. CASE n'[k] = 0 /\ FoundElapsed(k)
  <2>1. PICK end \in 0..clock : Elapsed(k, end)
    BY <1>5, ClosingElapses DEF FoundElapsed
  <2>2. {r \in AdmittedUnder(k) : end + Lag <= now'[r] + Window}
          = {r \in AdmittedUnder(k) : end + Lag <= now[r] + Window}
    OBVIOUS
  <2>3. \A t \in 0..MaxClock : Admitted(k, t) \ {} = Admitted(k, t)
    OBVIOUS
  <2>4. AdmittedUnder(k) \ {} = AdmittedUnder(k) /\ Cardinality({}) = 0
    BY FS_EmptySet
  <2>5. Apart(k, {}, end)'
    <3>1. /\ \A r \in AdmittedUnder(k) : now'[r] < end
          /\ Cardinality({r \in AdmittedUnder(k) : end + Lag <= now[r] + Window}) <= Limit[k[2]]
          /\ \A t \in 0..MaxClock : Cardinality(Admitted(k, t)) <= 2 * Limit[k[2]]
      BY <2>1 DEF Elapsed
    <3>2. /\ AdmittedUnder(k)' \ {} = AdmittedUnder(k)
          /\ Cardinality({r \in AdmittedUnder(k) : end + Lag <= now'[r] + Window}) <= Limit[k[2]]
          /\ \A t \in 0..MaxClock : Cardinality(Admitted(k, t)' \ {}) <= 2 * Limit[k[2]]
      BY <1>2, <2>2, <2>3, <3>1
    <3>3. Cardinality({}) <= n'[k] /\ ~(n'[k] > 0)
      BY <1>5, <2>4
    <3> QED BY <3>1, <3>2, <3>3 DEF Apart
  <2> QED BY <1>1, <1>3, <2>5 DEF ApartUnder
<1> QED BY <1>4, <1>5

\* A request counted in the open window is one of the current ones.
LEMMA JoinsWindow ==
  ASSUME IInv, NEW k \in Keys, ApartUnder(k), NEW r \in Requests, r \notin AdmittedUnder(k),
         AdmittedUnder(k)' = AdmittedUnder(k) \cup {r}, clock' = clock, now' = now,
         clock <= now[r] + Lag, now[r] < start[k] + Window,
         n[k] > 0, n'[k] = n[k] + 1, start'[k] = start[k]
  PROVE  ApartUnder(k)'
<1>1. PICK current \in SUBSET AdmittedUnder(k), end \in 0..clock : Apart(k, current, end)
  BY DEF ApartUnder
<1> DEFINE earlier == AdmittedUnder(k) \ current
           joined == current \cup {r}
<1>2. /\ clock \in Nat /\ n[k] \in Nat /\ now[r] \in Nat /\ Lag \in Nat
      /\ IsFiniteSet(AdmittedUnder(k)) /\ IsFiniteSet(current)
  BY FS_Subset, LimiterAssumption DEF IInv, TypeOK, ApartUnder
<1>3. IsFiniteSet(AdmittedUnder(k)')
  BY <1>2, FS_AddElement
<1>4. Cardinality(joined) <= n'[k]
  <2>1. Cardinality(joined) = Cardinality(current) + 1 /\ Cardinality(current) \in Nat
    BY <1>2, FS_AddElement, FS_CardinalityType
  <2>2. Cardinality(current) <= n[k]
    BY <1>1 DEF Apart
  <2> HIDE DEF joined
  <2> QED BY <1>2, <2>1, <2>2
<1>5. AdmittedUnder(k)' \ joined = earlier
  OBVIOUS
<1>6. \A t \in 0..MaxClock : Admitted(k, t)' \ joined = Admitted(k, t) \ current
  BY DEF Admitted
<1>7. /\ start[k] <= clock /\ end <= start[k] + Lag
      /\ \A q \in joined : end <= now[q] + Lag /\ now[q] < start[k] + Window
  BY <1>1, <1>2 DEF Apart
<1>8. /\ \A q \in earlier : now[q] < end
      /\ Cardinality({q \in earlier : end + Lag <= now[q] + Window}) <= Limit[k[2]]
      /\ \A t \in 0..MaxClock : Cardinality(Admitted(k, t) \ current) <= 2 * Limit[k[2]]
  BY <1>1 DEF Apart
<1>9. Apart(k, joined, end)'
  <2> HIDE DEF joined, earlier
  <2> QED BY <1>4, <1>5, <1>6, <1>7, <1>8 DEF Apart
<1>10. joined \in SUBSET (AdmittedUnder(k)') /\ end \in 0..clock'
  OBVIOUS
<1> QED BY <1>3, <1>9, <1>10 DEF ApartUnder

\* A request that opens a window is its only one yet; what was is earlier.
LEMMA OpensWindow ==
  ASSUME IInv, NEW k \in Keys, ApartUnder(k), NEW r \in Requests, r \notin AdmittedUnder(k),
         AdmittedUnder(k)' = AdmittedUnder(k) \cup {r}, clock' = clock, now' = now,
         now[r] <= clock, clock <= now[r] + Lag,
         n[k] = 0 \/ FoundElapsed(k), n'[k] = 1, start'[k] = now[r]
  PROVE  ApartUnder(k)'
<1>1. PICK end \in 0..clock : Elapsed(k, end)
  BY ClosingElapses DEF FoundElapsed
<1>2. /\ clock \in Nat /\ now[r] \in Nat /\ Lag \in Nat /\ Window \in Nat \ {0}
  BY LimiterAssumption DEF IInv, TypeOK
<1>3. IsFiniteSet(AdmittedUnder(k)') /\ Cardinality({r}) = 1
  <2>1. IsFiniteSet(AdmittedUnder(k))
    BY DEF ApartUnder
  <2>2. IsFiniteSet(AdmittedUnder(k)')
    BY <2>1, FS_AddElement
  <2>3. Cardinality({r}) = 1
    BY FS_Singleton
  <2> QED BY <2>2, <2>3
<1>4. AdmittedUnder(k)' \ {r} = AdmittedUnder(k)
  OBVIOUS
<1>5. \A t \in 0..MaxClock : Admitted(k, t)' \ {r} = Admitted(k, t)
  BY DEF Admitted
<1>6. /\ end <= now[r] + Lag /\ now[r] < now[r] + Window
  BY <1>2
<1>7. /\ \A q \in AdmittedUnder(k) : now[q] < end
      /\ Cardinality({q \in AdmittedUnder(k) : end + Lag <= now[q] + Window}) <= Limit[k[2]]
      /\ \A t \in 0..MaxClock : Cardinality(Admitted(k, t)) <= 2 * Limit[k[2]]
  BY <1>1 DEF Elapsed
<1>8. Apart(k, {r}, end)'
  <2>1. Cardinality({r}) <= n'[k]
    BY <1>3
  <2>2. start'[k] <= clock' /\ end <= start'[k] + Lag
    BY <1>6
  <2>3. \A q \in {r} : end <= now'[q] + Lag /\ now'[q] < start'[k] + Window
    BY <1>6
  <2>4. /\ \A q \in AdmittedUnder(k) : now'[q] < end
        /\ Cardinality({q \in AdmittedUnder(k) : end + Lag <= now'[q] + Window}) <= Limit[k[2]]
        /\ \A t \in 0..MaxClock : Cardinality(Admitted(k, t)' \ {r}) <= 2 * Limit[k[2]]
    BY <1>5, <1>7
  <2> QED BY <1>4, <2>1, <2>2, <2>3, <2>4 DEF Apart
<1>9. {r} \in SUBSET (AdmittedUnder(k)') /\ end \in 0..clock'
  OBVIOUS
<1> QED BY <1>3, <1>8, <1>9 DEF ApartUnder

\* What an answer adds to the requests let through.
LEMMA AnswerAdmits ==
  ASSUME IInv, NEW r \in Requests, Counted(r), NEW a \in {"allowed", "refused"}, Answer(r, a),
         NEW k \in Keys
  PROVE  /\ r \notin AdmittedUnder(k) /\ now' = now
         /\ AdmittedUnder(k)' = IF a = "allowed" /\ k = KeyOf(r)
                                THEN AdmittedUnder(k) \cup {r} ELSE AdmittedUnder(k)
BY DEF AdmittedUnder, Answer, Counted, KeyOf, IInv, TypeOK

\* What a sweep, or none, leaves of an entry.
LEMMA EntryAfter ==
  ASSUME IInv, NEW t \in Nat, t <= clock, clock <= t + Lag, NEW m, m = n \/ m = SweepLocked(t),
         NEW k \in Keys
  PROVE  /\ m[k] = n[k] \/ (m[k] = 0 /\ n[k] > 0 /\ ~Live(start[k], t) /\ FoundElapsed(k))
         /\ m[k] > 0 => Kept(m)[k] = start[k]
BY DEF SweepLocked, Kept, FoundElapsed, IInv, TypeOK

\* A request refused leaves every key alone, but for the sweeps it caused.
LEMMA RefusingKeepsApart ==
  ASSUME IInv, WindowsAreApart, NEW r \in Requests, RefuseOverLimit(r) \/ RefuseFull(r)
  PROVE  WindowsAreApart'
<1> DEFINE m == IF InWindow(r) THEN Current(r) ELSE MadeRoom(r)
<1>1. /\ n' = m /\ start' = Kept(m)
      /\ Counted(r) /\ Answer(r, "refused") /\ clock' = clock /\ UNCHANGED sweep
  BY DEF RefuseOverLimit, RefuseFull
<1>2. m = n \/ m = SweepLocked(now[r])
  BY RequestFacts DEF IInv
<1> HIDE DEF m
<1>3. now[r] \in Nat /\ now[r] <= clock /\ clock <= now[r] + Lag /\ clock \in Nat
  BY <1>1, ServedFacts DEF IInv, TypeOK
<1>4. ASSUME NEW k \in Keys PROVE ApartUnder(k)'
  <2>1. AdmittedUnder(k)' = AdmittedUnder(k) /\ now' = now
    BY <1>1, AnswerAdmits
  <2>2. \/ n'[k] = n[k] /\ (n[k] > 0 => start'[k] = start[k])
        \/ n'[k] = 0 /\ FoundElapsed(k)
    BY <1>1, <1>2, <1>3, EntryAfter
  <2>3. \A q \in AdmittedUnder(k) : now'[q] = now[q]
    BY <2>1
  <2> QED BY <1>1, <1>3, <2>1, <2>2, <2>3, LeftAlone DEF WindowsAreApart
<1> QED BY <1>4 DEF WindowsAreApart

\* A request counted in an open window joins that one; other keys are left alone.
LEMMA AdmittingKeepsApart ==
  ASSUME IInv, WindowsAreApart, NEW r \in Requests, AdmitInWindow(r)
  PROVE  WindowsAreApart'
<1> DEFINE m == Current(r)
           k0 == KeyOf(r)
<1>1. /\ n' = [m EXCEPT ![k0] = @ + 1] /\ start' = Kept(m) /\ m[k0] > 0
      /\ Live(start[k0], now[r])
      /\ Counted(r) /\ Answer(r, "allowed") /\ clock' = clock /\ UNCHANGED sweep
  BY DEF AdmitInWindow, InWindow
<1>2. m = n \/ m = SweepLocked(now[r])
  BY RequestFacts DEF IInv
<1>3. /\ now[r] \in Nat /\ now[r] <= clock /\ clock <= now[r] + Lag /\ clock \in Nat
      /\ k0 \in Keys
  BY <1>1, ServedFacts DEF IInv, TypeOK
<1>4. DOMAIN m = Keys /\ \A k \in Keys : n[k] \in Nat /\ start[k] \in Nat
  BY <1>2 DEF SweepLocked, IInv, TypeOK
<1> HIDE DEF m, k0
<1>5. ASSUME NEW k \in Keys PROVE ApartUnder(k)'
  <2>1. /\ r \notin AdmittedUnder(k) /\ now' = now
        /\ AdmittedUnder(k)' = IF k = k0 THEN AdmittedUnder(k) \cup {r} ELSE AdmittedUnder(k)
    BY <1>1, AnswerAdmits DEF k0
  <2>2. /\ m[k] = n[k] \/ (m[k] = 0 /\ FoundElapsed(k))
        /\ m[k] > 0 => Kept(m)[k] = start[k]
    BY <1>2, <1>3, EntryAfter
  <2>3. ApartUnder(k)
    BY DEF WindowsAreApart
  <2>4. CASE k = k0
    <3>1. n[k] > 0 /\ n'[k] = n[k] + 1 /\ start'[k] = start[k]
      BY <1>1, <1>4, <2>2, <2>4
    <3>2. now[r] < start[k] + Window
      BY <1>1, <1>3, <1>4, <2>4, LimiterAssumption DEF Live
    <3>3. AdmittedUnder(k)' = AdmittedUnder(k) \cup {r}
      BY <2>1, <2>4
    <3> QED BY <1>1, <1>3, <2>1, <2>3, <3>1, <3>2, <3>3, JoinsWindow
  <2>5. CASE k # k0
    <3>1. \/ n'[k] = n[k] /\ (n[k] > 0 => start'[k] = start[k])
          \/ n'[k] = 0 /\ FoundElapsed(k)
      BY <1>1, <1>4, <2>2, <2>5
    <3>2. AdmittedUnder(k)' = AdmittedUnder(k) /\ \A q \in AdmittedUnder(k) : now'[q] = now[q]
      BY <2>1, <2>5
    <3> QED BY <1>1, <1>3, <2>3, <3>1, <3>2, LeftAlone
  <2> QED BY <2>4, <2>5
<1> QED BY <1>5 DEF WindowsAreApart

\* A request that opens a window found the last one elapsed, or no entry.
LEMMA OpeningKeepsApart ==
  ASSUME IInv, WindowsAreApart, NEW r \in Requests, OpenWindow(r)
  PROVE  WindowsAreApart'
<1> DEFINE m == MadeRoom(r)
           k0 == KeyOf(r)
<1>1. /\ n' = [m EXCEPT ![k0] = 1] /\ start' = [Kept(m) EXCEPT ![k0] = now[r]]
      /\ Current(r)[k0] > 0 => ~Live(start[k0], now[r])
      /\ Counted(r) /\ Answer(r, "allowed") /\ clock' = clock /\ UNCHANGED sweep
  BY DEF OpenWindow, InWindow
<1>2. /\ m = n \/ m = SweepLocked(now[r])
      /\ Current(r) = n \/ Current(r) = SweepLocked(now[r])
  BY RequestFacts DEF IInv
<1>3. /\ now[r] \in Nat /\ now[r] <= clock /\ clock <= now[r] + Lag /\ clock \in Nat
      /\ k0 \in Keys
  BY <1>1, ServedFacts DEF IInv, TypeOK
<1>4. /\ DOMAIN m = Keys /\ DOMAIN Kept(m) = Keys
      /\ \A k \in Keys : n[k] \in Nat /\ start[k] \in Nat
  BY <1>2 DEF SweepLocked, Kept, IInv, TypeOK
<1>5. n[k0] = 0 \/ FoundElapsed(k0)
  <2>1. Current(r)[k0] = n[k0] \/ FoundElapsed(k0)
    BY <1>2, <1>3, EntryAfter
  <2>2. n[k0] \in Nat
    BY <1>3, <1>4
  <2> HIDE DEF k0
  <2> QED BY <1>1, <1>3, <2>1, <2>2 DEF FoundElapsed
<1> HIDE DEF m, k0
<1>6. ASSUME NEW k \in Keys PROVE ApartUnder(k)'
  <2>1. /\ r \notin AdmittedUnder(k) /\ now' = now
        /\ AdmittedUnder(k)' = IF k = k0 THEN AdmittedUnder(k) \cup {r} ELSE AdmittedUnder(k)
    BY <1>1, AnswerAdmits DEF k0
  <2>2. /\ m[k] = n[k] \/ (m[k] = 0 /\ FoundElapsed(k))
        /\ m[k] > 0 => Kept(m)[k] = start[k]
    BY <1>2, <1>3, EntryAfter
  <2>3. ApartUnder(k)
    BY DEF WindowsAreApart
  <2>4. CASE k = k0
    <3>1. n'[k] = 1 /\ start'[k] = now[r]
      BY <1>1, <1>4, <2>4
    <3>2. AdmittedUnder(k)' = AdmittedUnder(k) \cup {r}
      BY <2>1, <2>4
    <3> QED BY <1>1, <1>3, <1>5, <2>1, <2>3, <2>4, <3>1, <3>2, OpensWindow
  <2>5. CASE k # k0
    <3>1. \/ n'[k] = n[k] /\ (n[k] > 0 => start'[k] = start[k])
          \/ n'[k] = 0 /\ FoundElapsed(k)
      BY <1>1, <1>4, <2>2, <2>5
    <3>2. AdmittedUnder(k)' = AdmittedUnder(k) /\ \A q \in AdmittedUnder(k) : now'[q] = now[q]
      BY <2>1, <2>5
    <3> QED BY <1>1, <1>3, <2>3, <3>1, <3>2, LeftAlone
  <2> QED BY <2>4, <2>5
<1> QED BY <1>6 DEF WindowsAreApart

\* One case per action.
LEMMA NextKeepsApart == IInv /\ IInv' /\ WindowsAreApart /\ [Next]_vars => WindowsAreApart'
<1> SUFFICES ASSUME IInv, IInv', WindowsAreApart, [Next]_vars PROVE WindowsAreApart'
  OBVIOUS
<1>1. ASSUME NEW k \in Keys, AdmittedUnder(k)' = AdmittedUnder(k),
             \A q \in AdmittedUnder(k) : now'[q] = now[q], UNCHANGED <<n, start>>,
             clock' = clock \/ clock' = clock + 1
      PROVE  ApartUnder(k)'
  <2>1. clock <= clock' /\ clock' \in Nat
    BY <1>1 DEF IInv, TypeOK
  <2> QED BY <1>1, <2>1, LeftAlone DEF WindowsAreApart
<1>2. CASE Tick \/ TimerFires \/ UNCHANGED vars
  <2>1. UNCHANGED <<n, start, pc, addr, class, now>> /\ (clock' = clock \/ clock' = clock + 1)
    BY <1>2 DEF Tick, TimerFires, vars, table, caller
  <2>2. \A k \in Keys : AdmittedUnder(k)' = AdmittedUnder(k)
    BY <2>1 DEF AdmittedUnder, KeyOf
  <2> QED BY <1>1, <2>1, <2>2 DEF WindowsAreApart
<1>3. ASSUME NEW r \in Requests, Call(r) PROVE WindowsAreApart'
  <2>1. /\ clock' = clock /\ UNCHANGED <<n, start>> /\ pc[r] = "idle" /\ pc'[r] = "called"
        /\ \A q \in Requests : q # r => /\ pc'[q] = pc[q] /\ addr'[q] = addr[q]
                                       /\ class'[q] = class[q] /\ now'[q] = now[q]
    BY <1>3 DEF Call, table, IInv, TypeOK
  <2>2. \A k \in Keys : /\ AdmittedUnder(k)' = AdmittedUnder(k)
                        /\ \A q \in AdmittedUnder(k) : now'[q] = now[q]
    BY <2>1 DEF AdmittedUnder, KeyOf
  <2> QED BY <1>1, <2>1, <2>2 DEF WindowsAreApart
<1>4. ASSUME NEW r \in Requests, RefuseUnparsed(r) PROVE WindowsAreApart'
  <2>1. /\ clock' = clock /\ UNCHANGED <<n, start, addr, class, now>>
        /\ pc[r] = "called" /\ pc'[r] = "refused" /\ \A q \in Requests : q # r => pc'[q] = pc[q]
    BY <1>4 DEF RefuseUnparsed, Answer, table, IInv, TypeOK
  <2>2. \A k \in Keys : AdmittedUnder(k)' = AdmittedUnder(k)
    BY <2>1 DEF AdmittedUnder, KeyOf
  <2> QED BY <1>1, <2>1, <2>2 DEF WindowsAreApart
<1>5. CASE Sweep
  <2>1. /\ timerNow \in Nat /\ timerNow <= clock /\ clock <= timerNow + Lag /\ clock \in Nat
        /\ n' = SweepLocked(timerNow) /\ start' = Kept(n')
        /\ UNCHANGED <<clock, pc, addr, class, now>>
    BY <1>5 DEF Sweep, caller, IInv, TypeOK, ValuesAreRecent
  <2>2. ASSUME NEW k \in Keys PROVE ApartUnder(k)'
    <3>1. AdmittedUnder(k)' = AdmittedUnder(k) /\ \A q \in AdmittedUnder(k) : now'[q] = now[q]
      BY <2>1 DEF AdmittedUnder, KeyOf
    <3>2. \/ n'[k] = n[k] /\ (n[k] > 0 => start'[k] = start[k])
          \/ n'[k] = 0 /\ FoundElapsed(k)
      BY <2>1, EntryAfter
    <3> QED BY <2>1, <3>1, <3>2, LeftAlone DEF WindowsAreApart
  <2> QED BY <2>2 DEF WindowsAreApart
<1> QED
  BY <1>2, <1>3, <1>4, <1>5, RefusingKeepsApart, AdmittingKeepsApart, OpeningKeepsApart
  DEF Next, Allow

\* Nothing has been let through yet.
LEMMA InitIsApart == Init => WindowsAreApart
<1> SUFFICES ASSUME Init, NEW k \in Keys PROVE ApartUnder(k)
  BY DEF WindowsAreApart
<1>1. AdmittedUnder(k) = {} /\ clock = 0 /\ n[k] = 0
  BY DEF Init, AdmittedUnder
<1>2. \A t \in 0..MaxClock : Admitted(k, t) = {}
  BY <1>1 DEF Admitted
<1>3. Limit[k[2]] \in Nat /\ IsFiniteSet({}) /\ Cardinality({}) = 0
  BY LimiterAssumption, FS_EmptySet DEF Keys
<1>4. Apart(k, {}, 0)
  BY <1>1, <1>2, <1>3 DEF Apart
<1> QED BY <1>1, <1>3, <1>4 DEF ApartUnder

\* The windows a key is counted in are a Window apart, less the lag of the clock
\* values that close one and open the next (ratelimit.go:310-399).
THEOREM WindowsStayApart == Spec => []WindowsAreApart
BY InitIInv, NextIInv, InitIsApart, NextKeepsApart, PTL DEF Spec

\* No client gets more than twice its limit in a Spell, across any window
\* boundary, however its requests and the sweeps are ordered (ratelimit.go:62).
THEOREM NeverMoreThanTwiceTheLimit == Spec => []AtMostTwiceTheLimit
<1>1. IInv /\ WindowsAreApart => AtMostTwiceTheLimit
  <2> SUFFICES ASSUME IInv, NEW k \in Keys, ApartUnder(k), NEW t \in 0..MaxClock
               PROVE  Cardinality(Admitted(k, t)) <= 2 * Limit[k[2]]
    BY DEF WindowsAreApart, AtMostTwiceTheLimit
  <2>1. PICK current \in SUBSET AdmittedUnder(k), end \in 0..clock : Apart(k, current, end)
    BY DEF ApartUnder
  <2>2. end \in Nat /\ IsFiniteSet(AdmittedUnder(k))
    BY DEF ApartUnder, IInv, TypeOK
  <2> QED BY <2>1, <2>2, SpellMeetsTwo
<1> QED BY <1>1, LimiterInvariant, WindowsStayApart, PTL
=============================================================================
