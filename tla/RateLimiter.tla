----------------------------- MODULE RateLimiter -----------------------------
(***************************************************************************)
(* The per-source rate limiter, internal/ratelimit/ratelimit.go, with the  *)
(* two callers it has: Server.allow, at the head of every rate-limited     *)
(* request (internal/api/api.go:391), and Server.SweepLimiter on its timer *)
(* (internal/api/api.go:354).                                              *)
(*                                                                         *)
(* Either caller reads the clock first and takes table.mu afterwards, so   *)
(* the clock values the table sees need not be in order.  Nothing but      *)
(* scheduling lies between the two, so a value is at most Lag old when it  *)
(* is used.                                                                *)
(*                                                                         *)
(* A definition headed "Variant" is a plausible slip in the definition     *)
(* that follows it; no specification uses it.                              *)
(***************************************************************************)
EXTENDS Integers, FiniteSets

CONSTANTS
  Requests,
  Addrs,          \* what clientaddr may answer for a request's source
  Hosts,          \* those that are valid addresses
  Nets,           \* /24s and /64s, the host bits gone
  NetOf,          \* the network makeKey truncates each host to
  Classes,        \* ClassPutRecord, ClassGetRecord, ClassSignal
  Limit,          \* Limiter.limits
  Window,         \* Limiter.window
  SweepInterval,  \* Limiter.sweepInterval
  MaxKeys,        \* Limiter.maxKeys
  MaxClock,       \* bound on the clock
  Lag             \* how old a clock value may be when it is used

Keys == Nets \X Classes

\* New (ratelimit.go:262) leaves no option unset, negative or zero.
ASSUME LimiterAssumption ==
  /\ Hosts \subseteq Addrs /\ Addrs # {}
  /\ IsFiniteSet(Nets) /\ IsFiniteSet(Classes) /\ Classes # {}
  /\ NetOf \in [Hosts -> Nets]
  /\ Limit \in [Classes -> Nat \ {0}]
  /\ Window \in Nat \ {0}
  /\ SweepInterval \in 1..Window
  /\ MaxKeys \in Nat \ {0}
  /\ MaxClock \in Nat
  /\ Lag \in 0..(Window - 1)

VARIABLES
  clock,
  n,          \* counter.n of each key; 0 when the table has no entry for it
  start,      \* counter.start of each key; 0 when it has no entry
  nextSweep,  \* table.nextSweep
  pc,         \* where each request is: idle, called, allowed or refused
  addr,       \* the address each request comes from
  class,      \* the class it is counted in
  now,        \* the clock value it carries
  timer,      \* the sweep goroutine: idle, or called with a clock value
  timerNow

table  == <<n, start, nextSweep>>
caller == <<pc, addr, class, now>>
sweep  == <<timer, timerNow>>
vars   == <<clock, table, caller, sweep>>

(***************************************************************************)
(* Helpers.                                                                *)
(***************************************************************************)

\* live: the absolute difference decides.
Live(s, t) == (IF t < s THEN s - t ELSE t - s) < Window

\* The key a request is counted against (makeKey): host bits gone, one
\* allowance per class.
KeyOf(r) == <<NetOf[addr[r]], class[r]>>

Tracked(m) == {k \in Keys : m[k] > 0}

\* Variant: live entries swept with the rest.
SweepAll(t) == [k \in Keys |-> 0]

\* sweepLocked: the counters left at t.
SweepLocked(t) == [k \in Keys |-> IF n[k] > 0 /\ ~Live(start[k], t) THEN 0 ELSE n[k]]

\* The counters once the sweep that may be due has run.
Current(r) == IF now[r] >= nextSweep THEN SweepLocked(now[r]) ELSE n

InWindow(r) == Current(r)[KeyOf(r)] > 0 /\ Live(start[KeyOf(r)], now[r])

\* Variant: an off-by-one at the bound.
FullByOne(r, m) == m[KeyOf(r)] = 0 /\ Cardinality(Tracked(m)) > MaxKeys

\* A key with no entry yet, and no room for one.
Full(r, m) == m[KeyOf(r)] = 0 /\ Cardinality(Tracked(m)) >= MaxKeys

\* Variant: no attempt to reclaim at the bound.
MadeNoRoom(r) == Current(r)

\* The counters a new window is opened in: elapsed entries are reclaimed at the
\* bound even when no sweep was due.
MadeRoom(r) == IF Full(r, Current(r)) THEN SweepLocked(now[r]) ELSE Current(r)

Swept(r) == now[r] >= nextSweep \/ (~InWindow(r) /\ Full(r, Current(r)))

\* Variant: scheduled in the past.
ScheduleBack(r) == nextSweep' = IF Swept(r) THEN now[r] - SweepInterval ELSE nextSweep

Schedule(r) == nextSweep' = IF Swept(r) THEN now[r] + SweepInterval ELSE nextSweep

Answer(r, a) == pc' = [pc EXCEPT ![r] = a] /\ UNCHANGED <<addr, class, now>>

\* An entry that is gone takes its start with it.
Kept(m) == [k \in Keys |-> IF m[k] > 0 THEN start[k] ELSE 0]

(***************************************************************************)
(* Actions.                                                                *)
(***************************************************************************)

Init ==
  /\ clock = 0
  /\ n = [k \in Keys |-> 0]
  /\ start = [k \in Keys |-> 0]
  /\ nextSweep = 0
  /\ pc = [r \in Requests |-> "idle"]
  /\ addr = [r \in Requests |-> CHOOSE a \in Addrs : TRUE]
  /\ class = [r \in Requests |-> CHOOSE c \in Classes : TRUE]
  /\ now = [r \in Requests |-> 0]
  /\ timer = "idle"
  /\ timerNow = 0

\* Time passes, but a clock value that has been read is used before it is more
\* than Lag old.
Tick ==
  /\ clock < MaxClock
  /\ \A r \in Requests : pc[r] = "called" => clock < now[r] + Lag
  /\ timer = "called" => clock < timerNow + Lag
  /\ clock' = clock + 1
  /\ UNCHANGED <<table, caller, sweep>>

Call(r) ==
  /\ pc[r] = "idle"
  /\ pc' = [pc EXCEPT ![r] = "called"]
  /\ \E a \in Addrs : addr' = [addr EXCEPT ![r] = a]
  /\ \E c \in Classes : class' = [class EXCEPT ![r] = c]
  /\ now' = [now EXCEPT ![r] = clock]
  /\ UNCHANGED <<clock, table, sweep>>

\* Refused before the lock is taken.
RefuseUnparsed(r) ==
  /\ pc[r] = "called"
  /\ addr[r] \notin Hosts
  /\ Answer(r, "refused")
  /\ UNCHANGED <<clock, table, sweep>>

Counted(r) == pc[r] = "called" /\ addr[r] \in Hosts

RefuseOverLimit(r) ==
  /\ Counted(r)
  /\ InWindow(r)
  /\ Current(r)[KeyOf(r)] >= Limit[class[r]]
  /\ n' = Current(r)
  /\ start' = Kept(Current(r))
  /\ Schedule(r)
  /\ Answer(r, "refused")
  /\ UNCHANGED <<clock, sweep>>

AdmitInWindow(r) ==
  /\ Counted(r)
  /\ InWindow(r)
  /\ Current(r)[KeyOf(r)] < Limit[class[r]]
  /\ n' = [Current(r) EXCEPT ![KeyOf(r)] = @ + 1]
  /\ start' = Kept(Current(r))
  /\ Schedule(r)
  /\ Answer(r, "allowed")
  /\ UNCHANGED <<clock, sweep>>

RefuseFull(r) ==
  /\ Counted(r)
  /\ ~InWindow(r)
  /\ Full(r, MadeRoom(r))
  /\ n' = MadeRoom(r)
  /\ start' = Kept(MadeRoom(r))
  /\ Schedule(r)
  /\ Answer(r, "refused")
  /\ UNCHANGED <<clock, sweep>>

\* Variant: the counter begins again, its window does not.
OpenWindowInPast(r) ==
  /\ Counted(r)
  /\ ~InWindow(r)
  /\ ~Full(r, MadeRoom(r))
  /\ n' = [MadeRoom(r) EXCEPT ![KeyOf(r)] = 1]
  /\ start' = Kept(MadeRoom(r))
  /\ Schedule(r)
  /\ Answer(r, "allowed")
  /\ UNCHANGED <<clock, sweep>>

OpenWindow(r) ==
  /\ Counted(r)
  /\ ~InWindow(r)
  /\ ~Full(r, MadeRoom(r))
  /\ n' = [MadeRoom(r) EXCEPT ![KeyOf(r)] = 1]
  /\ start' = [Kept(MadeRoom(r)) EXCEPT ![KeyOf(r)] = now[r]]
  /\ Schedule(r)
  /\ Answer(r, "allowed")
  /\ UNCHANGED <<clock, sweep>>

Allow(r) ==
  \/ RefuseUnparsed(r)
  \/ RefuseOverLimit(r)
  \/ AdmitInWindow(r)
  \/ RefuseFull(r)
  \/ OpenWindow(r)

\* The limiter's ticker fires and SweepLimiter reads the clock.
TimerFires ==
  /\ timer = "idle"
  /\ timer' = "called"
  /\ timerNow' = clock
  /\ UNCHANGED <<clock, table, caller>>

\* Variant: schedules the next pass and reclaims nothing.
SweepNothing ==
  /\ timer = "called"
  /\ timer' = "idle"
  /\ nextSweep' = timerNow + SweepInterval
  /\ timerNow' = 0
  /\ UNCHANGED <<clock, n, start, caller>>

Sweep ==
  /\ timer = "called"
  /\ timer' = "idle"
  /\ n' = SweepLocked(timerNow)
  /\ start' = Kept(SweepLocked(timerNow))
  /\ nextSweep' = timerNow + SweepInterval
  /\ timerNow' = 0
  /\ UNCHANGED <<clock, caller>>

Next ==
  \/ Tick
  \/ \E r \in Requests : Call(r) \/ Allow(r)
  \/ TimerFires
  \/ Sweep

Spec == Init /\ [][Next]_vars

\* Goroutines are scheduled, time passes, and the ticker keeps firing
\* (startSweeps, main.go:341).
Fairness ==
  /\ WF_vars(Tick) /\ WF_vars(TimerFires) /\ WF_vars(Sweep)
  /\ \A r \in Requests : WF_vars(Allow(r))

LiveSpec == Spec /\ Fairness

(***************************************************************************)
(* Properties.                                                             *)
(***************************************************************************)

\* The type invariant of the table (ratelimit.go:225) and of who uses it.
TypeOK ==
  /\ clock \in 0..MaxClock
  /\ n \in [Keys -> Nat]
  /\ start \in [Keys -> Nat]
  /\ nextSweep \in Nat
  /\ pc \in [Requests -> {"idle", "called", "allowed", "refused"}]
  /\ addr \in [Requests -> Addrs]
  /\ class \in [Requests -> Classes]
  /\ now \in [Requests -> Nat]
  /\ timer \in {"idle", "called"}
  /\ timerNow \in Nat

\* The table never outgrows its bound, whatever networks requests come from
\* (Options.MaxKeys): the memory a flood can pin is bounded.
TableBounded == Cardinality(Tracked(n)) <= MaxKeys

\* The requests under k let through so far, and those in the Spell that starts
\* at t.  The disorder of clock values brings neighbouring windows closer by the
\* lag of the request that closes one and of the next to open one, so a Spell is
\* shorter than a window.
AdmittedUnder(k) == {r \in Requests : pc[r] = "allowed" /\ KeyOf(r) = k}

Spell == Window - 2 * Lag + 1
Admitted(k, t) == {r \in AdmittedUnder(k) : now[r] \in t..(t + Spell - 1)}

\* A fixed window lets a client issue "up to twice the limit across a window
\* boundary" (ratelimit.go:62), never more, whatever order the requests reach
\* the table in and whoever sweeps it between them.
AtMostTwiceTheLimit ==
  \A k \in Keys, t \in 0..MaxClock : Cardinality(Admitted(k, t)) <= 2 * Limit[k[2]]

\* A counter never counts beyond its limit.
WithinLimit == \A k \in Keys : n[k] <= Limit[k[2]]

\* Somebody else's traffic never costs a source its allowance, short of a table
\* full of live keys: a request refused though its window has room left found
\* the table full of entries none of which could be reclaimed.
RefusedForAReason ==
  [][\A r \in Requests :
       pc[r] = "called" /\ addr[r] \in Hosts /\ pc'[r] = "refused" =>
         \/ /\ n'[KeyOf(r)] >= Limit[class[r]]
            /\ Live(start[KeyOf(r)], now[r])
         \/ /\ n'[KeyOf(r)] = 0
            /\ Cardinality(Tracked(n')) = MaxKeys
            /\ \A k \in Tracked(n') : Live(start[k], now[r])]_vars

\* "Under traffic no entry outlives its window by more than one sweep interval"
\* (ratelimit.go:374): once a request has been counted, no entry in the table is
\* older than that, whether or not the timer has run.
NothingOutlivesItsWindow ==
  [][\A r \in Requests, k \in Keys :
       /\ pc[r] = "called" /\ addr[r] \in Hosts
       /\ pc'[r] \in {"allowed", "refused"}
       /\ n'[k] > 0
       => now[r] < start'[k] + Window + SweepInterval]_vars

\* An instance that goes quiet still forgets: every entry whose window elapses
\* is discarded or replaced, so at no time is it there for good, though no request
\* arrives (api.go:348).
EntriesAreForgotten ==
  \A k \in Keys, t \in 0..(MaxClock - Window) : []<>~(n[k] > 0 /\ start[k] = t)

(***************************************************************************)
(* The inductive invariant behind them.                                    *)
(***************************************************************************)

\* Clock values are from the past, and no older than Lag when they are used.
ValuesAreRecent ==
  /\ \A r \in Requests : pc[r] = "called" => now[r] <= clock /\ clock <= now[r] + Lag
  /\ timer = "called" => timerNow <= clock /\ clock <= timerNow + Lag

\* The next pass is at most an interval away, and every entry was live at the
\* last one or is younger.
ScheduleIsSound ==
  /\ nextSweep <= clock + SweepInterval
  /\ \A k \in Keys : n[k] > 0 => nextSweep < start[k] + Window + SweepInterval

\* The inductive invariant: every Allow and every Sweep (ratelimit.go:310-399)
\* keeps the bounds on the table and the promise its schedule makes.
IInv == TypeOK /\ TableBounded /\ WithinLimit /\ ValuesAreRecent /\ ScheduleIsSound

\* Of the requests under k let through, the current ones were counted in the open
\* window, and the earlier ones in windows that had elapsed by end, of which the
\* last one alone reaches into the Window before end.
Apart(k, current, end) ==
  LET earlier == AdmittedUnder(k) \ current
  IN  /\ Cardinality(current) <= n[k]
      /\ n[k] > 0 => start[k] <= clock /\ end <= start[k] + Lag
      /\ \A r \in current : end <= now[r] + Lag /\ now[r] < start[k] + Window
      /\ \A r \in earlier : now[r] < end
      /\ Cardinality({r \in earlier : end + Lag <= now[r] + Window}) <= Limit[k[2]]
      /\ \A t \in 0..MaxClock : Cardinality(Admitted(k, t) \ current) <= 2 * Limit[k[2]]

\* The history behind AtMostTwiceTheLimit, key by key.
ApartUnder(k) ==
  /\ IsFiniteSet(AdmittedUnder(k))
  /\ \E current \in SUBSET AdmittedUnder(k), end \in 0..clock : Apart(k, current, end)

WindowsAreApart == \A k \in Keys : ApartUnder(k)
=============================================================================
