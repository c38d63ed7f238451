----------------------------- MODULE SignalStore -----------------------------
(***************************************************************************)
(* The signal channel store, internal/signal/signal.go: a rendezvous that  *)
(* holds at most one blob per channel, hands it to exactly one reader and  *)
(* forgets it.                                                             *)
(*                                                                         *)
(* A process is one request: a POST or a GET, each served once by its own  *)
(* goroutine.  A request first reads the clock (internal/api/signal.go,    *)
(* lines 26 and 75) and enters the store later, a POST only once its body  *)
(* has arrived, so requests reach the lock in any order whatever clock     *)
(* values they carry.  Every critical section of Store.mu is one action.   *)
(*                                                                         *)
(* Names stand for pointers.  The blob of a POST is named by the POST, the *)
(* waiter struct of a GET by the GET, and a channel struct by the request  *)
(* that allocated it: each request allocates at most one of each.          *)
(*                                                                         *)
(* A definition headed "Variant" is a plausible slip in the definition     *)
(* that follows it; no specification uses it.  It is there for runs that   *)
(* show which property catches the slip.                                   *)
(***************************************************************************)
EXTENDS Naturals, FiniteSets

CONSTANTS
  Posts,        \* POST requests; also the blobs they carry
  Gets,         \* GET requests; also the waiters they register
  Ids,          \* channel_id path segments
  ValidIds,     \* those that decode to 32 bytes, each one channel key
  Oversized,    \* POSTs whose body exceeds Store.maxBlob
  TTL,          \* Store.ttl
  MaxWaiters,   \* Store.maxWaiters
  MaxPerChan,   \* Store.maxPerChan
  MinSweep,     \* minSweepChannels
  MaxClock,     \* bound on the clock
  None          \* the nil pointer, and "no blob"

Requests == Posts \cup Gets

\* New (signal.go:197) leaves no option unset, negative or zero.
ASSUME StoreAssumption ==
  /\ Posts \cap Gets = {}
  /\ None \notin Requests
  /\ None \notin Ids
  /\ ValidIds \subseteq Ids
  /\ IsFiniteSet(Ids)
  /\ Oversized \subseteq Posts
  /\ TTL \in Nat \ {0}
  /\ MaxWaiters \in Nat \ {0}
  /\ MaxPerChan \in Nat \ {0}
  /\ MinSweep \in Nat
  /\ MaxClock \in Nat

VARIABLES
  clock,       \* the directory's clock
  channels,    \* Store.channels: key -> channel struct, or None
  blob,        \* channel.blob of each channel struct
  waiters,     \* channel.waiters of each channel struct
  waiting,     \* Store.waiting
  sweepAt,     \* Store.sweepAt
  closed,      \* Store.closed, and Store.done being closed
  active,      \* waiter.active
  delivered,   \* waiter.delivered
  inbox,       \* waiter.c, a Go channel of capacity one
  pc,          \* where each request is
  id,          \* the channel_id each request names
  now,         \* the clock value each request carries
  ptr,         \* Get's local ch: the channel struct its waiter is in
  reply,       \* the SignalReason each request returned
  got          \* the blob each GET returned

mapVars    == <<channels, sweepAt>>
structVars == <<blob, waiters, waiting>>
waiterVars == <<active, delivered, inbox>>
callVars   == <<id, now>>
vars == <<clock, channels, blob, waiters, waiting, sweepAt, closed, active,
          delivered, inbox, pc, id, now, ptr, reply, got>>

PCs == {"idle", "called", "polling", "leaving", "done"}
Reasons == {"Stored", "Delivered", "Empty", "BadChannel", "TooLarge",
            "Conflict", "RateLimited"}

(***************************************************************************)
(* Helpers.                                                                *)
(***************************************************************************)

\* A blob expires a TTL after the clock value its POST carried.
ExpiresAt(p) == now[p] + TTL

\* channel.held: expiry is decided here, from the blob and the clock.
Held(ch, t) == blob[ch] # None /\ t < ExpiresAt(blob[ch])

\* The channel named k exists and holds a blob unexpired at t.
Occupied(m, k, t) == m[k] # None /\ Held(m[k], t)

\* len(s.channels)
Size(m) == Cardinality({k \in ValidIds : m[k] # None})

\* Variant: expiry forgotten when channels are reclaimed.
ReclaimableUnexpired(ch, t) == waiters[ch] = {}

\* sweepLocked: what is left of the map at t.
Reclaimable(ch, t) == waiters[ch] = {} /\ ~Held(ch, t)
SweepLocked(t) ==
  [k \in ValidIds |-> IF channels[k] # None /\ Reclaimable(channels[k], t)
                        THEN None ELSE channels[k]]

SweepDue == Size(channels) >= sweepAt

\* The map a POST works on: swept first when it has grown to the threshold.
MapFor(p) == IF SweepDue THEN SweepLocked(now[p]) ELSE channels

NextSweepAt(p) ==
  LET doubled == 2 * Size(MapFor(p))
  IN  IF ~SweepDue THEN sweepAt ELSE IF doubled < MinSweep THEN MinSweep ELSE doubled

\* Variant: a fresh struct whatever the map holds.
AlwaysFresh(m, r) == r

\* The struct a request works on: the one the map holds, or the one it allocates.
StructIn(m, r) == IF m[id[r]] = None THEN r ELSE m[id[r]]

\* Variant: holding a waiter is not part of the condition.
GcOnBlobAlone(m, k, b, ws) == IF b = None THEN [m EXCEPT ![k] = None] ELSE m

\* gcLocked: drop the key of a channel that holds neither a blob nor a waiter.
GcLocked(m, k, b, ws) == IF b = None /\ ws = {} THEN [m EXCEPT ![k] = None] ELSE m

Return(r, reason) ==
  /\ pc' = [pc EXCEPT ![r] = "done"]
  /\ reply' = [reply EXCEPT ![r] = reason]

\* An answer that touches nothing in the store.
TurnAway(r, reason) ==
  /\ Return(r, reason)
  /\ UNCHANGED <<clock, mapVars, structVars, closed, waiterVars, callVars, ptr, got>>

(***************************************************************************)
(* Initial state: New has run, no request has arrived.                     *)
(***************************************************************************)

Init ==
  /\ clock = 0
  /\ channels = [k \in ValidIds |-> None]
  /\ blob = [r \in Requests |-> None]
  /\ waiters = [r \in Requests |-> {}]
  /\ waiting = 0
  /\ sweepAt = MinSweep
  /\ closed = FALSE
  /\ active = [g \in Gets |-> FALSE]
  /\ delivered = [g \in Gets |-> FALSE]
  /\ inbox = [g \in Gets |-> None]
  /\ pc = [r \in Requests |-> "idle"]
  /\ id = [r \in Requests |-> None]
  /\ now = [r \in Requests |-> 0]
  /\ ptr = [g \in Gets |-> None]
  /\ reply = [r \in Requests |-> "none"]
  /\ got = [g \in Gets |-> None]

Tick ==
  /\ clock < MaxClock
  /\ clock' = clock + 1
  /\ UNCHANGED <<mapVars, structVars, closed, waiterVars, pc, callVars, ptr,
                 reply, got>>

\* The handler reads the clock; the store is entered in a later step.
Call(r) ==
  /\ pc[r] = "idle"
  /\ pc' = [pc EXCEPT ![r] = "called"]
  /\ \E k \in Ids : id' = [id EXCEPT ![r] = k]
  /\ now' = [now EXCEPT ![r] = clock]
  /\ UNCHANGED <<clock, mapVars, structVars, closed, waiterVars, ptr, reply, got>>

\* decodeChannelID fails: rejected before the lock is taken.
RejectBadChannel(r) ==
  /\ pc[r] = "called"
  /\ id[r] \notin ValidIds
  /\ TurnAway(r, "BadChannel")

(***************************************************************************)
(* Post.                                                                   *)
(***************************************************************************)

PostTooLarge(p) ==
  /\ pc[p] = "called"
  /\ id[p] \in ValidIds
  /\ p \in Oversized
  /\ TurnAway(p, "TooLarge")

\* A POST that has passed the checks made before the lock.
Posting(p) == pc[p] = "called" /\ id[p] \in ValidIds /\ p \notin Oversized

PostAfterShutdown(p) ==
  /\ Posting(p)
  /\ closed
  /\ TurnAway(p, "RateLimited")

PostConflicts(p) ==
  /\ Posting(p)
  /\ ~closed
  /\ Occupied(MapFor(p), id[p], now[p])
  /\ channels' = MapFor(p)
  /\ sweepAt' = NextSweepAt(p)
  /\ Return(p, "Conflict")
  /\ UNCHANGED <<clock, structVars, closed, waiterVars, callVars, ptr, got>>

\* Variants: the waiter not uncounted, not marked, or not sent to.
HandOverUncounted(p, ch, g) ==
  /\ waiters' = [waiters EXCEPT ![ch] = @ \ {g}]
  /\ active' = [active EXCEPT ![g] = FALSE]
  /\ delivered' = [delivered EXCEPT ![g] = TRUE]
  /\ inbox' = [inbox EXCEPT ![g] = p]
  /\ UNCHANGED waiting
HandOverUnmarked(p, ch, g) ==
  /\ waiters' = [waiters EXCEPT ![ch] = @ \ {g}]
  /\ active' = [active EXCEPT ![g] = FALSE]
  /\ waiting' = waiting - 1
  /\ inbox' = [inbox EXCEPT ![g] = p]
  /\ UNCHANGED delivered
HandOverUnsent(p, ch, g) ==
  /\ waiters' = [waiters EXCEPT ![ch] = @ \ {g}]
  /\ active' = [active EXCEPT ![g] = FALSE]
  /\ waiting' = waiting - 1
  /\ delivered' = [delivered EXCEPT ![g] = TRUE]
  /\ UNCHANGED inbox

\* takeWaiterLocked on struct ch, then the send into the waiter's inbox.
HandOver(p, ch, g) ==
  /\ waiters' = [waiters EXCEPT ![ch] = @ \ {g}]
  /\ active' = [active EXCEPT ![g] = FALSE]
  /\ waiting' = waiting - 1
  /\ delivered' = [delivered EXCEPT ![g] = TRUE]
  /\ inbox' = [inbox EXCEPT ![g] = p]

\* Any waiter g of the channel gets the blob, which is never stored.
PostHandsOver(p, g) ==
  LET m  == MapFor(p)
      ch == StructIn(m, p)
  IN
  /\ Posting(p)
  /\ ~closed
  /\ ~Occupied(m, id[p], now[p])
  /\ g \in waiters[ch]
  /\ HandOver(p, ch, g)
  /\ blob' = [blob EXCEPT ![ch] = None]
  /\ channels' = GcLocked(m, id[p], None, waiters[ch] \ {g})
  /\ sweepAt' = NextSweepAt(p)
  /\ Return(p, "Stored")
  /\ UNCHANGED <<clock, closed, callVars, ptr, got>>

\* Variant: last write wins.
PostOverwrites(p) ==
  LET m  == MapFor(p)
      ch == StructIn(m, p)
  IN
  /\ Posting(p)
  /\ ~closed
  /\ waiters[ch] = {}
  /\ blob' = [blob EXCEPT ![ch] = p]
  /\ channels' = [m EXCEPT ![id[p]] = ch]
  /\ sweepAt' = NextSweepAt(p)
  /\ Return(p, "Stored")
  /\ UNCHANGED <<clock, waiters, waiting, closed, waiterVars, callVars, ptr, got>>

PostStores(p) ==
  LET m  == MapFor(p)
      ch == StructIn(m, p)
  IN
  /\ Posting(p)
  /\ ~closed
  /\ ~Occupied(m, id[p], now[p])
  /\ waiters[ch] = {}
  /\ blob' = [blob EXCEPT ![ch] = p]
  /\ channels' = [m EXCEPT ![id[p]] = ch]
  /\ sweepAt' = NextSweepAt(p)
  /\ Return(p, "Stored")
  /\ UNCHANGED <<clock, waiters, waiting, closed, waiterVars, callVars, ptr, got>>

Post(p) ==
  \/ PostTooLarge(p)
  \/ PostAfterShutdown(p)
  \/ PostConflicts(p)
  \/ \E g \in Gets : PostHandsOver(p, g)
  \/ PostStores(p)

(***************************************************************************)
(* Get, up to the point where it waits.                                    *)
(***************************************************************************)

Getting(g) == pc[g] = "called" /\ id[g] \in ValidIds

GetAfterShutdown(g) ==
  /\ Getting(g)
  /\ closed
  /\ TurnAway(g, "RateLimited")

\* Variant: delivery that is not destructive.
GetReads(g) ==
  /\ Getting(g)
  /\ ~closed
  /\ Occupied(channels, id[g], now[g])
  /\ got' = [got EXCEPT ![g] = blob[channels[id[g]]]]
  /\ Return(g, "Delivered")
  /\ UNCHANGED <<clock, mapVars, structVars, closed, waiterVars, callVars, ptr>>

GetTakes(g) ==
  LET ch == channels[id[g]]
  IN
  /\ Getting(g)
  /\ ~closed
  /\ Occupied(channels, id[g], now[g])
  /\ got' = [got EXCEPT ![g] = blob[ch]]
  /\ blob' = [blob EXCEPT ![ch] = None]
  /\ channels' = GcLocked(channels, id[g], None, waiters[ch])
  /\ Return(g, "Delivered")
  /\ UNCHANGED <<clock, waiters, waiting, sweepAt, closed, waiterVars, callVars, ptr>>

\* Variant: an off-by-one in the instance-wide cap.
OverCapacity(g) ==
  \/ waiting > MaxWaiters
  \/ /\ channels[id[g]] # None
     /\ Cardinality(waiters[channels[id[g]]]) >= MaxPerChan

\* registerLocked's two caps.
AtCapacity(g) ==
  \/ waiting >= MaxWaiters
  \/ /\ channels[id[g]] # None
     /\ Cardinality(waiters[channels[id[g]]]) >= MaxPerChan

\* An expired blob is dropped before the caps are looked at; nothing is created.
GetRefused(g) ==
  /\ Getting(g)
  /\ ~closed
  /\ ~Occupied(channels, id[g], now[g])
  /\ AtCapacity(g)
  /\ blob' = [ch \in Requests |-> IF ch = channels[id[g]] THEN None ELSE blob[ch]]
  /\ Return(g, "RateLimited")
  /\ UNCHANGED <<clock, mapVars, waiters, waiting, closed, waiterVars, callVars, ptr, got>>

\* Variant: the expired blob not dropped.
GetRegistersBeside(g) ==
  LET ch == StructIn(channels, g)
  IN
  /\ Getting(g)
  /\ ~closed
  /\ ~Occupied(channels, id[g], now[g])
  /\ ~AtCapacity(g)
  /\ channels' = [channels EXCEPT ![id[g]] = ch]
  /\ waiters' = [waiters EXCEPT ![ch] = @ \cup {g}]
  /\ waiting' = waiting + 1
  /\ active' = [active EXCEPT ![g] = TRUE]
  /\ ptr' = [ptr EXCEPT ![g] = ch]
  /\ pc' = [pc EXCEPT ![g] = "polling"]
  /\ UNCHANGED <<clock, blob, sweepAt, closed, delivered, inbox, callVars, reply, got>>

GetRegisters(g) ==
  LET ch == StructIn(channels, g)
  IN
  /\ Getting(g)
  /\ ~closed
  /\ ~Occupied(channels, id[g], now[g])
  /\ ~AtCapacity(g)
  /\ blob' = [blob EXCEPT ![ch] = None]
  /\ channels' = [channels EXCEPT ![id[g]] = ch]
  /\ waiters' = [waiters EXCEPT ![ch] = @ \cup {g}]
  /\ waiting' = waiting + 1
  /\ active' = [active EXCEPT ![g] = TRUE]
  /\ ptr' = [ptr EXCEPT ![g] = ch]
  /\ pc' = [pc EXCEPT ![g] = "polling"]
  /\ UNCHANGED <<clock, sweepAt, closed, delivered, inbox, callVars, reply, got>>

Get(g) ==
  \/ GetAfterShutdown(g)
  \/ GetTakes(g)
  \/ GetRefused(g)
  \/ GetRegisters(g)

(***************************************************************************)
(* Get, from the select on.                                                *)
(***************************************************************************)

\* The goroutine takes what is in its inbox.
Receive(g) ==
  /\ inbox[g] # None
  /\ got' = [got EXCEPT ![g] = inbox[g]]
  /\ inbox' = [inbox EXCEPT ![g] = None]
  /\ Return(g, "Delivered")
  /\ UNCHANGED <<clock, mapVars, structVars, closed, active, delivered, callVars, ptr>>

PollReceives(g) == pc[g] = "polling" /\ Receive(g)

Wake(g) ==
  /\ pc[g] = "polling"
  /\ pc' = [pc EXCEPT ![g] = "leaving"]
  /\ UNCHANGED <<clock, mapVars, structVars, closed, waiterVars, callVars, ptr,
                 reply, got>>

\* The poll window has passed, or the client has gone and cancelled the
\* context: either can come at any moment, whatever else has become ready.
PollTimesOut(g) == Wake(g)

\* Variant: Store.done is never closed.
PollIgnoresDone(g) == FALSE /\ Wake(g)

PollSeesDone(g) == closed /\ Wake(g)

\* The losing arms converge.  A waiter already handed a blob receives it, and
\* would block here for ever were its inbox empty.
LeaveWithBlob(g) == pc[g] = "leaving" /\ delivered[g] /\ Receive(g)

\* Variant: releases a waiter Shutdown has already released.
ReleaseTwice(g) ==
  LET ch == ptr[g]
  IN
  /\ active' = [active EXCEPT ![g] = FALSE]
  /\ waiters' = [waiters EXCEPT ![ch] = @ \ {g}]
  /\ waiting' = waiting - 1
  /\ channels' = GcLocked(channels, id[g], blob[ch], waiters[ch] \ {g})

\* A no-op on a waiter Shutdown has already released.
ReleaseLocked(g) ==
  LET ch == ptr[g]
  IN
  IF active[g]
    THEN /\ active' = [active EXCEPT ![g] = FALSE]
         /\ waiters' = [waiters EXCEPT ![ch] = @ \ {g}]
         /\ waiting' = waiting - 1
         /\ channels' = GcLocked(channels, id[g], blob[ch], waiters[ch] \ {g})
    ELSE UNCHANGED <<active, waiters, waiting, channels>>

LeaveEmpty(g) ==
  /\ pc[g] = "leaving"
  /\ ~delivered[g]
  /\ ReleaseLocked(g)
  /\ Return(g, IF closed THEN "RateLimited" ELSE "Empty")
  /\ UNCHANGED <<clock, blob, sweepAt, closed, delivered, inbox, callVars, ptr, got>>

Leave(g) == LeaveWithBlob(g) \/ LeaveEmpty(g)

(***************************************************************************)
(* Shutdown.  A second call returns at once: it is a stuttering step.      *)
(***************************************************************************)

\* Variant: the channels are not dropped.
ShutdownKeepsChannels ==
  /\ ~closed
  /\ closed' = TRUE
  /\ active' = [g \in Gets |-> FALSE]
  /\ waiters' = [ch \in Requests |-> {}]
  /\ waiting' = 0
  /\ UNCHANGED <<clock, channels, blob, sweepAt, delivered, inbox, pc, callVars, ptr, reply, got>>

Shutdown ==
  LET mapped == {channels[k] : k \in ValidIds} \ {None}
  IN
  /\ ~closed
  /\ closed' = TRUE
  /\ active' = [g \in Gets |-> active[g] /\ \A ch \in mapped : g \notin waiters[ch]]
  /\ waiters' = [ch \in Requests |-> IF ch \in mapped THEN {} ELSE waiters[ch]]
  /\ channels' = [k \in ValidIds |-> None]
  /\ waiting' = 0
  /\ UNCHANGED <<clock, blob, sweepAt, delivered, inbox, pc, callVars, ptr, reply, got>>

(***************************************************************************)
(* The specification.                                                      *)
(***************************************************************************)

\* Every request answered, the store shut down: nothing is left to happen.
Finished ==
  /\ closed
  /\ clock = MaxClock
  /\ \A r \in Requests : pc[r] = "done"
  /\ UNCHANGED vars

Next ==
  \/ Tick
  \/ \E r \in Requests : Call(r) \/ RejectBadChannel(r)
  \/ \E p \in Posts : Post(p)
  \/ \E g \in Gets : Get(g) \/ PollReceives(g) \/ PollTimesOut(g)
                       \/ PollSeesDone(g) \/ Leave(g)
  \/ Shutdown
  \/ Finished

Spec == Init /\ [][Next]_vars

\* A runnable goroutine is scheduled, and sync.Mutex does not starve it.
GoroutineFairness ==
  /\ \A r \in Requests : WF_vars(RejectBadChannel(r))
  /\ \A p \in Posts : WF_vars(Post(p))
  /\ \A g \in Gets : WF_vars(Get(g) \/ PollReceives(g) \/ PollSeesDone(g) \/ Leave(g))

\* The timer of a poll fires: PollWindow is never more than 30 seconds.
TimerFairness == \A g \in Gets : WF_vars(PollTimesOut(g))

\* Nothing makes a timer fire: a poll may wait for a hand-over or shutdown.
LiveSpec == Spec /\ GoroutineFairness

(***************************************************************************)
(* Properties.                                                             *)
(***************************************************************************)

\* The type invariant of Store, channel, waiter and the requests' locals
\* (signal.go:148-193); Store.waiting never goes negative.
TypeOK ==
  /\ clock \in 0..MaxClock
  /\ channels \in [ValidIds -> Requests \cup {None}]
  /\ blob \in [Requests -> Posts \cup {None}]
  /\ waiters \in [Requests -> SUBSET Gets]
  /\ waiting \in Nat
  /\ sweepAt \in Nat
  /\ closed \in BOOLEAN
  /\ active \in [Gets -> BOOLEAN]
  /\ delivered \in [Gets -> BOOLEAN]
  /\ inbox \in [Gets -> Posts \cup {None}]
  /\ pc \in [Requests -> PCs]
  /\ id \in [Requests -> Ids \cup {None}]
  /\ now \in [Requests -> 0..MaxClock]
  /\ ptr \in [Gets -> Requests \cup {None}]
  /\ reply \in [Requests -> Reasons \cup {"none"}]
  /\ got \in [Gets -> Posts \cup {None}]

\* A reader never waits beside a blob it could have had: whatever order stale
\* POSTs and GETs reach the lock in, a channel with a waiter holds no blob
\* (Post hands over before it stores, Get drops an expired blob before it
\* registers).
NoBlobBesideAWaiter ==
  \A k \in ValidIds :
    channels[k] # None => blob[channels[k]] = None \/ waiters[channels[k]] = {}

\* "Membership of a channel's waiter set is the single source of truth"
\* (signal.go:38): a waiter is active exactly while it is in the waiter set of
\* the struct its key maps to, and that struct is the one Get kept a pointer
\* to.  A struct replaced or collected under a waiter would break this, and so
\* would a waiter left behind by a request that has returned.
WaiterSetIsTheTruth ==
  \A g \in Gets :
    /\ active[g] => /\ pc[g] \in {"polling", "leaving"}
                    /\ channels[id[g]] = ptr[g]
                    /\ g \in waiters[ptr[g]]
    /\ \A k \in ValidIds :
         channels[k] # None /\ g \in waiters[channels[k]] => active[g] /\ id[g] = k

\* Store.waiting counts the waiters that are really waiting, however each of
\* them stopped; it never drifts, so the instance-wide cap never leaks.
WaitingIsExact == waiting = Cardinality({g \in Gets : active[g]})

\* Both caps hold at every moment, shutdown and hand-overs included.
CapsHold ==
  /\ waiting <= MaxWaiters
  /\ \A k \in ValidIds :
       channels[k] # None => Cardinality(waiters[channels[k]]) <= MaxPerChan

\* A waiter marked delivered can take its blob at once until it returns: the
\* receive at signal.go:378, made without the lock, cannot block.
NoReceiveBlocks ==
  \A g \in Gets :
    pc[g] \in {"polling", "leaving"} => (delivered[g] <=> inbox[g] # None)

\* The places a blob can be in: stored in a channel, on its way to a reader
\* that has yet to return, returned by a reader.
Places(p) ==
  {<<"stored", k>> : k \in {k \in ValidIds : channels[k] # None /\ blob[channels[k]] = p}}
    \cup {<<"inbox", g>> : g \in {g \in Gets : pc[g] # "done" /\ inbox[g] = p}}
    \cup {<<"got", g>> : g \in {g \in Gets : got[g] = p}}

\* "The blob exists in one place at a time" (signal.go:30), and a POST that
\* was refused put its blob nowhere.
BlobInOnePlace ==
  \A p \in Posts :
    /\ Cardinality(Places(p)) <= 1
    /\ reply[p] # "Stored" => Places(p) = {}

\* A POST answered "stored" is not lost: until its TTL has passed or the
\* store is shut down, its blob is in the channel it named, or a reader of that
\* channel has it, even one that timed out or went away as it was handed over.
NoBlobLost ==
  \A p \in Posts :
    reply[p] = "Stored" /\ clock < ExpiresAt(p) /\ ~closed =>
      \/ channels[id[p]] # None /\ blob[channels[id[p]]] = p
      \/ \E g \in Gets : id[g] = id[p] /\ (got[g] = p \/ (pc[g] # "done" /\ inbox[g] = p))

\* After Shutdown the store holds nothing and nobody: no later POST stores, no
\* later GET registers, and no waiter still leaving puts a channel back.
ClosedStoreIsEmpty ==
  closed => /\ waiting = 0
            /\ \A k \in ValidIds : channels[k] = None
            /\ \A g \in Gets : ~active[g]

\* What two comments say of a poll that shutdown ends: "Both return SignalEmpty"
\* (signal.go:314), Drain "turns every open poll into the 204"
\* (internal/api/api.go:321).  The code answers RateLimited (signal.go:388).
DrainedPollsAnswerEmpty ==
  \A g \in Gets : pc[g] = "done" /\ ptr[g] # None /\ got[g] = None => reply[g] = "Empty"

\* The blob stored under k, and a step in which p ceases to be it.
StoredIn(k) == IF channels[k] = None THEN None ELSE blob[channels[k]]
Leaves(k, p) == StoredIn(k) = p /\ StoredIn(k)' # p

\* First write wins: a step that ends the stay of an unexpired blob in its
\* channel is Shutdown, or hands the blob to a reader that had none: never
\* another POST's doing, nor a sweep's, however stale the clock it carries.
FirstWriteWins ==
  [][\A k \in ValidIds, p \in Posts :
       Leaves(k, p) /\ clock < ExpiresAt(p)
         => closed' \/ \E g \in Gets : id[g] = k /\ got[g] = None /\ got'[g] = p]_vars

\* Every request is answered, however it races others, if its timer fires: no
\* poll is left waiting, no handler blocks on an inbox.
EveryRequestReturns ==
  TimerFairness => \A r \in Requests : (pc[r] = "called") ~> (pc[r] = "done")

\* A graceful shutdown never waits for a poll's deadline: once the store is
\* closed every poll returns though no timer fires (signal.go:393).
ShutdownReleasesPolls ==
  \A g \in Gets : (closed /\ pc[g] \in {"called", "polling", "leaving"}) ~> (pc[g] = "done")

\* A reader that has been handed a blob returns it, though no timer fires.
HandOverArrives ==
  \A g \in Gets, p \in Posts : (inbox[g] = p) ~> (got[g] = p)

(***************************************************************************)
(* The inductive invariant behind the properties above, in named parts.    *)
(* It speaks of every struct, those the map has dropped included.          *)
(***************************************************************************)

Arrived(r) == pc[r] \notin {"idle", "called"}

\* A struct is in the map under the key its creator named, if at all, and is
\* as allocated until its creator has been served.
StructsWellFormed ==
  /\ \A k \in ValidIds : channels[k] # None => Arrived(channels[k]) /\ id[channels[k]] = k
  /\ \A r \in Requests : ~Arrived(r) => blob[r] = None /\ waiters[r] = {}
  /\ \A r \in Requests : pc[r] = "polling" \/ pc[r] = "leaving" => r \in Gets

\* The waiter sets are what the waiters' own fields say they are.
WaitersWellFormed ==
  /\ \A ch \in Requests : waiters[ch] = {g \in Gets : active[g] /\ ptr[g] = ch}
  /\ IsFiniteSet({g \in Gets : active[g]})
  /\ \A g \in Gets : active[g] => /\ pc[g] \in {"polling", "leaving"}
                                  /\ ptr[g] # None
                                  /\ id[g] \in ValidIds
                                  /\ channels[id[g]] = ptr[g]
                                  /\ ~delivered[g]
  /\ \A ch \in Requests : blob[ch] = None \/ waiters[ch] = {}

InboxesWellFormed ==
  \A g \in Gets :
    /\ inbox[g] # None <=> delivered[g] /\ pc[g] \in {"polling", "leaving"}
    /\ ~Arrived(g) => ~delivered[g]
    /\ got[g] # None => pc[g] = "done"

\* A blob is in one struct, one inbox or one answer, its POST was answered
\* "stored", and it is where its channel_id says.
BlobsWellFormed ==
  /\ \A a, b \in Requests : blob[a] = blob[b] /\ blob[a] # None => a = b
  /\ \A g, h \in Gets : inbox[g] = inbox[h] /\ inbox[g] # None => g = h
  /\ \A g, h \in Gets : got[g] = got[h] /\ got[g] # None => g = h
  /\ \A a \in Requests, g \in Gets :
       blob[a] # None => blob[a] # inbox[g] /\ blob[a] # got[g]
  /\ \A g, h \in Gets : inbox[g] # None => inbox[g] # got[h]
  /\ \A a \in Requests : blob[a] # None =>
       reply[blob[a]] = "Stored" /\ id[blob[a]] = id[a]
  /\ \A g \in Gets : inbox[g] # None => reply[inbox[g]] = "Stored" /\ id[inbox[g]] = id[g]
  /\ \A g \in Gets : got[g] # None => reply[got[g]] = "Stored" /\ id[got[g]] = id[g]

RepliesWellFormed ==
  /\ \A r \in Requests : reply[r] # "none" <=> pc[r] = "done"
  /\ \A r \in Requests : now[r] <= clock
  /\ \A r \in Requests : reply[r] = "Stored" => id[r] \in ValidIds

\* The inductive invariant: with it every step of Post, Get and Shutdown
\* (signal.go:245-423) keeps the properties it contains.
IInv ==
  /\ TypeOK
  /\ StructsWellFormed
  /\ WaitersWellFormed
  /\ InboxesWellFormed
  /\ BlobsWellFormed
  /\ RepliesWellFormed
  /\ WaitingIsExact
  /\ CapsHold
  /\ ClosedStoreIsEmpty
  /\ NoBlobLost

=============================================================================
