# TLA+ models of trigstationd

trigstationd is a directory server: publishers store signed, expiring records
under a hash (`PUT /v1/record`), clients look them up by a short bit prefix
(`GET /v1/record`), and two devices meet through in-memory one-shot channels
(`/v1/signal/{channel_id}`). Everything is rate limited by truncated source
network. This directory holds TLA+ models of the server, of its process and of
the tool that checks a deployment, the TLC runs that check them and TLAPS proofs
of their main properties.

## Inventory

| Component | State | Operations | Hard behaviour |
|---|---|---|---|
| signal channel store, `internal/signal` | map of channel structs (blob, expiry, waiter set), waiter count, sweep threshold, closed flag | `Post`, `Get` (long poll), `Shutdown`, sweep inside `Post` | hand-over against time-out, disconnect and shutdown; pointers kept across the unlock; out-of-order clock values; two caps |
| rate limiter, `internal/ratelimit` | counters per (network, class), next sweep | `Allow`, `Sweep` | out-of-order clock values; the window boundary; a full table; quiet instances |
| record store, `internal/store` | SQLite table, one row per `lookup_id` | `Put` (one upsert), `ByPrefix`, `Count`, `Sweep` | replays, stale clock values, sweeps between two statements, crashes between commit and answer |
| record acceptance, `internal/accept` | none | `Check`: ten ordered conditions | the order, which four functions share; sums of configured limits in 64 bits |
| prefix query, `internal/query` | none | `Parse`, `Cap`, `Range`, `Matches` | masks of partial bytes, queries wider than the column |
| client address, `internal/clientaddr` | trusted prefixes | `Addr`: walk of `X-Forwarded-For` | which entry may be believed |
| HTTP handlers, `internal/api` | none of their own | six routes, `Drain`, `SweepRecords`, `SweepLimiter` | one clock value per request, read before the body |
| status codes, `internal/reject` | none | reason to HTTP status | |
| lifecycle, `main.go` | two tickers, listener, signal context, database handle | `run`, `serve`, `startSweeps` | order of drain, shutdown, joins and close against requests and sweeps in flight |
| encodings and cryptography, `internal/{b64,pow,derive,record}` | none | pure functions of bytes | |
| deployment checker, `cmd/trigcheck` | one run of a publisher or a client | publish, verify | clocks that disagree, a slow proof of work, PUTs that outlive their sender, records that expire between two requests |
| vector generators | none | test data | |

Requests run in goroutines of `net/http`. Each handler reads the clock once, at
its start, asks the limiter, may read a body, and then calls one store, which
takes its own mutex (or runs SQL statements). So the stores see clock values in
any order. One goroutine serves both sweep timers. `Drain` closes the signal
store before the listener is shut down.

What makes each component correct: *signal*: a blob is delivered to at most one
reader, never overwritten, never lost before its TTL, and no poll hangs;
*limiter*: bounded table, bounded admission, forgetting; *records*: an
acknowledged record is found until it expires and is never rolled back;
*decisions*: the documented condition decides, and limits hold as integers;
*lifecycle*: the process ends when asked to, and an exit code of 0 means that no
request was cut off but one that met the closing of its idle connection; *checker*: a success is authentic and a failure has a cause
in the configuration, the clocks or the table.

## Modules

| Module | Models |
|---|---|
| `SignalStore` | `internal/signal/signal.go`; one action per critical section |
| `Rendezvous` | the contract of the signal store: one-place buffers, waiting readers |
| `SignalRefinement` | the mapping from `SignalStore` to `Rendezvous` |
| `SignalSweep` | `SignalStore` with a memory of what sweeps took away |
| `RateLimiter` | `internal/ratelimit/ratelimit.go`, `Server.allow`, `Server.SweepLimiter` |
| `RecordStore` | `internal/store/store.go` under `handlePutRecord`, `handleGetRecord`, `handleMeta`, `SweepRecords` and restarts |
| `Powers` | `b^n` as a recursive function, which can be reasoned about |
| `ClientAddr` | `internal/clientaddr`: the trusted list and the walk |
| `Accept` | `handlePutRecord`'s read, `internal/accept`, the fields of `internal/record`, `internal/b64`, `pow.Verify`, the record statuses of `internal/reject` |
| `PrefixQuery` | `internal/query`, the column of `internal/store/prefix.go`, `prefixBits` and `prefixHex` of trigcheck |
| `Directory` | the handlers of `internal/api` over these three, as functions of the table and the request |
| `Decisions` | a machine that asks them one question at a time |
| `Trigcheck` | `cmd/trigcheck` against `Directory`'s handlers |
| `Lifecycle` | `main.go`: `run`, `serve`, `startSweeps`, with `net/http` as they use it |
| `SignalStoreProofs`, `RateLimiterProofs`, `RecordStoreProofs`, `DecisionsProofs`, `LifecycleProofs`, `TrigcheckProofs` | theorems and proofs |
| `DirectoryProofs`, `PowersProofs` | lemmas they cite: about `Check` and its sums and about what a prefix query selects; about powers and division |
| `MC*` and `*.cfg` | instances for TLC |

Definitions headed "Variant" are plausible slips in the definition that follows
them. No specification uses them; replacing the definition by its variant shows
that a property notices the slip.

### SignalStore

A process is one request, served once. `Call` is the handler's clock reading;
everything after it happens at any later time, so requests overtake each other
as they do between `s.now()` and the lock (a POST reads its body in between).
The limiter in front of the store is not repeated here: a request it refuses
never enters.

Names stand for pointers: a blob is named by its POST, a waiter by its GET, a
channel struct by the request that allocated it. `channels` is the map,
`blob`/`waiters` the fields of each struct (also of structs the map has dropped,
which a `Get` may still point to through `ptr`), `active`/`delivered`/`inbox` the
waiter. `Post` is five actions, one for each way it can end, each with the sweep
that may come first. `Get` is the critical section before the select
(`GetAfterShutdown`, `GetTakes`, `GetRefused`, `GetRegisters`), one action per
select arm (`PollReceives`, `PollTimesOut`, `PollSeesDone`), and the second
critical section (`LeaveWithBlob`, `LeaveEmpty`). When several arms are ready any
of them may win, as in Go. A cancelled context and an expired timer are the same
action.

A `Get` refused at a cap on a channel with an expired blob drops the blob and
leaves an empty channel in the map until a later sweep (signal.go:351); the model
does so too.

### RateLimiter

`n[k]` and `start[k]` are the counter of key `k` (0 when absent). Each way out of
`Allow` is an action. `Current` is the table after the scheduled sweep,
`MadeRoom` after the one a full table causes. Clock values may be used up to
`Lag` ticks after they are read: only scheduling lies between. The monotonic
reading of `time.Time` never goes back, so `clock` does not.

### RecordStore

A row is named by the publish that wrote it; an envelope is its `lookup_id` and
its `expires_at`. One SQL statement is one action: SQLite serialises writers, and
`putSQL` is a single statement. `PutLost` is a statement that commits although
the client never hears of it (a disconnect, an error after the commit, a crash).
`Refuse` stands for all refusals that leave the table alone. `Restart` forgets what
was in flight and keeps the table: the database is a file (with `:memory:` there
is nothing to keep, and the model does not apply). The clock is `time.Now().Unix()`
and is assumed not to be set back. `Common[i][j]` says how many leading bits two
identifiers share; `Range`, the 32-bit column and the final `Matches` together are
"at least `bits` in common" (`PrefixSelectsExactly` is about that step).

### ClientAddr, Accept, PrefixQuery, Directory and Decisions

Pure functions, so the modules hold operators and `Decisions` asks them
questions: one action per kind of question, and properties that compare an
answer with a definition that does not follow the code's steps (`Order` and
`Fails`, `WithinLimits`, `Covers`, `BitAt`).

A body is what the code can tell of one: its length, its JSON and member names,
how its text members are spelled, and what SHA-256 and Ed25519 say of its values.
Integers are those of 64 bits scaled down to `2 * Half` values, with the sums of
`Check` and of the bounded read wrapped where the code adds. Addresses are words
of `W4` and `W6` bits, so that every prefix of every length can be tried; netip's
operations are external, written from their documentation, and `Hosts` and
`Blocks` are the addresses and the prefixes its types can hold (`Fields` what a
header entry can parse to). `Walk` is
`walk`/`lastEntry`; `rightmostEntry` is called by nothing and has no definition
here. `ParseQuery` keeps `Parse`'s order of refusals; characters are the values of
digits, or `NotHex`.

`SignalAnswer` is the router, the two handlers and the status table for one
request to a channel, with what the store says as an argument: the store itself
is `SignalStore`. A HEAD is served as a GET by `http.ServeMux`.

### Trigcheck

Publishers and one client run against a directory whose handlers are
`Directory`'s. `Build` is everything `runPublish` does with the clock value it
read; `Solved` is the end of the proof of work, an interruption or the size check;
from then on the PUT is on the wire and arrives, is lost or is lost after it was
served (`Arrives`, `PutLost`), whether or not its sender still waits (`GivesUp`,
the 30-second context of `do`). `Meta`, `Asks` and `LooksUp` are the steps of
`runVerify`. A directory that is not `honest` answers a lookup with any envelopes
ever built (`IsAnswered`). Derivations, sealing and signatures are free
constructors: equal exactly when their arguments are.

### Lifecycle

`stage` is where `run` and `serve` are; the listener and the sweep goroutines, the
signal context and each connection have a state of their own. `Return` and
`CloseStore` are the deferred `Close` and the end of `main`. `ClosePass` is one
round of `http.Server.Shutdown`, which closes connections that are not active and
returns when nothing else is left; a request that was read in that instant runs
on without anybody to answer (`orphan`). `GraceExpires` is the ten-second context.
A signal before `NotifyContext`, or after `stop()`, kills the process.

## Runs

| Run | Instance | Checks |
|---|---|---|
| `signal_store` | 3 POSTs, 2 GETs, 2 channels, caps of 1, clock 0..2, TTL 1, threshold 2 | delivery, first write wins, no loss, refinement of `Rendezvous`; a sweep misleads only a request that was overtaken |
| `signal_waiters` | 1 POST, 4 GETs, 2 channels, room for 3 waiters and for 2 on a channel, clock 0..1 | waiter accounting, both caps |
| `signal_live` | 3 POSTs (one oversized), 2 GETs, a malformed id, caps of 2 | every request returns; shutdown frees polls; a blob handed over arrives |
| `signal_sweep_claim` | 3 POSTs, 1 GET, 2 channels, threshold 1 | *violated*: "running or not running this changes no observable behaviour" |
| `signal_drained_poll` | 2 POSTs, 2 GETs, 1 channel | *violated*: a poll ended by shutdown returns SignalEmpty |
| `limiter` | 5 requests, one of them from anywhere and four from one source, 2 networks, an invalid address, room for 1 key, limit 2, window 3, sweep interval 2, clock 0..5, values out of order by 1 | bound, at most twice the limit in a spell, reasons for refusal, forgetting with and without traffic |
| `records` | 2 publishes, 2 lookups, 2 identifiers, clock 0..1, expiries 1..2, 1 restart | acknowledged records are kept and found; no rollback; monotonic reads |
| `decisions` | publishes with combinations of faults under five configurations, 7 bits for 64; every request to a channel; every field a trusted list can have and lists of two, 13 peers, headers of up to 2 entries with up to 2 more to their left; every prefix of a 12-bit identifier | first failure decides; limits hold as integers; left entries do not count; trust is as written, wide blocks apart; prefixes select exactly |
| `wide_blocks` | lists of an IPv4 default route and a mapped prefix broader than the mapped range, IPv6 peers, headers of up to 1 entry | *violated*: a list of such blocks leaves every request with its peer's address |
| `trigcheck` | 2 publishers under one secret (the second with its own identity and a fast clock), 2 publishes, 1 client, clock 2..4, epochs of 2, four other records of which three lapse, four directories | a success is authentic; verdicts and refusals are explained |
| `lifecycle` | 3 connections | no sweep after close, no poll holds the shutdown, a clean exit is clean, the process ends |
| `lookup_over_precise` | 4 records expiring together, 1 lookup, k_min 1, client k 2 | *violated*: a conforming client is never refused as over-precise |

Why the bounds suffice. A race in the signal store involves one channel, one or
two writers and one or two readers; the second channel is there for the sweep,
which touches channels the POST did not name, and two ticks let a blob expire
under a request that read the clock before. Four readers are one more than the
instance has room for and two more than a channel has, so either cap refuses one
that the other would admit. In the limiter five requests are one more than twice a
limit of two, a table of one key is at its bound at once, and five ticks are what it
takes for an entry to outlive its window by a sweep interval. Requests are alike, so
they call in a fixed order, which only `Call` notices: it is the one action cut, and
no fairness is asked of it (a symmetry set would not do for liveness). The third
request alone may come from elsewhere: it finds requests of the other source before
it and after it, clock values out of order let either overtake it, and which of the
two networks is which makes no difference. Two publishes
under one identifier are what the recency rule compares; one tick separates a
stale clock value from a fresh one. `signal_live` freezes the clock (expiry plays
no part in who is woken) and uses no symmetry, which TLC does not support for
liveness. Symmetry elsewhere permutes requests, channels and identifiers, which
no definition tells apart. In `decisions` every boundary (the last byte of a
column, the mapped range, one byte over a limit, the top of the integers) lies
inside the scaled-down words; a fault model of several faults at once is what an
order can get wrong. In `trigcheck` two runs are what it takes for one publish to
meet another, three ticks let a record, an epoch or a proof of work end between
any two steps, and k 2 against k_min 1 leaves the margin the code has. Three
connections have one handler each of the kinds that matter: a statement, a poll, a
reply. `AtMostTwiceTheLimit` speaks of spells of
`Window - 2 * Lag + 1` ticks: with clock values out of order by `Lag`, a window can
begin that much before the last request of the one before, and end that much
before its own. The figure is exact. With a limit of 2, a window of 3 and a lag of 1,
a window that began at 0 lets in a request of 2; a sweep at 3 ends it, and two
requests that read 2 before make the next one; a sweep at 5 ends that, and two that
read 4 make a third: five in the three ticks 2 to 4, where a spell is two.

Fairness. `signal_live` assumes that runnable goroutines are scheduled and that
the mutex does not starve them (`GoroutineFairness`: weak fairness of each
request's own steps). Nothing forces a poll's timer to fire except in
`EveryRequestReturns`, which assumes it (`TimerFairness`), because `s.poll` is
clamped to 30 seconds. So `ShutdownReleasesPolls` and `HandOverArrives` hold
without timers, which is their point. `limiter` assumes that time passes,
that the ticker keeps firing and that requests and sweeps in progress finish.
`lifecycle` assumes that the main goroutine, the listener and a sweep in progress
go on (weak fairness of `Main`, `ListenerClosed`, `SweepEnds`), that the timer of
the grace fires (`GraceExpires`), and strong fairness of `SweeperStops`: Go's select
picks at random among ready cases, so a done context is not passed over for ever.
It assumes nothing of clients, handlers or the poll timer.

### What the violated runs show

* **A drained poll is answered 429.** `Get` reads `closed` under the lock and
  returns `SignalRateLimited`; `Get`'s own comment, `Drain`'s and
  `handleGetSignal`'s promise a 204. (The comment of `Shutdown` agrees with the
  code.)
* **The sweep can be seen.** POST *a* reads the clock, POST *b* reads it later,
  gets the lock first and sweeps a channel whose blob is unexpired by *a*'s clock
  and expired by its own; *a* is then stored instead of refused. Harmless, but not
  "no observable behaviour". The passing companion bounds it: only a request
  that was overtaken is affected. The record sweep has the same property with
  respect to store.go:26-34.
* **A conforming client can be refused as over-precise.** The count that sizes
  the prefix and the count that caps it are taken at different times. With the
  defaults (k 50 against k_min 20) the count has to fall below two fifths in
  between, which bulk expiry does. `OverPreciseOnlyByExpiry` shows that nothing
  else causes it.

* **Wide blocks are not inoperative.** `normalise` masks a mapped prefix broader than
  /96, and what is left covers IPv6 addresses (`::ffff:0:0/80` becomes `::/80`),
  though its comment says that it will match nothing. A default route is of one
  family: behind `0.0.0.0/0` an IPv6 entry is not trusted, and is returned, though
  the comment of `warnDefaultRoute`, its warning and `docs/deploy-check.md` say that
  it trusts every source and that the peer is always used. The instance has a list of
  one of each and peers that only the mapped prefix covers: if either did what is said
  of it, the peer would be returned. `TrustIsAsWritten` is about the lists without
  such blocks (`Wide`).

## Proofs

All theorems hold for any sets of requests, channels, networks and identifiers
and any values of the other constants that satisfy the named assumptions
(`StoreAssumption`, `LimiterAssumption`, `RecordAssumption`, `AcceptAssumption`,
`PrefixAssumption`, `ClientAddrAssumption`, `ForwardAssumption`,
`TrigcheckAssumption`, `LookupAssumption` and so on), which
say what the constructors and the types guarantee.

*Signal store.* The properties are not inductive: that the unlocked receive finds
its blob depends on hand-overs going only to active waiters, which depends on
waiter sets and waiter fields agreeing for every struct, also those no longer in
the map. `IInv` therefore speaks of all structs: a struct is mapped under its
creator's key if at all (`StructsWellFormed`); a waiter set is exactly the active
waiters pointing to it, each through the current map entry, and never beside a
blob (`WaitersWellFormed`); an inbox is full exactly for a delivered waiter that
has not returned (`InboxesWellFormed`); a blob is in one struct, inbox or answer
(`BlobsWellFormed`); clock values are from the past and answers go with finished
requests (`RepliesWellFormed`). One lemma per action shows it preserved. From it
follow type correctness, `NoBlobBesideAWaiter`, `WaiterSetIsTheTruth`,
`WaitingIsExact`, `CapsHold`, `NoReceiveBlocks`, `NoBlobLost`,
`ClosedStoreIsEmpty`, `BlobInOnePlace` and, as an action property, `FirstWriteWins`.

*The contract.* Under the same invariant every action of the store is an action of
`Rendezvous` or a stutter (`StoreImplementsRendezvous`): one lemma per action. The
POSTs are the long ones, since one critical section may sweep other channels and
then store or hand over; `SweepForgets` says that what a sweep takes has outlived
its TTL, so the contract may forget it in the same step.

*The sweep.* `SweepMisleadsOnlyTheOvertaken` needs one fact about the past,
`SweptIsExpired`: a blob a sweep took had expired by the latest clock value that
has been inside the store. A later answer that differs from the one an unswept
store gives was therefore computed from an older value.

*Limiter.* `IInv` adds to the bounds that clock values in use are at most `Lag`
old (`ValuesAreRecent`) and that the next sweep is due before any entry has
outlived its window by an interval (`ScheduleIsSound`). The bound on the table,
`WithinLimit`, `NothingOutlivesItsWindow` and `RefusedForAReason` follow.

*Twice the limit.* `AtMostTwiceTheLimit` counts requests over a history the
limiter does not keep: a counter says nothing of the window before it, and a swept
one nothing at all. `WindowsAreApart` restates the history as the state can carry
it: what was let through under a key is split into the requests the present
counter counts and earlier ones, all of windows that had elapsed at some time
`end`, and only the last such window reaches into the `Window` before `end`. A
request that opens a window makes the counted ones earlier, and is itself at or
after the new `end`; since a spell is shorter than a window by twice the `Lag`, it
meets at most two.

*Records.* `IInv` says that clock values are from the past (`ValuesArePast`), that
rows and answers were written by publishes that are over (`RowsWellFormed`), and
that what was acknowledged, returned or counted by `GET /v1/meta` is kept
(`AcceptedIsKept`, `ReturnedIsKept`). Past clock values are the heart of it: a row
unexpired by the clock is unexpired by every value a publish or a sweep may carry,
so the `WHERE` of the upsert and of the `DELETE` see it. `NoRollback`,
`PublishedIsFound` and `LookupsNeverGoBack` follow, and type correctness, for which
`Bounded` says that clock values and expiries stay below their caps.

*Over-precision.* `OverPreciseOnlyByExpiry` needs besides that a client sized its
prefix by the rows it counted and nothing else (`SizedByMeta`). The sizes of the
two prefixes are logarithms of understated counts: the understatement is never
above the count, the logarithm is monotone, and the rows counted are still there
unless they expired; so a refusal needs rows that did.

*Decisions.* Functions, so the invariant is only that a question is of a known
kind (`Asked`); the work is in lemmas about `Accept`. That reading stops one byte
over the limit changes no verdict (the cut body fails the size check first); that
`Decode` looks at the version first does not show, because `Check` decodes a copy;
that a wrapped sum is never above the true one (`WrapWithin`,
`TTLBoundFailsClosed`), so that a limit whose sum wraps refuses more and never
less. `FirstFailureDecides` for bodies and sane limits of any kind,
`AcceptedIsWithinLimits` for all limits and `SignalFirstFailureDecides` follow.

*Client addresses.* `SpoofedEntriesAreIgnored` is about a recursive function over a
header of any length: the walk is shown to be the function its recursion describes
(`WalksExist`), to end at the last entry that is not trusted (`WalkEndsAt`), and so
not to look at what stands to the left of it (`LeftMakesNoDifference`).
`TrustIsAsWritten` says that a list without wide blocks trusts the hosts its fields
name, for words of any widths. The lemma behind it (`ListMeansWhatItSays`) is about
all lists, and says of a wide block what the code does: it covers the hosts of its own
family under its bits. Masking keeps the hosts of a prefix (`MaskingKeeps`), and
turning a mapped IPv6 prefix into the IPv4 prefix keeps them too (`ConversionKeeps`),
which is arithmetic of quotients by powers of two.

*Prefix queries.* `PrefixSelectsExactly` says that two ways to look at a lookup_id
agree: bit by bit, as the documents put it, and byte by byte with masks and a range
of a number, as the code does it, for digits, bytes, columns and lookup_ids of any
width. To agree on the first bits is to agree on whole bytes and on the upper bits
of the next (`AgreementsAgree`), which is what `Matches` compares. The column is a
number built byte by byte, and dividing it by a power of two leaves what its first
bits make (`ColumnsAgree`); so the column of a query whose spare bits are cleared is
a round number, and the range from it to the same number with its low bits set
holds exactly the columns that agree (`PrefixIsRound`, `RangeHolds`). Packing
digits into bytes, and writing bytes as digits, keep the first bits (`PackedIs`,
`QueryAgrees`, `HexIs`), so the prefix the checker sends finds the lookup_id it is
for (`DigitsFindTheirId`).

*Lifecycle.* `IInv` says that nothing runs before `serve` (`NothingYet`), that the
handle is open wherever a sweep may run (`HandleOpen`), that only `Shutdown` sets the
flag by which a listener ends without an error (`FlagByShutdown`), that polls are
released from `Drain` on (`Drained`), and that after a clean wait no connection can
bring another request, because the listener is closed for good (`Quiescent`). The
three safety properties follow for any number of connections.

*Trigcheck.* What is sent was built (`SentIsBuilt`); what was built under the
client's secret opens with the key of the epoch it was built in
(`SealedInItsEpoch`); the table holds nothing else such a key opens
(`TableIsBuilt`, from the assumption that others seal under secrets of their own).
`VerifyIsAuthentic` follows for any publishers, identities, clocks and answers.
`RefusalIsExplained` needs to know what a refused publish had built: `PublishInv`
says that the limits are sane, that a run carries the envelope its configuration
and its clock make (`RunsAreAsBuilt`, `EnvelopesAreFresh`), and that a row stands
under the identifier of its envelope (`RowsUnderTheirIds`). The lemmas of
`DirectoryProofs` about `Check` then say which condition can have failed.
`VerdictIsExplained` relates a verdict to what was acknowledged, to the count read
before and to the table of the moment. `VerdictInv` says that what was acknowledged
is in the table until it expires, or a record that expires no sooner is
(`AckedIsKept`, from the recency rule: `PutStoresTheNewer`), that a row stands under
its own lookup_id or opens under no key of the client's (`RowsAreInPlace`), and that
the prefix was sized by a count no larger than the directory has room for
(`CheckIsSized`). What opens then is the row under the lookup_id asked about and no
other, which is why there are never two (`OpensUnderItsId`); the prefix sent selects
it (`DigitsFindTheirId`); and the directory grants the bits the client asks for
unless the table has shrunk by more than the margin between the two ks
(`SizedPrefixFits`, with the logarithms of `prefixBits`, `capFor` and `understate`
shown to exist, `LogarithmExists`). `LookupAssumption` says what is needed of
SHA-256 and of the table: lookup_ids are told apart, so there are no more of them
than their bits can name.

*Induction.* Nothing here is proved by an induction theorem of the library. Where
an induction over the naturals is needed, a least counterexample is taken:
`LeastNat` of `PowersProofs` gives a set of naturals its least element (and
`GreatestNat` a bounded one its greatest), and a counterexample below it is then
exhibited. That powers and walks satisfy their recursive equations is shown that
way, from partial functions that do. For the same reason the modules that are
proved about write `Pow` for `^`, which no backend interprets.

Every invariant and every action property that a passing run checks is a theorem.
Only model-checked are the liveness properties (`EveryRequestReturns`,
`ShutdownReleasesPolls`, `HandOverArrives`, `EntriesAreForgotten`, `ProcessEnds`):
there is no prover here for fairness.

## Plan

1. Proofs of what the liveness properties rest on and can be said without fairness:
   that each step of a released poll or of a shutdown leaves less to do.
2. Composition of the limiter, the stores and the handlers with one clock value
   through all of them, and what a refused request leaves behind.

## Remarks on the code

Met while modelling, none of them a run of its own:

* The package comment of `clientaddr` speaks of the rightmost entry where `walk` goes
  on over trusted ones.
* Go's base64 decoder skips CR and LF, so `internal/b64` accepts more than one
  spelling of a value.
* A malformed channel on a draining store is 400, not 429.
* `encoding/json` matches member names without regard to case while
  `hasDuplicateMembers` and the required members are exact; the values of a body
  are therefore independent of its names in `Accept`.
* `prefixBits` shifts in 64 bits; it is modelled in unbounded integers.

## Not modelled

SHA-256, HKDF, AES-GCM and Ed25519 (free constructors, or a part of the input), the
search for a proof of work, the pairing derivations, the bytes of JSON, of
responses and of the canonical envelope, headers, recovery from a panic in
`ServeHTTP` and its `trackingWriter` (the stores' deferred unlocks run), SQLite itself (one statement is
atomic and durable), the parsing of flags, environment and endpoints, what
trigcheck prints, and the vector generators, which write test data.
