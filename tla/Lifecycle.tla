------------------------------ MODULE Lifecycle -----------------------------
(***************************************************************************)
(* The life of the trigstationd process: run, serve and startSweeps of     *)
(* main.go, with the listener goroutine, the sweep goroutine, the requests *)
(* in flight and the signals an operator sends.                            *)
(*                                                                         *)
(* net/http is modelled from how main.go uses it.  A connection is open    *)
(* (new or idle), read (a request is in, the connection not yet marked     *)
(* active), then runs a handler: quick (a record or meta request, before   *)
(* its statement), parked (a poll waiting in the signal store), replying.  *)
(* Shutdown closes a connection that is not marked active; a request read  *)
(* in that instant runs on as an orphan, with nobody to answer.            *)
(*                                                                         *)
(* A definition headed "Variant" is a plausible slip in the definition     *)
(* that follows it; nothing uses it.                                       *)
(***************************************************************************)
EXTENDS Naturals

CONSTANTS Conns       \* connections

VARIABLES
  stage,       \* where run and serve are
  code,        \* what the process will exit with
  notified,    \* NotifyContext is in effect: signals cancel ctx
  cancelled,   \* ctx.Done
  sweeper,     \* the sweep goroutine
  listener,    \* the listener goroutine
  listenErr,   \* what it has put in the channel of one
  inShutdown,  \* http.Server's flag
  drained,     \* the signal store is shut down
  db,          \* the handle store.Open gave
  conn,        \* the connections
  failed       \* live connections whose handler found the handle closed

vars == <<stage, code, notified, cancelled, sweeper, listener, listenErr, inShutdown,
          drained, db, conn, failed>>

process == <<stage, code>>
ctx     == <<notified, cancelled>>
server  == <<listener, listenErr, inShutdown>>
clients == <<conn, failed>>

Stages ==
  {"flags", "proxies", "open", "build", "serve",
   "select",                       \* serve waits for the listener or a signal
   "stopping",                     \* the listener failed: stop(), then the sweeps
   "drain", "shutdown", "waiting", \* a signal: Drain, Shutdown and its wait
   "sweeps", "listenErr",          \* the two joins
   "return", "exited", "killed"}

ConnStates == {"none", "open", "read", "quick", "parked", "replying", "orphan"}

\* A handler runs on a connection marked active.
Active(c) == conn[c] \in {"quick", "parked", "replying"}

Alive == stage \notin {"exited", "killed"}

Init ==
  /\ stage = "flags" /\ code = 0
  /\ notified = FALSE /\ cancelled = FALSE
  /\ sweeper = "off" /\ listener = "off" /\ listenErr = "empty" /\ inShutdown = FALSE
  /\ drained = FALSE /\ db = "none"
  /\ conn = [c \in Conns |-> "none"] /\ failed = {}

-----------------------------------------------------------------------------
\* run: the steps before there is anything to serve.  An error is the exit code
\* 1; -help alone ends with 0.

ParseFlags ==
  /\ stage = "flags"
  /\ \/ stage' = "proxies" /\ code' = code
     \/ stage' = "return" /\ code' \in {0, 1}
  /\ UNCHANGED <<ctx, sweeper, server, drained, db, clients>>

ParseTrustedProxies ==
  /\ stage = "proxies"
  /\ \/ stage' = "open" /\ code' = code
     \/ stage' = "return" /\ code' = 1
  /\ UNCHANGED <<ctx, sweeper, server, drained, db, clients>>

OpenStore ==
  /\ stage = "open"
  /\ \/ stage' = "build" /\ code' = code /\ db' = "open"
     \/ stage' = "return" /\ code' = 1 /\ db' = db
  /\ UNCHANGED <<ctx, sweeper, server, drained, clients>>

\* api.New refuses an empty source_url.
BuildServer ==
  /\ stage = "build"
  /\ \/ stage' = "serve" /\ code' = code
     \/ stage' = "return" /\ code' = 1
  /\ UNCHANGED <<ctx, sweeper, server, drained, db, clients>>

\* The deferred Close runs on every way out of run after Open; then main exits.
Return ==
  /\ stage = "return" /\ db # "open"
  /\ stage' = "exited"
  /\ UNCHANGED <<code, ctx, sweeper, server, drained, db, clients>>

CloseStore ==
  /\ stage = "return" /\ db = "open"
  /\ db' = "closed"
  /\ UNCHANGED <<process, ctx, sweeper, server, drained, clients>>

-----------------------------------------------------------------------------
\* serve.

\* NotifyContext, and the two goroutines.
Serve ==
  /\ stage = "serve"
  /\ stage' = "select"
  /\ notified' = TRUE /\ sweeper' = "idle" /\ listener' = "starting"
  /\ UNCHANGED <<code, cancelled, listenErr, inShutdown, drained, db, clients>>

\* Variant: the sweeps joined without stop(), which alone ends them here.
SelectListenerUnstopped ==
  /\ stage = "select" /\ listenErr # "empty"
  /\ stage' = "stopping" /\ listenErr' = "empty"
  /\ code' = IF listenErr = "error" THEN 1 ELSE 0
  /\ UNCHANGED <<ctx, sweeper, listener, inShutdown, drained, db, clients>>

\* The listener is back: stop() ends the sweeps, whose end serve then awaits.
SelectListener ==
  /\ stage = "select" /\ listenErr # "empty"
  /\ stage' = "stopping" /\ listenErr' = "empty"
  /\ code' = IF listenErr = "error" THEN 1 ELSE 0
  /\ notified' = FALSE /\ cancelled' = TRUE
  /\ UNCHANGED <<sweeper, listener, inShutdown, drained, db, clients>>

JoinStopping ==
  /\ stage = "stopping" /\ sweeper = "stopped"
  /\ stage' = "return"
  /\ UNCHANGED <<code, ctx, sweeper, server, drained, db, clients>>

SelectSignal ==
  /\ stage = "select" /\ cancelled
  /\ stage' = "drain"
  /\ UNCHANGED <<code, ctx, sweeper, server, drained, db, clients>>

\* Variant: the waiters released, and the store left open to the next poll.
DrainOnce ==
  /\ stage = "drain"
  /\ stage' = "shutdown" /\ drained' = drained
  /\ conn' = [c \in Conns |-> IF conn[c] = "parked" THEN "replying" ELSE conn[c]]
  /\ UNCHANGED <<code, ctx, sweeper, server, db, failed>>

\* api.Server.Drain: every parked poll is released, and the store takes no more.
Drain ==
  /\ stage = "drain"
  /\ stage' = "shutdown" /\ drained' = TRUE
  /\ conn' = [c \in Conns |-> IF conn[c] = "parked" THEN "replying" ELSE conn[c]]
  /\ UNCHANGED <<code, ctx, sweeper, server, db, failed>>

\* http.Server.Shutdown sets its flag and closes the listeners ...
Shutdown ==
  /\ stage = "shutdown"
  /\ stage' = "waiting" /\ inShutdown' = TRUE
  /\ UNCHANGED <<code, ctx, sweeper, listener, listenErr, drained, db, clients>>

\* ... waits for Serve to return, and then closes what is not active, again and
\* again, until a pass finds nothing else; a new connection counts as active
\* for its first five seconds.
ClosePass ==
  /\ stage = "waiting" /\ listener # "listening"
  /\ \E young \in SUBSET {c \in Conns : conn[c] \in {"open", "read"}} :
       /\ conn' = [c \in Conns |->
                     IF c \in young THEN conn[c]
                     ELSE IF conn[c] = "open" THEN "none"
                     ELSE IF conn[c] = "read" THEN "orphan"
                     ELSE conn[c]]
       /\ stage' = IF young = {} /\ \A c \in Conns : ~Active(c) THEN "sweeps" ELSE stage
  /\ UNCHANGED <<code, ctx, sweeper, server, drained, db, failed>>

\* Variant: what Shutdown returned dropped.
GraceExpiresQuietly ==
  /\ stage = "waiting" /\ listener # "listening"
  /\ stage' = "sweeps" /\ code' = code
  /\ UNCHANGED <<ctx, sweeper, server, drained, db, clients>>

\* shutdownGrace: Shutdown gives up, and serve will return its error.
GraceExpires ==
  /\ stage = "waiting" /\ listener # "listening"
  /\ stage' = "sweeps" /\ code' = 1
  /\ UNCHANGED <<ctx, sweeper, server, drained, db, clients>>

\* Variant: the sweep goroutine not waited for.
JoinSweepsUnjoined ==
  /\ stage = "sweeps"
  /\ stage' = "listenErr"
  /\ UNCHANGED <<code, ctx, sweeper, server, drained, db, clients>>

JoinSweeps ==
  /\ stage = "sweeps" /\ sweeper = "stopped"
  /\ stage' = "listenErr"
  /\ UNCHANGED <<code, ctx, sweeper, server, drained, db, clients>>

\* The listener's error wins over Shutdown's; the deferred stop() follows.
JoinListener ==
  /\ stage = "listenErr" /\ listenErr # "empty"
  /\ stage' = "return" /\ listenErr' = "empty"
  /\ code' = IF listenErr = "error" THEN 1 ELSE code
  /\ notified' = FALSE
  /\ UNCHANGED <<cancelled, sweeper, listener, inShutdown, drained, db, clients>>

-----------------------------------------------------------------------------
\* The listener goroutine: bind, accept, and the error it ends with.

Bind ==
  /\ Alive /\ listener = "starting" /\ ~inShutdown
  /\ listener' = "listening"
  /\ UNCHANGED <<process, ctx, sweeper, listenErr, inShutdown, drained, db, clients>>

\* Bind or Accept fails; once the flag is set Accept's error is ErrServerClosed.
ListenerFails ==
  /\ Alive /\ (listener = "starting" \/ (listener = "listening" /\ ~inShutdown))
  /\ listener' = "returned" /\ listenErr' = "error"
  /\ UNCHANGED <<process, ctx, sweeper, inShutdown, drained, db, clients>>

\* ErrServerClosed is no error.
ListenerClosed ==
  /\ Alive /\ listener \in {"starting", "listening"} /\ inShutdown
  /\ listener' = "returned" /\ listenErr' = "nil"
  /\ UNCHANGED <<process, ctx, sweeper, inShutdown, drained, db, clients>>

-----------------------------------------------------------------------------
\* The sweep goroutine.  select is free to take a tick although ctx is done;
\* a records sweep under a done ctx fails at once or ends as ever.

SweepStarts ==
  /\ Alive /\ sweeper = "idle"
  /\ sweeper' \in {"records", "limits"}
  /\ UNCHANGED <<process, ctx, server, drained, db, clients>>

SweepEnds ==
  /\ Alive /\ sweeper \in {"records", "limits"}
  /\ sweeper' = "idle"
  /\ UNCHANGED <<process, ctx, server, drained, db, clients>>

SweeperStops ==
  /\ Alive /\ sweeper = "idle" /\ cancelled
  /\ sweeper' = "stopped"
  /\ UNCHANGED <<process, ctx, server, drained, db, clients>>

-----------------------------------------------------------------------------
\* Connections and their handlers.

Connection(c, from, to) ==
  /\ Alive /\ conn[c] \in from
  /\ conn' = [conn EXCEPT ![c] = to]
  /\ UNCHANGED <<process, ctx, sweeper, server, drained, db>>

Accepted(c) ==
  /\ listener = "listening"
  /\ Connection(c, {"none"}, "open") /\ failed' = failed

RequestRead(c) == Connection(c, {"open"}, "read") /\ failed' = failed

\* Marked active, and the handler called: a record or meta request, a poll, or
\* an answer that needs neither the database nor a wait.
HandlerStarts(c) ==
  /\ \/ Connection(c, {"read"}, "quick")
     \/ ~drained /\ Connection(c, {"read"}, "parked")
     \/ Connection(c, {"read"}, "replying")
  /\ failed' = failed

\* The statement of a record or meta request.
Statement(c) ==
  /\ Connection(c, {"quick"}, "replying")
  /\ failed' = IF db = "closed" THEN failed \cup {c} ELSE failed

\* A blob or the end of the poll window.
PollAnswered(c) == Connection(c, {"parked"}, "replying") /\ failed' = failed

\* The answer is out.  A server shutting down keeps no connection alive.
Replied(c) ==
  /\ Connection(c, {"replying"}, IF inShutdown THEN "none" ELSE "open")
  /\ failed' = failed \ {c}

\* The client closes, or one of the server's read, write or idle timeouts does.
ClientLeaves(c) ==
  /\ Connection(c, {"open", "read", "quick", "parked", "replying"}, "none")
  /\ failed' = failed \ {c}

\* The handler of a connection Shutdown has closed: its answer reaches nobody.
OrphanEnds(c) == Connection(c, {"orphan"}, "none") /\ failed' = failed

-----------------------------------------------------------------------------
\* SIGINT or SIGTERM.  Before NotifyContext and after stop() it kills.
Signal ==
  /\ Alive
  /\ IF notified THEN cancelled' = TRUE /\ stage' = stage
     ELSE stage' = "killed" /\ cancelled' = cancelled
  /\ UNCHANGED <<code, notified, sweeper, server, drained, db, clients>>

Done == ~Alive /\ UNCHANGED vars

Main ==
  \/ ParseFlags \/ ParseTrustedProxies \/ OpenStore \/ BuildServer \/ Return \/ CloseStore
  \/ Serve \/ SelectListener \/ JoinStopping \/ SelectSignal \/ Drain \/ Shutdown
  \/ JoinSweeps \/ JoinListener

Handler(c) == HandlerStarts(c) \/ Statement(c) \/ Replied(c) \/ OrphanEnds(c)

Next ==
  \/ Main \/ ClosePass \/ GraceExpires
  \/ Bind \/ ListenerFails \/ ListenerClosed
  \/ SweepStarts \/ SweepEnds \/ SweeperStops
  \/ \E c \in Conns : Accepted(c) \/ RequestRead(c) \/ ClientLeaves(c) \/ PollAnswered(c)
  \/ \E c \in Conns : Handler(c)
  \/ Signal
  \/ Done

Spec == Init /\ [][Next]_vars

\* The goroutines run.  The timer of the grace fires; the select of the sweeper
\* picks a ready ctx.Done eventually (it chooses at random), which is strong
\* fairness.  Nothing is asked of clients, and of the poll timer nothing either.
Fairness ==
  /\ WF_vars(Main) /\ WF_vars(GraceExpires)
  /\ WF_vars(ListenerClosed)
  /\ WF_vars(SweepEnds) /\ SF_vars(SweeperStops)

FairSpec == Spec /\ Fairness

-----------------------------------------------------------------------------
TypeOK ==
  /\ stage \in Stages /\ code \in {0, 1}
  /\ notified \in BOOLEAN /\ cancelled \in BOOLEAN
  /\ sweeper \in {"off", "idle", "records", "limits", "stopped"}
  /\ listener \in {"off", "starting", "listening", "returned"}
  /\ listenErr \in {"empty", "nil", "error"}
  /\ inShutdown \in BOOLEAN /\ drained \in BOOLEAN
  /\ db \in {"none", "open", "closed"}
  /\ conn \in [Conns -> ConnStates]
  /\ failed \subseteq Conns

\* The handle is closed under no sweep: both ways out of serve wait for the
\* sweep goroutine before the deferred Close runs (serve, startSweeps, run).
NoSweepAfterClose == sweeper = "records" => db = "open"

\* Shutdown never waits for a poll: whatever polls arrive, and whenever the
\* signal does, none is parked once Drain has run, neither from before it nor
\* on a connection accepted or reused since (serve, Drain).
NoPollHoldsShutdown ==
  stage \in {"shutdown", "waiting", "sweeps", "listenErr"} => \A c \in Conns : conn[c] # "parked"

\* An exit code of 0 means that every request on a connection Shutdown still knew
\* of has been answered: none is cut off by the exit, and none found the database
\* closed.  A request read in the instant its idle connection was closed (an
\* orphan) is not counted: its answer would reach nobody.
\* Where the listener failed or the grace ran out the code is 1 (serve, run).
CleanExitAnswersAll ==
  stage \in {"return", "exited"} /\ code = 0 =>
    failed = {} /\ \A c \in Conns : ~Active(c)

\* A signal, or the end of the listener, ends the process: no wait of serve is
\* for something that never happens, however many polls are parked and whatever
\* the clients do (serve, startSweeps).
ProcessEnds == (cancelled \/ listener = "returned") ~> ~Alive

-----------------------------------------------------------------------------
\* The parts of an inductive invariant.

Starting == stage \in {"flags", "proxies", "open", "build", "serve"}
Serving  == stage \in {"select", "stopping", "drain", "shutdown", "waiting", "sweeps"}
Leaving  == stage \in {"sweeps", "listenErr", "return", "exited"}

\* Nothing runs before serve.
NothingYet ==
  Starting =>
    /\ code = 0 /\ sweeper = "off" /\ listener = "off" /\ listenErr = "empty" /\ ~inShutdown
    /\ failed = {} /\ \A c \in Conns : conn[c] = "none"

\* The handle is open from Open to the deferred Close, and the sweeper runs only
\* meanwhile.
HandleOpen ==
  /\ stage \in {"build", "serve", "listenErr"} \/ Serving => db = "open"
  /\ sweeper \notin {"off", "stopped"} => (Serving \/ stage = "killed") /\ db = "open"
  /\ failed # {} => db = "closed"

\* Only Shutdown sets the flag that makes the listener end without an error.
FlagByShutdown ==
  /\ listenErr = "nil" => inShutdown
  /\ inShutdown => stage \in {"waiting", "sweeps", "listenErr", "return", "exited", "killed"}
  /\ stage = "waiting" => inShutdown
  /\ stage = "stopping" => code = 1

Drained ==
  stage \in {"shutdown", "waiting", "sweeps", "listenErr"} =>
    drained /\ \A c \in Conns : conn[c] # "parked"

\* After a clean wait no connection can bring another request.
Quiescent ==
  Leaving /\ code = 0 =>
    /\ failed = {} /\ \A c \in Conns : conn[c] \in {"none", "orphan"}
    /\ listener \in {"off", "returned"} \/ (listener = "starting" /\ inShutdown)

IInv == TypeOK /\ NothingYet /\ HandleOpen /\ FlagByShutdown /\ Drained /\ Quiescent
=============================================================================
