--------------------------- MODULE LifecycleProofs --------------------------
(***************************************************************************)
(* The safety properties of Lifecycle, for any set of connections.         *)
(***************************************************************************)
EXTENDS Lifecycle, TLAPS

-----------------------------------------------------------------------------
\* IInv holds at the start of the process.
LEMMA InitIInv == Init => IInv
BY DEF Init, IInv, TypeOK, NothingYet, HandleOpen, FlagByShutdown, Drained, Quiescent, Starting,
   Serving, Leaving, Stages, ConnStates

\* IInv says everything of a state but which history led there; a step that
\* changes nothing keeps it.
LEMMA StutterIInv == IInv /\ UNCHANGED vars => IInv'
BY DEF IInv, TypeOK, NothingYet, HandleOpen, FlagByShutdown, Drained, Quiescent, Starting,
   Serving, Leaving, vars

\* The steps of run and serve keep IInv: each join hands on what it waited for.
LEMMA MainKeepsIInv == IInv /\ Main => IInv'
<1> SUFFICES ASSUME IInv, Main PROVE IInv'
  OBVIOUS
<1>1. CASE ParseFlags
  BY <1>1 DEF ParseFlags,
      IInv, TypeOK, NothingYet, HandleOpen, FlagByShutdown, Drained, Quiescent,
      Starting, Serving, Leaving, Alive, process, ctx, server, clients, Stages
<1>2. CASE ParseTrustedProxies
  BY <1>2 DEF ParseTrustedProxies,
      IInv, TypeOK, NothingYet, HandleOpen, FlagByShutdown, Drained, Quiescent,
      Starting, Serving, Leaving, Alive, process, ctx, server, clients, Stages
<1>3. CASE OpenStore
  BY <1>3 DEF OpenStore,
      IInv, TypeOK, NothingYet, HandleOpen, FlagByShutdown, Drained, Quiescent,
      Starting, Serving, Leaving, Alive, process, ctx, server, clients, Stages
<1>4. CASE BuildServer
  BY <1>4 DEF BuildServer,
      IInv, TypeOK, NothingYet, HandleOpen, FlagByShutdown, Drained, Quiescent,
      Starting, Serving, Leaving, Alive, process, ctx, server, clients, Stages
<1>5. CASE Return
  BY <1>5 DEF Return,
      IInv, TypeOK, NothingYet, HandleOpen, FlagByShutdown, Drained, Quiescent,
      Starting, Serving, Leaving, Alive, process, ctx, server, clients, Stages
<1>6. CASE CloseStore
  BY <1>6 DEF CloseStore,
      IInv, TypeOK, NothingYet, HandleOpen, FlagByShutdown, Drained, Quiescent,
      Starting, Serving, Leaving, Alive, process, ctx, server, clients, Stages
<1>7. CASE Serve
  BY <1>7 DEF Serve,
      IInv, TypeOK, NothingYet, HandleOpen, FlagByShutdown, Drained, Quiescent,
      Starting, Serving, Leaving, Alive, process, ctx, server, clients, Stages
<1>8. CASE SelectListener
  BY <1>8 DEF SelectListener,
      IInv, TypeOK, NothingYet, HandleOpen, FlagByShutdown, Drained, Quiescent,
      Starting, Serving, Leaving, Alive, process, ctx, server, clients, Stages
<1>9. CASE JoinStopping
  BY <1>9 DEF JoinStopping,
      IInv, TypeOK, NothingYet, HandleOpen, FlagByShutdown, Drained, Quiescent,
      Starting, Serving, Leaving, Alive, process, ctx, server, clients, Stages
<1>10. CASE SelectSignal
  BY <1>10 DEF SelectSignal,
      IInv, TypeOK, NothingYet, HandleOpen, FlagByShutdown, Drained, Quiescent,
      Starting, Serving, Leaving, Alive, process, ctx, server, clients, Stages
<1>11. CASE Drain
  BY <1>11 DEF Drain,
      IInv, TypeOK, NothingYet, HandleOpen, FlagByShutdown, Drained, Quiescent,
      Starting, Serving, Leaving, Alive, process, ctx, server, clients, Stages, ConnStates
<1>12. CASE Shutdown
  BY <1>12 DEF Shutdown,
      IInv, TypeOK, NothingYet, HandleOpen, FlagByShutdown, Drained, Quiescent,
      Starting, Serving, Leaving, Alive, process, ctx, server, clients, Stages
<1>13. CASE JoinSweeps
  BY <1>13 DEF JoinSweeps,
      IInv, TypeOK, NothingYet, HandleOpen, FlagByShutdown, Drained, Quiescent,
      Starting, Serving, Leaving, Alive, process, ctx, server, clients, Stages
<1>14. CASE JoinListener
  BY <1>14 DEF JoinListener,
      IInv, TypeOK, NothingYet, HandleOpen, FlagByShutdown, Drained, Quiescent,
      Starting, Serving, Leaving, Alive, process, ctx, server, clients, Stages
<1> QED
  BY <1>1, <1>2, <1>3, <1>4, <1>5, <1>6, <1>7, <1>8, <1>9, <1>10, <1>11, <1>12, <1>13, <1>14 DEF Main

\* The wait of Shutdown, the listener and the sweeper keep IInv.
LEMMA GoroutinesKeepIInv ==
  IInv /\ (ClosePass \/ GraceExpires \/ Bind \/ ListenerFails \/ ListenerClosed
            \/ SweepStarts \/ SweepEnds \/ SweeperStops) => IInv'
<1> SUFFICES ASSUME IInv,
                    ClosePass \/ GraceExpires \/ Bind \/ ListenerFails \/ ListenerClosed
                      \/ SweepStarts \/ SweepEnds \/ SweeperStops
             PROVE IInv'
  OBVIOUS
<1>1. CASE ClosePass
  <2>1. PICK young \in SUBSET {c \in Conns : conn[c] \in {"open", "read"}} :
          /\ conn' = [c \in Conns |->
                        IF c \in young THEN conn[c]
                        ELSE IF conn[c] = "open" THEN "none"
                        ELSE IF conn[c] = "read" THEN "orphan"
                        ELSE conn[c]]
          /\ stage' = IF young = {} /\ \A c \in Conns : ~Active(c) THEN "sweeps" ELSE stage
    BY <1>1 DEF ClosePass
  <2>2. /\ stage = "waiting" /\ stage' \in {"waiting", "sweeps"}
        /\ UNCHANGED <<code, notified, cancelled, sweeper, listener, listenErr, inShutdown,
                        drained, db, failed>>
        /\ listener # "listening"
    BY <1>1, <2>1 DEF ClosePass, ctx, server
  <2>3. TypeOK'
    BY <2>1, <2>2 DEF IInv, TypeOK, Stages, ConnStates
  <2>4. NothingYet' /\ HandleOpen' /\ FlagByShutdown'
    BY <2>2 DEF IInv, TypeOK, NothingYet, HandleOpen, FlagByShutdown, Starting, Serving
  <2>5. Drained'
    BY <2>1, <2>2 DEF IInv, Drained
  <2>6. Quiescent'
    <3> SUFFICES ASSUME stage' = "sweeps", code = 0
                 PROVE  Quiescent'
      BY <2>2 DEF Quiescent, Leaving
    <3>1. young = {} /\ \A c \in Conns : ~Active(c)
      BY <2>1, <2>2
    <3>2. \A c \in Conns : conn'[c] \in {"none", "orphan"}
      BY <2>1, <3>1 DEF IInv, TypeOK, ConnStates, Active
    <3>3. failed' = {}
      BY <2>2 DEF IInv, HandleOpen, Serving
    <3>4. listener' = "returned" \/ (listener' = "starting" /\ inShutdown') \/ listener' = "off"
      BY <2>2 DEF IInv, TypeOK, FlagByShutdown
    <3> QED
      BY <3>2, <3>3, <3>4 DEF Quiescent
  <2> QED
    BY <2>3, <2>4, <2>5, <2>6 DEF IInv
<1>2. CASE GraceExpires
  BY <1>2 DEF GraceExpires,
      IInv, TypeOK, NothingYet, HandleOpen, FlagByShutdown, Drained, Quiescent,
      Starting, Serving, Leaving, Alive, process, ctx, server, clients, Stages
<1>3. CASE Bind
  BY <1>3 DEF Bind,
      IInv, TypeOK, NothingYet, HandleOpen, FlagByShutdown, Drained, Quiescent,
      Starting, Serving, Leaving, Alive, process, ctx, server, clients
<1>4. CASE ListenerFails
  BY <1>4 DEF ListenerFails,
      IInv, TypeOK, NothingYet, HandleOpen, FlagByShutdown, Drained, Quiescent,
      Starting, Serving, Leaving, Alive, process, ctx, server, clients
<1>5. CASE ListenerClosed
  BY <1>5 DEF ListenerClosed,
      IInv, TypeOK, NothingYet, HandleOpen, FlagByShutdown, Drained, Quiescent,
      Starting, Serving, Leaving, Alive, process, ctx, server, clients
<1>6. CASE SweepStarts
  BY <1>6 DEF SweepStarts,
      IInv, TypeOK, NothingYet, HandleOpen, FlagByShutdown, Drained, Quiescent,
      Starting, Serving, Leaving, Alive, process, ctx, server, clients
<1>7. CASE SweepEnds
  BY <1>7 DEF SweepEnds,
      IInv, TypeOK, NothingYet, HandleOpen, FlagByShutdown, Drained, Quiescent,
      Starting, Serving, Leaving, Alive, process, ctx, server, clients
<1>8. CASE SweeperStops
  BY <1>8 DEF SweeperStops,
      IInv, TypeOK, NothingYet, HandleOpen, FlagByShutdown, Drained, Quiescent,
      Starting, Serving, Leaving, Alive, process, ctx, server, clients
<1> QED
  BY <1>1, <1>2, <1>3, <1>4, <1>5, <1>6, <1>7, <1>8

\* Nothing a connection or its handler does disturbs IInv.
LEMMA ConnectionsKeepIInv ==
  ASSUME NEW c \in Conns, IInv,
         Accepted(c) \/ RequestRead(c) \/ ClientLeaves(c) \/ PollAnswered(c) \/ Handler(c)
  PROVE  IInv'
<1>1. CASE Accepted(c)
  BY <1>1 DEF Accepted, Connection,
      IInv, TypeOK, NothingYet, HandleOpen, FlagByShutdown, Drained, Quiescent,
      Starting, Serving, Leaving, Alive, process, ctx, server, clients, ConnStates
<1>2. CASE RequestRead(c)
  BY <1>2 DEF RequestRead, Connection,
      IInv, TypeOK, NothingYet, HandleOpen, FlagByShutdown, Drained, Quiescent,
      Starting, Serving, Leaving, Alive, process, ctx, server, clients, ConnStates
<1>3. CASE ClientLeaves(c)
  BY <1>3 DEF ClientLeaves, Connection,
      IInv, TypeOK, NothingYet, HandleOpen, FlagByShutdown, Drained, Quiescent,
      Starting, Serving, Leaving, Alive, process, ctx, server, clients, ConnStates
<1>4. CASE PollAnswered(c)
  BY <1>4 DEF PollAnswered, Connection,
      IInv, TypeOK, NothingYet, HandleOpen, FlagByShutdown, Drained, Quiescent,
      Starting, Serving, Leaving, Alive, process, ctx, server, clients, ConnStates
<1>5. CASE HandlerStarts(c)
  BY <1>5 DEF HandlerStarts, Connection,
      IInv, TypeOK, NothingYet, HandleOpen, FlagByShutdown, Drained, Quiescent,
      Starting, Serving, Leaving, Alive, process, ctx, server, clients, ConnStates
<1>6. CASE Statement(c)
  BY <1>6 DEF Statement, Connection,
      IInv, TypeOK, NothingYet, HandleOpen, FlagByShutdown, Drained, Quiescent,
      Starting, Serving, Leaving, Alive, process, ctx, server, clients, ConnStates
<1>7. CASE Replied(c)
  BY <1>7 DEF Replied, Connection,
      IInv, TypeOK, NothingYet, HandleOpen, FlagByShutdown, Drained, Quiescent,
      Starting, Serving, Leaving, Alive, process, ctx, server, clients, ConnStates
<1>8. CASE OrphanEnds(c)
  BY <1>8 DEF OrphanEnds, Connection,
      IInv, TypeOK, NothingYet, HandleOpen, FlagByShutdown, Drained, Quiescent,
      Starting, Serving, Leaving, Alive, process, ctx, server, clients, ConnStates
<1> QED
  BY <1>1, <1>2, <1>3, <1>4, <1>5, <1>6, <1>7, <1>8 DEF Handler

\* A signal cancels the context or kills.
LEMMA SignalKeepsIInv == IInv /\ Signal => IInv'
<1> SUFFICES ASSUME IInv, Signal PROVE IInv'
  OBVIOUS
<1>1. CASE notified
  BY <1>1 DEF Signal,
      IInv, TypeOK, NothingYet, HandleOpen, FlagByShutdown, Drained, Quiescent,
      Starting, Serving, Leaving, Alive, process, ctx, server, clients, Stages
<1>2. CASE ~notified
  BY <1>2 DEF Signal,
      IInv, TypeOK, NothingYet, HandleOpen, FlagByShutdown, Drained, Quiescent,
      Starting, Serving, Leaving, Alive, process, ctx, server, clients, Stages
<1> QED
  BY <1>1, <1>2

\* IInv holds in every state of the process.
THEOREM ProcessInvariant == Spec => []IInv
<1>1. IInv /\ [Next]_vars => IInv'
  <2> SUFFICES ASSUME IInv, [Next]_vars PROVE IInv'
    OBVIOUS
  <2>1. CASE Main
    BY <2>1, MainKeepsIInv
  <2>2. CASE ClosePass \/ GraceExpires \/ Bind \/ ListenerFails \/ ListenerClosed
               \/ SweepStarts \/ SweepEnds \/ SweeperStops
    BY <2>2, GoroutinesKeepIInv
  <2>3. CASE \E c \in Conns :
               Accepted(c) \/ RequestRead(c) \/ ClientLeaves(c) \/ PollAnswered(c) \/ Handler(c)
    BY <2>3, ConnectionsKeepIInv
  <2>4. CASE Signal
    BY <2>4, SignalKeepsIInv
  <2>5. CASE Done \/ UNCHANGED vars
    BY <2>5, StutterIInv DEF Done
  <2> QED
    BY <2>1, <2>2, <2>3, <2>4, <2>5 DEF Next
<1> QED
  BY <1>1, InitIInv, PTL DEF Spec

\* The database handle is never closed under a running sweep (serve, run).
THEOREM SweepsEndBeforeClose == Spec => []NoSweepAfterClose
<1>1. IInv => NoSweepAfterClose
  BY DEF IInv, HandleOpen, NoSweepAfterClose
<1> QED
  BY <1>1, ProcessInvariant, PTL

\* Shutdown finds no parked poll to wait for, however many arrive (Drain, serve).
THEOREM PollsNeverHoldShutdown == Spec => []NoPollHoldsShutdown
<1>1. IInv => NoPollHoldsShutdown
  BY DEF IInv, Drained, NoPollHoldsShutdown
<1> QED
  BY <1>1, ProcessInvariant, PTL

\* A process that exits with 0 has answered every request it was running a
\* handler for, orphans excepted (serve, run).
THEOREM CleanExitIsClean == Spec => []CleanExitAnswersAll
<1>1. IInv => CleanExitAnswersAll
  BY DEF IInv, TypeOK, HandleOpen, Quiescent, Leaving, Active, CleanExitAnswersAll
<1> QED
  BY <1>1, ProcessInvariant, PTL
=============================================================================
