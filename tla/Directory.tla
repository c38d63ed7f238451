----------------------------- MODULE Directory ------------------------------
(***************************************************************************)
(* What one HTTP request does to the directory and what it is answered:    *)
(* the routes and handlers of internal/api, over the decisions of Accept,  *)
(* PrefixQuery and ClientAddr.  Functions of the table, the configuration  *)
(* and the request; how the statements of several requests interleave is   *)
(* RecordStore's subject, and the limiter's and the signal store's answers *)
(* (RateLimiter, SignalStore) are arguments here.                          *)
(*                                                                         *)
(* The table maps a write key to the envelope stored under its lookup_id,  *)
(* or to NoRow.                                                            *)
(*                                                                         *)
(* A definition headed "Variant" is a plausible slip in the definition     *)
(* that follows it; nothing uses it.                                       *)
(***************************************************************************)
EXTENDS ClientAddr, Accept, PrefixQuery

CONSTANTS
  KMin,      \* query.KMin
  NoRow

-----------------------------------------------------------------------------
\* The router.

Routes ==
  {<<"GET", "meta">>, <<"PUT", "record">>, <<"GET", "record">>, <<"OPTIONS", "record">>,
   <<"POST", "signal">>, <<"GET", "signal">>, <<"OPTIONS", "signal">>}

\* http.ServeMux: HEAD is served as GET, and a path known under another method
\* is 405.
Dispatch(method, path) ==
  LET m == IF method = "HEAD" THEN "GET" ELSE method
  IN  IF <<m, path>> \in Routes THEN <<m, path>>
      ELSE IF \E r \in Routes : r[2] = path THEN <<405>>
      ELSE <<404>>

\* preflight.
Preflight == 204

-----------------------------------------------------------------------------
\* Records.

\* Rows unexpired at now: what every statement sees.
Live(rows, now) == {k \in DOMAIN rows : rows[k] # NoRow /\ rows[k].expires > now}

RowCount(rows, now) == Cardinality(Live(rows, now))

\* expires_at the recency rule compares with.
StoredExpiry(rows, k, now) == IF k \in Live(rows, now) THEN rows[k].expires ELSE NotStored

\* handlePutRecord and Store.Put: the status, and the table afterwards.
HandlePut(rows, k, envelope, body, now, lim, limited) ==
  LET reason == PutReason(body, TRUE, now, lim, limited, StoredExpiry(rows, k, now))
  IN  [reason |-> reason,
       status |-> RecordStatus(reason),
       rows |-> IF reason = "Accepted" THEN [rows EXCEPT ![k] = envelope] ELSE rows]

\* handleMeta, never limited: the count rounded down.
HandleMeta(rows, now) == [status |-> 200, recordCount |-> Understated(RowCount(rows, now))]

\* handleGetRecord: the limiter, a parameter given twice, the cap by the true
\* count, the query, then the rows in order of lookup_id.
HandleGet(rows, idOf, now, prefix, bits, repeated, limited) ==
  LET q == ParseQuery(prefix, bits, CapFor(RowCount(rows, now), KMin))
  IN  IF limited THEN [status |-> RecordStatus("RateLimited"), found |-> {}]
      ELSE IF repeated THEN [status |-> QueryStatus("RepeatedParameter"), found |-> {}]
      ELSE IF q.reason # "none" THEN [status |-> QueryStatus(q.reason), found |-> {}]
      ELSE [status |-> 200, found |-> {k \in Live(rows, now) : Selects(q, idOf[k])}]

-----------------------------------------------------------------------------
\* Signal channels.  A request r says whether it is limited, readable, names a
\* good channel and fits; the store whether it is closed, the channel holds a
\* blob and the waiters are at a cap.

SignalStatus(reason) ==
  CASE reason \in {"Stored", "Empty"} -> 204
    [] reason = "Delivered" -> 200
    [] reason = "BadChannel" -> 400
    [] reason = "TooLarge" -> 413
    [] reason = "Conflict" -> 409
    [] reason = "RateLimited" -> 429
    [] reason = "Disabled" -> 404

\* Variant: the limiter asked before the configuration is looked at.
PostSignalLimitedFirst(enabled, r) ==
  IF r.limited \/ ~r.readable THEN "RateLimited"
  ELSE IF ~enabled THEN "Disabled"
  ELSE IF ~r.channel THEN "BadChannel"
  ELSE IF ~r.fits THEN "TooLarge"
  ELSE IF r.held THEN "Conflict" ELSE "Stored"

\* handlePostSignal and Store.Post.
PostSignal(enabled, r) ==
  IF ~enabled THEN "Disabled"
  ELSE IF r.limited \/ ~r.readable THEN "RateLimited"
  ELSE IF ~r.channel THEN "BadChannel"
  ELSE IF ~r.fits THEN "TooLarge"
  ELSE IF r.closed THEN "RateLimited"
  ELSE IF r.held THEN "Conflict" ELSE "Stored"

\* handleGetSignal and Store.Get, as far as its answer is known without waiting.
GetSignal(enabled, r) ==
  IF ~enabled THEN "Disabled"
  ELSE IF r.limited THEN "RateLimited"
  ELSE IF ~r.channel THEN "BadChannel"
  ELSE IF r.closed THEN "RateLimited"
  ELSE IF r.held THEN "Delivered"
  ELSE IF r.full THEN "RateLimited" ELSE "Empty"

\* ServeHTTP, under /v1/signal/.
SignalAnswer(method, enabled, r) ==
  LET to == Dispatch(method, "signal")
  IN  CASE to = <<"POST", "signal">> -> SignalStatus(PostSignal(enabled, r))
        [] to = <<"GET", "signal">> -> SignalStatus(GetSignal(enabled, r))
        [] to = <<"OPTIONS", "signal">> -> Preflight
        [] OTHER -> to[1]
=============================================================================
