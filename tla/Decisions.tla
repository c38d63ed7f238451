----------------------------- MODULE Decisions ------------------------------
(***************************************************************************)
(* The directory's stateless decisions as a machine that is asked one      *)
(* question at a time: the verdict on a publish, on a request to a signal  *)
(* channel, the address behind a forwarded request, the rows a prefix      *)
(* selects.  The answers are those of Accept, Directory, ClientAddr and    *)
(* PrefixQuery; a property holds of every question.                        *)
(***************************************************************************)
EXTENDS Directory

VARIABLE asked

NoQuestion == [kind |-> "none"]

Publishes ==
  [kind : {"publish"}, b : Bodies, now : Times, lim : LimitSets, limited : BOOLEAN,
   stored : Stored]

Methods == {"GET", "HEAD", "POST", "PUT", "OPTIONS"}

Signals ==
  [kind : {"signal"}, method : Methods, enabled : BOOLEAN,
   r : [limited : BOOLEAN, readable : BOOLEAN, channel : BOOLEAN, fits : BOOLEAN,
        closed : BOOLEAN, held : BOOLEAN, full : BOOLEAN]]

Forwards == [kind : {"forward"}, list : ProxyLists, peer : Peers, xff : Headers]

Prefixes ==
  UNION {[kind : {"prefix"}, bits : {n}, digits : [1..CeilDiv(n, DigitBits) -> Digit]] :
           n \in 0..IdBits}

Init == asked = NoQuestion

\* The functions keep nothing from one question to the next.
Ask(questions) ==
  /\ asked = NoQuestion
  /\ asked' \in questions

Answered ==
  /\ asked # NoQuestion
  /\ asked' = NoQuestion

Next ==
  \/ Ask(Publishes) \/ Ask(Signals) \/ Ask(Forwards) \/ Ask(Prefixes)
  \/ Answered

Spec == Init /\ [][Next]_asked

-----------------------------------------------------------------------------
\* The conditions of section 5.4 in their order, with the status of each; the
\* last two are of a POST.
SignalOrder == <<"Disabled", "RateLimited", "BadChannel", "TooLarge", "Conflict">>
StatusOrder == <<404, 429, 400, 413, 409>>

SignalFails(reason, method, enabled, r) ==
  CASE reason = "Disabled"    -> ~enabled
    [] reason = "RateLimited" -> r.limited
    [] reason = "BadChannel"  -> ~r.channel
    [] reason = "TooLarge"    -> method = "POST" /\ ~r.fits
    [] reason = "Conflict"    -> method = "POST" /\ r.held

\* A publish is answered with the first condition of section 5.2 that fails,
\* and accepted only if none does, although the handler stops reading at the
\* limit, the decoder looks at the version first and the recency rule is the
\* database's (handlePutRecord, Check, Decode).
FirstFailureDecides ==
  asked.kind = "publish" /\ Sane(asked.lim, asked.now) =>
    AnswersInOrder(asked.b, asked.now, asked.lim, asked.limited, asked.stored)

\* Whatever limits are configured, negative ones and ones whose sums wrap
\* included, an accepted record is within them as integers: its lifetime, its
\* size and its work (Check, readLimited, pow.Verify).
AcceptedIsWithinLimits ==
  asked.kind = "publish"
    /\ PutReason(asked.b, TRUE, asked.now, asked.lim, asked.limited, asked.stored) = "Accepted"
    => ~asked.limited /\ WithinLimits(asked.b, asked.now, asked.lim, asked.stored)

\* On a serving instance a POST or a GET of a channel is answered with the
\* status of the first condition of section 5.4 that holds: 404 before 429, so
\* that nobody retries for ever against an instance that has no channels, and
\* 404 from no other; a preflight always passes, and another method never
\* (route, handlePostSignal, handleGetSignal, Post, Get, HTTPStatus).
SignalFirstFailureDecides ==
  asked.kind = "signal" /\ asked.r.readable /\ ~asked.r.closed /\ ~asked.r.full =>
    LET status == SignalAnswer(asked.method, asked.enabled, asked.r)
        fails(n) == SignalFails(SignalOrder[n], asked.method, asked.enabled, asked.r)
    IN  CASE asked.method \in {"POST", "GET", "HEAD"} ->
               \/ status \in {200, 204} /\ \A n \in DOMAIN SignalOrder : ~fails(n)
               \/ \E n \in DOMAIN SignalOrder :
                    status = StatusOrder[n] /\ fails(n) /\ \A k \in 1..(n-1) : ~fails(k)
          [] asked.method = "OPTIONS" -> status = 204
          [] OTHER -> status = 405

\* Behind a trusted proxy the entries to the left of the rightmost one that is
\* not a trusted proxy's are the client's to choose: no choice of them changes
\* the address its requests count against (Addr, walk).
SpoofedEntriesAreIgnored ==
  asked.kind = "forward" => LeftIsIgnored(asked.list, asked.peer, asked.xff)

\* A peer is trusted exactly where a field of the operator's list covers it,
\* also in a list in IPv4-in-IPv6 form or with host bits left in, and a peer
\* seen through a dual-stack listener; a list with one bad field trusts nobody
\* (ParsePrefixes, normalise, trusts).  Lists with a wide block are not among
\* them: of those the repository says what WideBlocksUseThePeer does.
TrustIsAsWritten ==
  asked.kind = "forward" /\ ~(\E i \in DOMAIN asked.list : Wide(asked.list[i]))
    => TrustedAsWritten(asked.list, asked.peer)

\* A list of wide blocks alone leaves every request with its peer's address.  A
\* mapped prefix broader than /96 "will match nothing" (clientaddr.go:392); with a
\* default route "every entry in every X-Forwarded-For chain is trusted, so the
\* walk always exhausts and the peer address is always used", and it "behaves
\* exactly as an empty list does" (main.go:263-265, docs/deploy-check.md:535).
WideBlocksUseThePeer ==
  asked.kind = "forward" /\ (\A i \in DOMAIN asked.list : Wide(asked.list[i]))
    => Addr(TrustedBy(asked.list), asked.peer, asked.xff) = Unmap(asked.peer)

\* A query selects exactly the lookup_ids that agree with it on its bits, in
\* the last partial digit and byte, beyond the width of the column and at its
\* top; and the prefix trigcheck sends for one of them finds it (Parse,
\* newQuery, Range, Matches, prefixHex).
PrefixSelectsExactly ==
  asked.kind = "prefix" =>
    /\ SelectsExactly(asked.bits, asked.digits)
    /\ \A id \in TestIds : FindsItself(asked.bits, id)
=============================================================================
