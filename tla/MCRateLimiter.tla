---------------------------- MODULE MCRateLimiter ----------------------------
(***************************************************************************)
(* An instance of RateLimiter for TLC: two sources against a table with    *)
(* room for one, and five requests, one more than twice the limit.         *)
(***************************************************************************)
EXTENDS RateLimiter, TLC

CONSTANTS r1, r2, r3, r4, r5, h1, h2, zero, n1, n2, put

FiveRequests   == {r1, r2, r3, r4, r5}
TwoHosts       == {h1, h2}
TwoHostsOrNone == {h1, h2, zero}
TwoNets        == {n1, n2}
OneClass       == {put}

\* One network to a host.
HostNet  == (h1 :> n1) @@ (h2 :> n2)

LimitTwo == [c \in Classes |-> 2]

\* Requests are interchangeable, so it is enough to let them call one after the
\* other.  The third may come from anywhere and the others from h1: it meets their
\* entry, and they meet its, and all five may be of one source.  Networks are
\* interchangeable too.
Order == <<r1, r2, r3, r4, r5>>

InOrder ==
  /\ \A i, j \in DOMAIN Order : i < j /\ pc[Order[j]] # "idle" => pc[Order[i]] # "idle"
  /\ \A r \in Requests \ {r3} : pc[r] # "idle" => addr[r] = h1

\* Only Call is cut, of which no fairness is asked.
InOrderSpec == Init /\ [][Next /\ InOrder']_vars /\ Fairness
=============================================================================
