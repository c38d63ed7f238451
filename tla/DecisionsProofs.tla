--------------------------- MODULE DecisionsProofs --------------------------
(***************************************************************************)
(* The verdicts on a publish and on a request to a channel, for every set  *)
(* of bodies, limits and clock values; the address a forwarded request is  *)
(* counted against, for every width of word, list, peer and header; and    *)
(* the lookup_ids a prefix selects, for every width of digit and column.   *)
(***************************************************************************)
EXTENDS Decisions, DirectoryProofs

-----------------------------------------------------------------------------
\* What is asked is one of the questions.
Asked == asked \in {NoQuestion} \cup Publishes \cup Signals \cup Forwards \cup Prefixes

\* It stays one of them.
LEMMA AskedIsInvariant == Spec => []Asked
<1>1. Init => Asked
  BY DEF Init, Asked
<1>2. Asked /\ [Next]_asked => Asked'
  BY DEF Asked, Next, Ask, Answered
<1>. QED BY <1>1, <1>2, PTL DEF Spec

\* A question's kind says which of the questions it is.
LEMMA KindsTellQuestionsApart ==
  ASSUME Asked
  PROVE  /\ asked.kind = "publish" => asked \in Publishes
         /\ asked.kind = "signal" => asked \in Signals
         /\ asked.kind = "forward" => asked \in Forwards
         /\ asked.kind = "prefix" => asked \in Prefixes
<1>1. asked = NoQuestion => asked.kind = "none"
  BY DEF NoQuestion
<1>2. asked \in Publishes => asked.kind = "publish"
  BY DEF Publishes
<1>3. asked \in Signals => asked.kind = "signal"
  BY DEF Signals
<1>4. asked \in Forwards => asked.kind = "forward"
  BY DEF Forwards
<1>5. asked \in Prefixes => asked.kind = "prefix"
  BY DEF Prefixes
<1>. QED BY <1>1, <1>2, <1>3, <1>4, <1>5 DEF Asked

\* handlePutRecord answers every publish with the first condition of section
\* 5.2 that fails, for all bodies, limits and clock values whose sums stay
\* within 64 bits.
THEOREM PutAnswersWithTheFirstFailure == Spec => []FirstFailureDecides
<1>1. Asked => FirstFailureDecides
  <2>. SUFFICES ASSUME Asked, asked.kind = "publish", Sane(asked.lim, asked.now)
                PROVE  AnswersInOrder(asked.b, asked.now, asked.lim, asked.limited, asked.stored)
    BY DEF FirstFailureDecides
  <2>1. /\ asked.b \in Bodies /\ asked.now \in Times /\ asked.lim \in LimitSets
        /\ asked.limited \in BOOLEAN /\ asked.stored \in Stored
    BY KindsTellQuestionsApart DEF Publishes
  <2>. QED BY <2>1, PutAnswersInOrder
<1>. QED BY <1>1, AskedIsInvariant, PTL

\* An accepted record is within its limits under every configuration: where a
\* sum wraps, the record is refused (Check, readLimited).
THEOREM AcceptanceFailsClosed == Spec => []AcceptedIsWithinLimits
<1>1. Asked => AcceptedIsWithinLimits
  <2>. SUFFICES ASSUME Asked, asked.kind = "publish",
                       PutReason(asked.b, TRUE, asked.now, asked.lim, asked.limited, asked.stored)
                         = "Accepted"
                PROVE  ~asked.limited /\ WithinLimits(asked.b, asked.now, asked.lim, asked.stored)
    BY DEF AcceptedIsWithinLimits
  <2>1. /\ asked.b \in Bodies /\ asked.now \in Times /\ asked.lim \in LimitSets
        /\ asked.limited \in BOOLEAN /\ asked.stored \in Stored
    BY KindsTellQuestionsApart DEF Publishes
  <2>. QED BY <2>1, AcceptedFailsClosed
<1>. QED BY <1>1, AskedIsInvariant, PTL

\* A serving instance answers every POST and GET of a channel with the first
\* condition of section 5.4 that holds (handlePostSignal, handleGetSignal).
THEOREM SignalAnswersWithTheFirstFailure == Spec => []SignalFirstFailureDecides
<1>1. Asked => SignalFirstFailureDecides
  <2>. SUFFICES ASSUME Asked, asked.kind = "signal", asked.r.readable, ~asked.r.closed,
                       ~asked.r.full
                PROVE  SignalFirstFailureDecides
    BY DEF SignalFirstFailureDecides
  <2>. DEFINE F(n) == SignalFails(SignalOrder[n], asked.method, asked.enabled, asked.r)
              status == SignalAnswer(asked.method, asked.enabled, asked.r)
  <2>1. /\ asked.method \in Methods /\ asked.enabled \in BOOLEAN
        /\ asked.r \in [limited : BOOLEAN, readable : BOOLEAN, channel : BOOLEAN,
                        fits : BOOLEAN, closed : BOOLEAN, held : BOOLEAN, full : BOOLEAN]
    BY KindsTellQuestionsApart DEF Signals
  <2>2. /\ DOMAIN SignalOrder = 1..5
        /\ SignalOrder[1] = "Disabled" /\ SignalOrder[2] = "RateLimited"
        /\ SignalOrder[3] = "BadChannel" /\ SignalOrder[4] = "TooLarge"
        /\ SignalOrder[5] = "Conflict"
        /\ StatusOrder[1] = 404 /\ StatusOrder[2] = 429 /\ StatusOrder[3] = 400
        /\ StatusOrder[4] = 413 /\ StatusOrder[5] = 409
    BY DEF SignalOrder, StatusOrder
  <2>3. /\ F(1) <=> ~asked.enabled
        /\ F(2) <=> asked.r.limited
        /\ F(3) <=> ~asked.r.channel
        /\ F(4) <=> asked.method = "POST" /\ ~asked.r.fits
        /\ F(5) <=> asked.method = "POST" /\ asked.r.held
    BY <2>1, <2>2 DEF SignalFails
  <2>4. /\ asked.method = "POST" => Dispatch(asked.method, "signal") = <<"POST", "signal">>
        /\ asked.method \in {"GET", "HEAD"} => Dispatch(asked.method, "signal") = <<"GET", "signal">>
        /\ asked.method = "OPTIONS" => Dispatch(asked.method, "signal") = <<"OPTIONS", "signal">>
        /\ asked.method = "PUT" => Dispatch(asked.method, "signal") = <<405>>
    BY DEF Dispatch, Routes
  <2>5. asked.method \in {"POST", "GET", "HEAD"} =>
          /\ ~F(1) /\ ~F(2) /\ ~F(3) /\ ~F(4) /\ ~F(5) => status \in {200, 204}
          /\ F(1) => status = 404
          /\ ~F(1) /\ F(2) => status = 429
          /\ ~F(1) /\ ~F(2) /\ F(3) => status = 400
          /\ ~F(1) /\ ~F(2) /\ ~F(3) /\ F(4) => status = 413
          /\ ~F(1) /\ ~F(2) /\ ~F(3) /\ ~F(4) /\ F(5) => status = 409
    <3>1. CASE asked.method = "POST"
      <4>1. status = SignalStatus(PostSignal(asked.enabled, asked.r))
        BY <2>4, <3>1 DEF SignalAnswer
      <4>. QED BY <2>1, <2>3, <3>1, <4>1 DEF PostSignal, SignalStatus
    <3>2. CASE asked.method \in {"GET", "HEAD"}
      <4>1. status = SignalStatus(GetSignal(asked.enabled, asked.r))
        BY <2>4, <3>2 DEF SignalAnswer
      <4>2. ~F(4) /\ ~F(5)
        BY <2>3, <3>2
      <4>. QED BY <2>1, <2>3, <3>2, <4>1, <4>2 DEF GetSignal, SignalStatus
    <3>. QED BY <3>1, <3>2
  <2>6. asked.method \in {"POST", "GET", "HEAD"} =>
          \/ status \in {200, 204} /\ \A n \in 1..5 : ~F(n)
          \/ \E n \in 1..5 : status = StatusOrder[n] /\ F(n) /\ \A k \in 1..(n-1) : ~F(k)
    <3>. HIDE DEF F, status
    <3>. HAVE asked.method \in {"POST", "GET", "HEAD"}
    <3>1. CASE ~F(1) /\ ~F(2) /\ ~F(3) /\ ~F(4) /\ ~F(5)
      <4>1. \A n \in 1..5 : n = 1 \/ n = 2 \/ n = 3 \/ n = 4 \/ n = 5
        OBVIOUS
      <4>. QED BY <2>5, <3>1, <4>1
    <3>2. CASE F(1)
      BY <2>2, <2>5, <3>2
    <3>3. CASE ~F(1) /\ F(2)
      BY <2>2, <2>5, <3>3
    <3>4. CASE ~F(1) /\ ~F(2) /\ F(3)
      BY <2>2, <2>5, <3>4
    <3>5. CASE ~F(1) /\ ~F(2) /\ ~F(3) /\ F(4)
      BY <2>2, <2>5, <3>5
    <3>6. CASE ~F(1) /\ ~F(2) /\ ~F(3) /\ ~F(4) /\ F(5)
      BY <2>2, <2>5, <3>6
    <3>. QED BY <3>1, <3>2, <3>3, <3>4, <3>5, <3>6
  <2>7. asked.method = "OPTIONS" => status = 204
    BY <2>4 DEF SignalAnswer, Preflight
  <2>8. asked.method = "PUT" => status = 405
    BY <2>4 DEF SignalAnswer
  <2>. HIDE DEF F, status
  <2>9. CASE asked.method \in {"POST", "GET", "HEAD"}
    BY <2>2, <2>6, <2>9 DEF SignalFirstFailureDecides, F, status
  <2>10. CASE asked.method = "OPTIONS"
    BY <2>7, <2>10 DEF SignalFirstFailureDecides, status
  <2>11. CASE asked.method = "PUT"
    BY <2>8, <2>11 DEF SignalFirstFailureDecides, status
  <2>. QED BY <2>1, <2>9, <2>10, <2>11 DEF Methods
<1>. QED BY <1>1, AskedIsInvariant, PTL

-----------------------------------------------------------------------------
\* w is what walk (clientaddr.go) makes of the first m entries.
IsWalk(w, m, trusted, peer, xff) ==
  w = [n \in 0..m |->
         IF n = 0 \/ ~Understood(xff[n]) THEN peer
         ELSE IF Trusts(trusted, ParseEntry(xff[n])) THEN w[n - 1]
         ELSE ParseEntry(xff[n])]

\* The recursion of Walk has a solution over any number of entries.
LEMMA WalksExist ==
  ASSUME NEW trusted, NEW peer, NEW xff
  PROVE  \A m \in Nat : \E w : IsWalk(w, m, trusted, peer, xff)
<1> DEFINE V(n, before) == IF n = 0 \/ ~Understood(xff[n]) THEN peer
                           ELSE IF Trusts(trusted, ParseEntry(xff[n])) THEN before
                           ELSE ParseEntry(xff[n])
           W(w, m) == w = [n \in 0..m |-> V(n, w[n - 1])]
<1>1. \A w, m : IsWalk(w, m, trusted, peer, xff) <=> W(w, m)
  BY Zenon DEF IsWalk
<1>2. \A b : V(0, b) = peer
  OBVIOUS
<1> HIDE DEF V
<1> DEFINE Bad == {m \in Nat : ~\E w : W(w, m)}
<1> SUFFICES ASSUME Bad # {} PROVE FALSE
  BY <1>1
<1>3. PICK m \in Bad : \A k \in Bad : m <= k
  BY LeastNat
<1>4. m \in Nat /\ ~\E w : W(w, m)
  OBVIOUS
<1>5. m # 0
  <2> DEFINE z == [n \in 0..0 |-> peer]
  <2>1. W(z, 0)
    BY <1>2
  <2> QED BY <1>4, <2>1
<1>6. m - 1 \in Nat /\ ~(m <= m - 1)
  BY <1>4, <1>5
<1>7. m - 1 \notin Bad
  <2> HIDE DEF Bad
  <2> QED BY <1>3, <1>6
<1>8. PICK p : W(p, m - 1)
  BY <1>6, <1>7
<1> DEFINE q == [n \in 0..m |-> IF n = m THEN V(m, p[m - 1]) ELSE p[n]]
<1>9. \A n \in 0..m : q[n] = V(n, q[n - 1])
  <2>1. \A n \in 0..(m - 1) : p[n] = V(n, p[n - 1])
    BY <1>8
  <2> SUFFICES ASSUME NEW n \in 0..m PROVE q[n] = V(n, q[n - 1])
    OBVIOUS
  <2>2. CASE n = m
    <3>1. q[n] = V(m, p[m - 1]) /\ q[m - 1] = p[m - 1]
      BY <1>4, <1>5, <1>6, <2>2
    <3> QED BY <2>2, <3>1
  <2>3. CASE n # m /\ n # 0
    <3>1. n \in 0..(m - 1) /\ n - 1 \in 0..m /\ n - 1 # m
      BY <1>4, <2>3
    <3>2. q[n] = p[n] /\ q[n - 1] = p[n - 1]
      BY <2>3, <3>1
    <3> QED BY <2>1, <3>1, <3>2
  <2>4. CASE n # m /\ n = 0
    <3>1. q[0] = p[0] /\ 0 \in 0..(m - 1) BY <1>6, <2>4
    <3>2. p[0] = peer BY <1>2, <2>1, <3>1
    <3> QED BY <1>2, <2>4, <3>1, <3>2
  <2> QED BY <2>2, <2>3, <2>4
<1>10. W(q, m)
  <2>1. q = [n \in 0..m |-> q[n]]
    OBVIOUS
  <2> HIDE DEF q
  <2> QED BY <1>9, <2>1
<1> QED BY <1>4, <1>10

\* Walk picks the solution of its recursion, at the number of entries.
LEMMA WalkPicks ==
  ASSUME NEW trusted, NEW peer, NEW xff
  PROVE  Walk(trusted, peer, xff)
           = (CHOOSE w : IsWalk(w, Len(xff), trusted, peer, xff))[Len(xff)]
BY Zenon DEF Walk, IsWalk

\* A walk that ends at entry e ends there whatever is to its left: at its
\* address, or at the peer where it is not understood.
LEMMA WalkEndsAt ==
  ASSUME NEW trusted, NEW peer, NEW xff \in Seq(Entries), NEW e \in 1..Len(xff),
         Ends(trusted, xff[e]), \A j \in (e + 1)..Len(xff) : ~Ends(trusted, xff[j])
  PROVE  Walk(trusted, peer, xff) = IF Understood(xff[e]) THEN ParseEntry(xff[e]) ELSE peer
<1> DEFINE m == Len(xff)
           v == IF Understood(xff[e]) THEN ParseEntry(xff[e]) ELSE peer
           w == CHOOSE w : IsWalk(w, m, trusted, peer, xff)
<1>1. m \in Nat
  OBVIOUS
<1>2. IsWalk(w, m, trusted, peer, xff)
  <2>1. \E u : IsWalk(u, m, trusted, peer, xff)
    BY <1>1, WalksExist
  <2> QED BY <2>1
<1>3. Walk(trusted, peer, xff) = w[m]
  BY WalkPicks
<1> HIDE DEF w
<1>4. \A n \in 1..m : w[n] = IF ~Understood(xff[n]) THEN peer
                            ELSE IF Trusts(trusted, ParseEntry(xff[n])) THEN w[n - 1]
                            ELSE ParseEntry(xff[n])
  <2>1. w = [n \in 0..m |->
               IF n = 0 \/ ~Understood(xff[n]) THEN peer
               ELSE IF Trusts(trusted, ParseEntry(xff[n])) THEN w[n - 1]
               ELSE ParseEntry(xff[n])]
    BY ONLY <1>2 DEF IsWalk
  <2> SUFFICES ASSUME NEW n \in 1..m
               PROVE  w[n] = IF ~Understood(xff[n]) THEN peer
                             ELSE IF Trusts(trusted, ParseEntry(xff[n])) THEN w[n - 1]
                             ELSE ParseEntry(xff[n])
    OBVIOUS
  <2>2. n \in 0..m /\ n # 0
    BY <1>1
  <2>3. w[n] = IF n = 0 \/ ~Understood(xff[n]) THEN peer
               ELSE IF Trusts(trusted, ParseEntry(xff[n])) THEN w[n - 1]
               ELSE ParseEntry(xff[n])
    BY ONLY <2>1, <2>2, Zenon
  <2> QED BY ONLY <2>2, <2>3
<1>5. w[e] = v
  BY <1>4 DEF Ends
<1> DEFINE Bad == {n \in e..m : w[n] # v}
<1>6. Bad = {}
  <2> SUFFICES ASSUME Bad # {} PROVE FALSE OBVIOUS
  <2>1. Bad \in SUBSET Nat
    BY <1>1
  <2>2. PICK n \in Bad : \A k \in Bad : n <= k
    <3> HIDE DEF Bad
    <3> QED BY <2>1, LeastNat
  <2>3. n \in e..m /\ w[n] # v OBVIOUS
  <2>4. n # e BY <1>5, <2>3
  <2> HIDE DEF v
  <2>5. n \in (e + 1)..m /\ n \in 1..m /\ n - 1 \in e..m /\ ~(n <= n - 1)
    BY <1>1, <2>3, <2>4
  <2>6. w[n - 1] = v BY <2>2, <2>5
  <2>7. w[n] = w[n - 1] BY <1>4, <2>5 DEF Ends
  <2> QED BY <2>3, <2>6, <2>7
<1>7. w[m] = v
  BY <1>1, <1>6
<1> QED BY <1>3, <1>7

\* The addresses in front of the rightmost entry that is not a trusted proxy's
\* change nothing, for any header, peer and list (Addr, walk).
LEMMA LeftMakesNoDifference ==
  ASSUME NEW list, NEW peer, NEW xff \in Seq(Entries),
         NEW left \in Seq(Entries), \E i \in DOMAIN xff : Ends(TrustedBy(list), xff[i])
  PROVE  Addr(TrustedBy(list), peer, left \o xff) = Addr(TrustedBy(list), peer, xff)
<1> DEFINE T == TrustedBy(list)
           S == {i \in 1..Len(xff) : Ends(T, xff[i])}
           both == left \o xff
<1> HIDE DEF T
<1>1. \E i \in DOMAIN xff : Ends(T, xff[i])
  BY DEF T
<1>2. S \in SUBSET Nat /\ S # {} /\ Len(xff) \in Nat /\ \A x \in S : x <= Len(xff)
  BY <1>1
<1>3. PICK e \in S : \A y \in S : y <= e
  <2> HIDE DEF S
  <2> QED BY <1>2, GreatestNat
<1>4. e \in 1..Len(xff) /\ Ends(T, xff[e])
  OBVIOUS
<1>5. \A j \in (e + 1)..Len(xff) : ~Ends(T, xff[j])
  <2> SUFFICES ASSUME NEW j \in (e + 1)..Len(xff), Ends(T, xff[j]) PROVE FALSE
    OBVIOUS
  <2>1. j \in 1..Len(xff) /\ ~(j <= e) BY <1>2, <1>4
  <2>2. j \in S BY <2>1
  <2> HIDE DEF S
  <2> QED BY <1>3, <2>1, <2>2
<1> DEFINE k == Len(left) + e
<1>6. /\ both \in Seq(Entries) /\ Len(both) = Len(left) + Len(xff) /\ Len(left) \in Nat
      /\ \A j \in 1..Len(xff) : both[Len(left) + j] = xff[j]
  OBVIOUS
<1>7. k \in 1..Len(both) /\ both[k] = xff[e]
  BY <1>2, <1>4, <1>6
<1>8. \A j \in (k + 1)..Len(both) : ~Ends(T, both[j])
  <2> SUFFICES ASSUME NEW j \in (k + 1)..Len(both) PROVE ~Ends(T, both[j])
    OBVIOUS
  <2> DEFINE i == j - Len(left)
  <2>1. i \in (e + 1)..Len(xff) /\ j = Len(left) + i /\ i \in 1..Len(xff)
    BY <1>2, <1>4, <1>6
  <2> HIDE DEF i, both
  <2>2. both[j] = xff[i] BY <1>6, <2>1
  <2> QED BY <1>5, <2>1, <2>2
<1> HIDE DEF both, k
<1>9. \A p : Walk(T, p, xff) = IF Understood(xff[e]) THEN ParseEntry(xff[e]) ELSE p
  BY <1>4, <1>5, WalkEndsAt
<1>10. \A p : Walk(T, p, both) = IF Understood(both[k]) THEN ParseEntry(both[k]) ELSE p
  BY <1>4, <1>6, <1>7, <1>8, WalkEndsAt
<1>11. \A p : Walk(T, p, both) = Walk(T, p, xff)
  BY <1>7, <1>9, <1>10
<1> QED BY <1>11 DEF Addr, T, both

\* A client behind a trusted proxy cannot choose the address it is counted
\* against, by any header of its own (clientaddr.go).
THEOREM SpoofingIsFutile == Spec => []SpoofedEntriesAreIgnored
<1>1. Headers \subseteq Seq(Entries)
  BY DEF Headers
<1>2. ASSUME Asked PROVE SpoofedEntriesAreIgnored
  <2> SUFFICES ASSUME asked.kind = "forward"
               PROVE  LeftIsIgnored(asked.list, asked.peer, asked.xff)
    BY DEF SpoofedEntriesAreIgnored
  <2>1. asked \in Forwards
    BY <1>2, KindsTellQuestionsApart
  <2>2. asked.xff \in Seq(Entries)
    BY <1>1, <2>1 DEF Forwards
  <2> QED BY <1>1, <2>2, LeftMakesNoDifference DEF LeftIsIgnored
<1> QED BY <1>2, AskedIsInvariant, PTL

-----------------------------------------------------------------------------
\* The hosts and the host part of a block.
HostBits(p) == BitLen(p.addr) - p.bits

\* normalise makes an IPv4 block of this one.
Converts(p) == Is4In6(p.addr) /\ p.bits >= W6 - W4

Converted(p) == [addr |-> Unmap(p.addr), bits |-> p.bits - (W6 - W4)]

\* The widths, and the powers they stand for.
LEMMA WidthsAre ==
  W4 \in Nat /\ W6 \in Nat /\ W4 <= W6 /\ W6 - W4 \in Nat
BY ClientAddrAssumption

\* The 96 leading bits of a mapped address are a number.
LEMMA TagIs == Tag \in Nat
<1>1. Pow(2, W6 - W4) \in Nat BY WidthsAre, TwoPowers
<1> QED BY <1>1, ClientAddrAssumption

\* What an address is made of.
LEMMA HostIs ==
  ASSUME NEW a \in Hosts
  PROVE  /\ a.fam \in {4, 6} /\ a.n \in Nat
         /\ a.fam = 4 => ~a.zone /\ a.n < Pow(2, W4)
         /\ a.fam = 6 => a.n < Pow(2, W6)
<1> DEFINE t == Pow(2, W4)
           u == Pow(2, W6)
<1>1. t \in Nat /\ u \in Nat
  BY WidthsAre, TwoPowers
<1>2. a \in [fam : {4}, n : 0..(t - 1), zone : {FALSE}] \/ a \in [fam : {6}, n : 0..(u - 1), zone : BOOLEAN]
  BY DEF Hosts
<1> HIDE DEF t, u
<1>3. CASE a \in [fam : {4}, n : 0..(t - 1), zone : {FALSE}]
  <2>1. a.fam = 4 /\ a.n \in 0..(t - 1) /\ a.zone \in {FALSE} BY <1>3
  <2>2. ~a.zone BY <2>1
  <2>3. a.n \in Nat /\ a.n < t BY <1>1, <2>1
  <2> QED BY <2>1, <2>2, <2>3 DEF t
<1>4. CASE a \in [fam : {6}, n : 0..(u - 1), zone : BOOLEAN]
  BY <1>1, <1>4 DEF u
<1> QED BY <1>2, <1>3, <1>4

\* What a block is made of.
LEMMA BlockIs ==
  ASSUME NEW p \in Blocks
  PROVE  /\ p = [addr |-> p.addr, bits |-> p.bits]
         /\ p.addr \in Hosts /\ ~p.addr.zone
         /\ p.addr = [fam |-> p.addr.fam, n |-> p.addr.n, zone |-> FALSE]
         /\ p.addr.fam \in {4, 6} /\ p.addr.n \in Nat
         /\ BitLen(p.addr) = (IF p.addr.fam = 4 THEN W4 ELSE W6)
         /\ p.addr.n < Pow(2, BitLen(p.addr))
         /\ p.bits \in Nat /\ HostBits(p) \in Nat
<1>1. /\ p \in [addr : Hosts, bits : 0..W6] /\ ~p.addr.zone /\ p.bits <= BitLen(p.addr)
  BY DEF Blocks
<1>2. BitLen(p.addr) \in Nat /\ BitLen(p.addr) = IF p.addr.fam = 4 THEN W4 ELSE W6
  BY WidthsAre DEF BitLen
<1>3. p.addr \in Hosts /\ p.bits \in 0..W6 /\ p = [addr |-> p.addr, bits |-> p.bits]
  BY <1>1
<1>4. Pow(2, W4) \in Nat /\ Pow(2, W6) \in Nat
  BY WidthsAre, TwoPowers
<1> DEFINE a == p.addr
<1>5. a \in Hosts /\ ~a.zone BY <1>1, <1>3
<1> HIDE DEF a
<1>6. /\ a = [fam |-> a.fam, n |-> a.n, zone |-> FALSE]
      /\ \/ a.fam = 4 /\ a.n \in 0..(Pow(2, W4) - 1)
         \/ a.fam = 6 /\ a.n \in 0..(Pow(2, W6) - 1)
  BY <1>5 DEF Hosts
<1>7. a.fam \in {4, 6} /\ a.n \in Nat /\ a.n < Pow(2, BitLen(a))
  BY <1>4, <1>6 DEF BitLen
<1>8. HostBits(p) \in Nat
  BY <1>1, <1>2, <1>3 DEF HostBits
<1> QED BY <1>1, <1>2, <1>3, <1>6, <1>7, <1>8 DEF a

\* Clearing the host bits leaves the block what it contains (netip's Masked).
LEMMA MaskingKeeps ==
  ASSUME NEW p \in Blocks
  PROVE  /\ Masked(p) \in Blocks
         /\ Masked(p).addr.fam = p.addr.fam /\ Masked(p).bits = p.bits
         /\ \A b : Contains(Masked(p), b) <=> Contains(p, b)
         /\ Masked(p).addr.n = (p.addr.n \div Pow(2, HostBits(p))) * Pow(2, HostBits(p))
<1> DEFINE a == p.addr
           s == Pow(2, HostBits(p))
           q == a.n \div s
           m == [addr |-> [fam |-> a.fam, n |-> q * s, zone |-> FALSE], bits |-> p.bits]
<1>1. /\ s \in Nat \ {0} /\ a.n \in Nat
  BY BlockIs, TwoPowers
<1>2. q \in Nat /\ q * s \in Nat /\ q * s <= a.n /\ Network(a, p.bits) = q
  <2>1. q \in Nat /\ q * s <= a.n
    <3> HIDE DEF s
    <3> QED BY <1>1, DivIs
  <2>2. q * s \in Nat
    <3> HIDE DEF s, q
    <3> QED BY <1>1, <2>1
  <2> QED BY <2>1, <2>2 DEF Network, HostBits
<1>3. Masked(p) = m
  <2>1. a.fam \in {4, 6}
    BY BlockIs
  <2>2. Masked(p) = [addr |-> IF a.fam = 4 THEN V4(q * s) ELSE V6(q * s), bits |-> p.bits]
    BY <1>2 DEF Masked, HostBits
  <2>3. (IF a.fam = 4 THEN V4(q * s) ELSE V6(q * s)) = [fam |-> a.fam, n |-> q * s, zone |-> FALSE]
    <3> HIDE DEF a, q, s
    <3> QED BY <2>1 DEF V4, V6
  <2> HIDE DEF a, q, s
  <2> QED BY <2>2, <2>3
<1>4. BitLen(m.addr) = BitLen(a)
  BY DEF BitLen
<1>5. m \in Blocks
  <2> HIDE DEF q, s
  <2>1. p.bits \in 0..W6 /\ p.bits <= BitLen(a) /\ a \in Hosts
    BY DEF Blocks
  <2>2. m.addr \in Hosts
    <3>1. a.fam \in {4, 6} /\ a.n < Pow(2, BitLen(a)) /\ Pow(2, W4) \in Nat /\ Pow(2, W6) \in Nat
      BY BlockIs, WidthsAre, TwoPowers
    <3>2. CASE a.fam = 4
      <4>1. q * s \in 0..(Pow(2, W4) - 1)
        BY <1>1, <1>2, <3>1, <3>2 DEF BitLen
      <4> HIDE DEF a
      <4> QED BY <3>2, <4>1 DEF Hosts
    <3>3. CASE a.fam = 6
      <4>1. q * s \in 0..(Pow(2, W6) - 1)
        BY <1>1, <1>2, <3>1, <3>3 DEF BitLen
      <4> HIDE DEF a
      <4> QED BY <3>3, <4>1 DEF Hosts
    <3> QED BY <3>1, <3>2, <3>3
  <2>3. ~m.addr.zone /\ m.bits = p.bits OBVIOUS
  <2>4. m \in [addr : Hosts, bits : 0..W6]
    BY <2>1, <2>2
  <2> QED BY <1>4, <2>1, <2>3, <2>4 DEF Blocks
<1>6. Network(m.addr, m.bits) = q
  <2>1. (q * s) \div s = q
    <3> HIDE DEF q, s
    <3>1. q * s + 0 = q * s /\ 0 \in Nat /\ 0 < s BY <1>1, <1>2
    <3>2. (q * s + 0) \div s = q BY <1>1, <1>2, <3>1, DivOfSum
    <3> QED BY <3>1, <3>2
  <2>2. Pow(2, BitLen(m.addr) - m.bits) = s
    BY <1>4 DEF HostBits
  <2> QED BY <2>1, <2>2 DEF Network
<1>7. \A b : Contains(m, b) <=> Contains(p, b)
  <2>1. m.addr.fam = p.addr.fam /\ Network(m.addr, m.bits) = Network(p.addr, p.bits) /\ m.bits = p.bits
    BY <1>2, <1>6
  <2> HIDE DEF m
  <2> QED BY <2>1 DEF Contains
<1>8. m.addr.fam = p.addr.fam /\ m.bits = p.bits /\ m.addr.n = q * s
  OBVIOUS
<1> HIDE DEF m
<1> QED BY <1>3, <1>5, <1>7, <1>8, Zenon

\* Unmap answers an address that is no longer in IPv4-in-IPv6 form.
LEMMA UnmapIs ==
  ASSUME NEW a \in Hosts
  PROVE  Unmap(a) \in Hosts /\ ~Is4In6(Unmap(a)) /\ (~a.zone => ~Unmap(a).zone)
<1> DEFINE t == Pow(2, W4)
<1>1. t \in Nat \ {0}
  BY WidthsAre, TwoPowers
<1>2. a.n \in Nat BY HostIs
<1>3. a.n % t \in 0..(t - 1)
  <2> HIDE DEF t
  <2> QED BY <1>1, <1>2
<1>4. CASE Is4In6(a)
  <2>1. Unmap(a) = V4(a.n % t)
    BY <1>4 DEF Unmap
  <2> HIDE DEF t
  <2>2. V4(a.n % t) \in [fam : {4}, n : 0..(t - 1), zone : {FALSE}]
    BY <1>3 DEF V4
  <2>3. V4(a.n % t).fam = 4 /\ ~V4(a.n % t).zone
    BY DEF V4
  <2>4. V4(a.n % t) \in Hosts
    BY <2>2 DEF Hosts, t
  <2> QED BY <2>1, <2>3, <2>4 DEF Is4In6
<1>5. CASE ~Is4In6(a)
  BY <1>5 DEF Unmap
<1> QED BY <1>4, <1>5

\* Numbers alike but for their k lowest bits are alike but for their W4 lowest.
LEMMA HighBitsAgree ==
  ASSUME NEW x \in Nat, NEW y \in Nat, NEW k \in 0..W4, x \div Pow(2, k) = y \div Pow(2, k)
  PROVE  x \div Pow(2, W4) = y \div Pow(2, W4)
<1>1. k \in Nat /\ W4 - k \in Nat /\ W4 = k + (W4 - k)
  BY WidthsAre
<1>2. Pow(2, W4) = Pow(2, k) * Pow(2, W4 - k)
  BY <1>1, TwoPowers
<1>3. Pow(2, k) \in Nat \ {0} /\ Pow(2, W4 - k) \in Nat \ {0}
  BY <1>1, TwoPowers
<1>4. /\ x \div Pow(2, W4) = (x \div Pow(2, k)) \div Pow(2, W4 - k)
      /\ y \div Pow(2, W4) = (y \div Pow(2, k)) \div Pow(2, W4 - k)
  BY <1>2, <1>3, DivDiv
<1> QED BY <1>4

\* What normalise turns a mapped block into is a block, with the same host part.
LEMMA ConvertedIs ==
  ASSUME NEW p \in Blocks, Converts(p)
  PROVE  /\ Converted(p) \in Blocks
         /\ Converted(p).addr = V4(p.addr.n % Pow(2, W4))
         /\ p.addr.fam = 6 /\ p.addr.n \div Pow(2, W4) = Tag
         /\ HostBits(p) = W6 - p.bits /\ HostBits(p) \in 0..W4
         /\ HostBits(Converted(p)) = HostBits(p)
<1> DEFINE a == p.addr
           u == V4(a.n % Pow(2, W4))
           b == p.bits - (W6 - W4)
<1>1. a \in Hosts /\ a.fam = 6 /\ a.n \div Pow(2, W4) = Tag /\ Unmap(a) = u
  BY BlockIs DEF Converts, Is4In6, Unmap
<1>2. p.bits \in Nat /\ p.bits >= W6 - W4 /\ BitLen(a) = W6 /\ HostBits(p) \in Nat
  <2>1. p.bits \in Nat /\ HostBits(p) \in Nat BY BlockIs
  <2>2. p.bits >= W6 - W4 BY DEF Converts
  <2>3. BitLen(a) = W6 BY <1>1 DEF BitLen
  <2> QED BY <2>1, <2>2, <2>3
<1>3. HostBits(p) = W6 - p.bits /\ HostBits(p) \in 0..W4
  BY <1>2, WidthsAre DEF HostBits
<1>4. b \in 0..W4 /\ W4 - b = HostBits(p) /\ W4 <= W6
  BY <1>2, <1>3, WidthsAre, ClientAddrAssumption
<1>5. u \in Hosts /\ ~u.zone /\ u.fam = 4
  BY <1>1, UnmapIs DEF V4
<1>6. BitLen(u) = W4
  BY <1>5 DEF BitLen
<1>7. Converted(p) = [addr |-> u, bits |-> b]
  BY <1>1 DEF Converted
<1> HIDE DEF u, b
<1>8. [addr |-> u, bits |-> b] \in Blocks
  BY <1>4, <1>5, <1>6, WidthsAre DEF Blocks
<1>9. HostBits([addr |-> u, bits |-> b]) = HostBits(p)
  <2>1. HostBits([addr |-> u, bits |-> b]) = W4 - b BY <1>6 DEF HostBits
  <2> QED BY <1>4, <2>1
<1>10. [addr |-> u, bits |-> b].addr = u OBVIOUS
<1>11. Converted(p).addr = V4(p.addr.n % Pow(2, W4))
  BY <1>7, <1>10 DEF u
<1> QED BY <1>1, <1>3, <1>7, <1>8, <1>9, <1>11

\* The IPv4 block normalise makes of a mapped one holds exactly the hosts whose
\* mapped spelling the operator's block holds.
LEMMA ConversionKeeps ==
  ASSUME NEW p \in Blocks, Converts(p), NEW b \in Hosts, b.fam = 4
  PROVE  Contains(Converted(p), b) <=> Contains(p, Mapped(b))
<1> DEFINE t == Pow(2, W4)
           s == Pow(2, HostBits(p))
           h == Pow(2, W4 - HostBits(p))
           r == p.addr.n % t
<1>1. HostBits(p) \in Nat /\ W4 - HostBits(p) \in Nat /\ W4 = HostBits(p) + (W4 - HostBits(p))
  BY ConvertedIs, WidthsAre
<1>2. t \in Nat \ {0} /\ s \in Nat \ {0} /\ h \in Nat \ {0} /\ t = s * h
  <2>1. Pow(2, HostBits(p) + (W4 - HostBits(p))) = s * h
    BY <1>1, TwoPowers
  <2> QED BY <1>1, <2>1, WidthsAre, TwoPowers
<1>3. p.addr.n \in Nat /\ Tag \in Nat /\ p.addr.n \div t = Tag
  BY BlockIs, ConvertedIs, TagIs
<1>4. ~b.zone /\ b.n \in 0..(t - 1)
  <2>1. ~b.zone /\ b.n \in Nat /\ b.n < t BY HostIs
  <2> QED BY <1>2, <2>1
<1>5. Mapped(b) = V6(Tag * t + b.n) /\ V6(Tag * t + b.n).n = Tag * t + b.n
  BY DEF Mapped, V6
<1>6. Contains(p, Mapped(b)) <=> (Tag * t + b.n) \div s = p.addr.n \div s
  <2>1. p.addr.fam = 6 /\ V6(Tag * t + b.n).fam = 6 /\ ~V6(Tag * t + b.n).zone
    BY ConvertedIs DEF V6
  <2>2. BitLen(V6(Tag * t + b.n)) - p.bits = HostBits(p) /\ BitLen(p.addr) - p.bits = HostBits(p)
    BY <2>1, ConvertedIs DEF BitLen, HostBits
  <2> HIDE DEF t
  <2> QED BY <1>5, <2>1, <2>2 DEF Contains, Network
<1>7. Contains(Converted(p), b) <=> b.n \div s = r \div s
  <2> DEFINE c == Converted(p)
  <2>1. c.addr.fam = 4 /\ c.addr.n = r
    <3>1. c.addr = V4(r) BY ConvertedIs
    <3> HIDE DEF c, r
    <3> QED BY <3>1 DEF V4
  <2>2. BitLen(b) - c.bits = HostBits(p) /\ BitLen(c.addr) - c.bits = HostBits(p)
    <3>1. HostBits(c) = HostBits(p) BY ConvertedIs
    <3>2. BitLen(b) = BitLen(c.addr) BY <2>1 DEF BitLen
    <3> QED BY <3>1, <3>2 DEF HostBits
  <2> HIDE DEF c, r
  <2>3. Contains(c, b) <=> b.n \div s = r \div s
    BY <1>4, <2>1, <2>2 DEF Contains, Network
  <2> QED BY <2>3 DEF c
<1> HIDE DEF t, s, h
<1>8. r \in Nat /\ r < t /\ p.addr.n = Tag * t + r
  BY <1>2, <1>3, DivMod
<1> HIDE DEF r
<1>9. /\ (Tag * t + b.n) \div s = Tag * h + (b.n \div s)
      /\ p.addr.n \div s = Tag * h + (r \div s)
  <2>1. /\ (Tag * (s * h) + b.n) \div s = Tag * h + (b.n \div s)
        /\ (Tag * (s * h) + r) \div s = Tag * h + (r \div s)
    <3>1. b.n \in Nat BY <1>2, <1>4
    <3>2. s \in Nat \ {0} /\ h \in Nat \ {0} /\ Tag \in Nat BY <1>2, <1>3
    <3>3. (Tag * (s * h) + b.n) \div s = Tag * h + (b.n \div s)
      BY <3>1, <3>2, DivOfHigh, Zenon
    <3>4. r \in Nat BY <1>8
    <3>5. (Tag * (s * h) + r) \div s = Tag * h + (r \div s)
      BY <3>2, <3>4, DivOfHigh, Zenon
    <3> QED BY <3>3, <3>5
  <2> QED BY <1>2, <1>8, <2>1
<1>10. b.n \div s \in 0..(h - 1) /\ r \div s \in 0..(h - 1)
  <2>1. b.n \in Nat /\ b.n < s * h /\ r < s * h BY <1>2, <1>4, <1>8
  <2> QED BY <1>2, <1>8, <2>1, DivBelow
<1>11. (Tag * t + b.n) \div s = p.addr.n \div s <=> b.n \div s = r \div s
  <2>1. Tag * h \in Nat BY <1>2, <1>3
  <2> QED BY <1>9, <1>10, <2>1
<1> QED BY <1>6, <1>7, <1>11

\* ParsePrefixes and New both normalise; the second time changes nothing.
LEMMA NormalisedTwice ==
  ASSUME NEW p \in Blocks, NEW b
  PROVE  Contains(Normalise(Normalise(p)), b)
           <=> Contains(IF Converts(p) THEN Converted(p) ELSE p, b)
<1> DEFINE q == IF Converts(p) THEN Converted(p) ELSE p
           m == Masked(q)
<1>1. Normalise(p) = m
  BY DEF Normalise, Converts, Converted
<1>2. q \in Blocks
  BY ConvertedIs
<1>3. m \in Blocks /\ m.addr.fam = q.addr.fam /\ m.bits = q.bits
      /\ (Contains(m, b) <=> Contains(q, b))
  <2> HIDE DEF q
  <2> QED BY <1>2, MaskingKeeps
<1>4. ~Converts(m)
  <2>1. CASE Converts(p)
    <3>1. m.addr.fam = 4
      <4>1. m.addr.fam = Converted(p).addr.fam BY <1>3, <2>1
      <4>2. Converted(p).addr = V4(p.addr.n % Pow(2, W4)) BY <2>1, ConvertedIs
      <4>3. \A x : V4(x).fam = 4 BY DEF V4
      <4> QED BY <4>1, <4>2, <4>3
    <3> HIDE DEF m
    <3> QED BY <3>1 DEF Converts, Is4In6
  <2>2. CASE ~Converts(p)
    <3>1. q = p BY <2>2
    <3> SUFFICES ASSUME p.addr.fam = 6, p.bits >= W6 - W4, Is4In6(m.addr) PROVE FALSE
      <4> HIDE DEF m
      <4> QED BY <1>3, <3>1 DEF Converts, Is4In6
    <3> DEFINE s == Pow(2, HostBits(p))
               d == p.addr.n \div s
    <3>2. HostBits(p) \in 0..W4
      <4>1. HostBits(p) \in Nat /\ p.bits \in Nat BY BlockIs
      <4>2. HostBits(p) = W6 - p.bits BY DEF HostBits, BitLen
      <4> QED BY <4>1, <4>2, WidthsAre
    <3>3. s \in Nat \ {0} /\ p.addr.n \in Nat
      BY BlockIs, TwoPowers
    <3>4. m.addr.n = d * s
      BY <3>1, MaskingKeeps
    <3>5. d \in Nat
      <4> HIDE DEF s
      <4> QED BY <3>3, DivIs
    <3>6. d * s \in Nat /\ (d * s) \div s = d
      <4> HIDE DEF s, d
      <4>1. d * s \in Nat /\ d * s + 0 = d * s /\ 0 \in Nat /\ 0 < s BY <3>3, <3>5
      <4>2. (d * s + 0) \div s = d BY <3>3, <3>5, <4>1, DivOfSum
      <4> QED BY <4>1, <4>2
    <3>7. (d * s) \div Pow(2, W4) = p.addr.n \div Pow(2, W4)
      <4> HIDE DEF d
      <4>1. (d * s) \div s = p.addr.n \div s BY <3>6 DEF d
      <4> QED BY <3>2, <3>3, <3>6, <4>1, HighBitsAgree
    <3> HIDE DEF m, s, d
    <3>8. Is4In6(p.addr)
      BY <3>4, <3>7 DEF Is4In6
    <3> QED BY <2>2, <3>8 DEF Converts
  <2> QED BY <2>1, <2>2
<1> HIDE DEF m
<1>5. Normalise(m) = Masked(m)
  BY <1>4 DEF Normalise, Converts
<1>6. Contains(Masked(m), b) <=> Contains(m, b)
  BY <1>3, MaskingKeeps
<1> QED BY <1>1, <1>3, <1>5, <1>6

\* A block that reaches into the mapped range, at least as far as its tag, has
\* only mapped addresses in it if it is mapped, and none if it is not.
LEMMA MappedRange ==
  ASSUME NEW p \in Blocks, p.addr.fam = 6, p.bits >= W6 - W4,
         NEW b \in Hosts, b.fam = 6, Contains(p, b)
  PROVE  Is4In6(p.addr) <=> Is4In6(b)
<1>1. HostBits(p) = W6 - p.bits /\ BitLen(b) = W6 /\ BitLen(p.addr) = W6
  BY DEF HostBits, BitLen
<1>2. p.bits \in Nat /\ HostBits(p) \in Nat /\ p.addr.n \in Nat
  BY BlockIs
<1>3. HostBits(p) \in 0..W4
  BY <1>1, <1>2, WidthsAre
<1>4. b.n \in Nat
  BY HostIs
<1>5. b.n \div Pow(2, HostBits(p)) = p.addr.n \div Pow(2, HostBits(p))
  BY <1>1 DEF Contains, Network
<1>6. b.n \div Pow(2, W4) = p.addr.n \div Pow(2, W4)
  BY <1>2, <1>3, <1>4, <1>5, HighBitsAgree
<1> QED BY <1>6 DEF Is4In6

\* The mapped spelling of an IPv4 host is in the mapped range.
LEMMA MappedIs ==
  ASSUME NEW b \in Hosts, b.fam = 4
  PROVE  Mapped(b) \in Hosts /\ Mapped(b).fam = 6 /\ Is4In6(Mapped(b))
<1> DEFINE t == Pow(2, W4)
           h == Pow(2, W6 - W4)
           x == Tag * t + b.n
<1>1. t \in Nat \ {0} /\ h \in Nat \ {0} /\ Pow(2, W6) = t * h
  <2>1. W4 \in Nat /\ W6 - W4 \in Nat /\ W6 = W4 + (W6 - W4) BY WidthsAre
  <2>2. Pow(2, W4 + (W6 - W4)) = t * h BY <2>1, TwoPowers
  <2> QED BY <2>1, <2>2, TwoPowers
<1>2. Tag \in Nat /\ Tag + 1 <= h
  <2>1. Tag \in 0..(h - 1) BY ClientAddrAssumption
  <2> QED BY <1>1, <2>1
<1>3. b.n \in Nat /\ b.n < t
  BY HostIs
<1> HIDE DEF t, h
<1>4. x \div t = Tag
  BY <1>1, <1>2, <1>3, DivOfSum, Zenon
<1>5. x \in Nat /\ x < t * h
  <2>1. \A u, v \in Nat : u <= v => u * t <= v * t
    BY <1>1
  <2>2. (Tag + 1) * t <= h * t /\ Tag + 1 \in Nat
    BY <1>1, <1>2, <2>1
  <2>3. (Tag + 1) * t = Tag * t + t /\ h * t = t * h /\ Tag * t \in Nat /\ t * h \in Nat
    BY <1>1, <1>2
  <2> QED BY <1>1, <1>3, <2>2, <2>3
<1>6. Mapped(b) = V6(x)
  BY DEF Mapped, t
<1> HIDE DEF x
<1>7. x \in 0..(Pow(2, W6) - 1)
  <2>1. t * h \in Nat BY <1>1
  <2> QED BY <1>1, <1>5, <2>1
<1>8. V6(x) \in [fam : {6}, n : 0..(Pow(2, W6) - 1), zone : BOOLEAN] /\ V6(x).fam = 6 /\ V6(x).n = x
  BY <1>7 DEF V6
<1> QED BY <1>4, <1>6, <1>8 DEF Hosts, Is4In6, t

\* A good field, normalised as it is, covers an address exactly where the field
\* as the operator wrote it does (normalise, Contains).
LEMMA FieldMeansWhatItSays ==
  ASSUME NEW f \in Fields, f.form # "blank", ~Refused(f),
         NEW b \in Hosts \cup {NoAddr}, ~Is4In6(b)
  PROVE  Contains(Normalise(Normalise(FieldPrefix(f))), b) <=> Covers(f, b)
<1> DEFINE p == FieldPrefix(f)
<1>1. p \in Blocks
  <2>1. CASE \E q \in Blocks : f = [form |-> "cidr", addr |-> q.addr, bits |-> q.bits]
    <3>1. PICK q \in Blocks : f = [form |-> "cidr", addr |-> q.addr, bits |-> q.bits]
      BY <2>1
    <3>2. p = [addr |-> q.addr, bits |-> q.bits] BY <3>1 DEF FieldPrefix
    <3>3. q = [addr |-> q.addr, bits |-> q.bits] BY BlockIs
    <3> QED BY <3>2, <3>3
  <2>2. CASE f \in [form : {"bare"}, addr : Hosts]
    <3>1. f.form = "bare" /\ f.addr \in Hosts /\ ~f.addr.zone
      BY <2>2 DEF Refused
    <3> DEFINE u == Unmap(f.addr)
    <3>2. u \in Hosts /\ ~u.zone BY <3>1, UnmapIs
    <3>3. p = [addr |-> u, bits |-> BitLen(u)] BY <3>1 DEF FieldPrefix
    <3> HIDE DEF u, p
    <3>4. BitLen(u) \in 0..W6 /\ BitLen(u) <= BitLen(u) BY WidthsAre DEF BitLen
    <3>5. p \in [addr : Hosts, bits : 0..W6] /\ ~p.addr.zone /\ p.bits = BitLen(p.addr)
      BY <3>2, <3>3, <3>4
    <3>6. BitLen(p.addr) <= BitLen(p.addr) BY WidthsAre DEF BitLen
    <3> QED BY <3>5, <3>6 DEF Blocks
  <2>3. CASE f \in [form : {"blank", "junk"}]
    BY <2>3 DEF Refused
  <2> QED BY <2>1, <2>2, <2>3 DEF Fields
<1>2. Covers(f, b) <=>
        Contains(p, b) \/ (p.addr.fam = 6 /\ p.bits >= W6 - W4 /\ Contains(p, Mapped(b)))
  BY DEF Covers
<1> HIDE DEF p
<1>3. p.addr.fam \in {4, 6}
  BY <1>1, BlockIs
<1>4. CASE b = NoAddr
  <2>1. b.fam = 0 BY <1>4 DEF NoAddr
  <2>2. Mapped(b) = b BY <2>1 DEF Mapped
  <2>3. \A q \in Blocks : ~Contains(q, b)
    <3> SUFFICES ASSUME NEW q \in Blocks PROVE ~Contains(q, b) OBVIOUS
    <3>1. q.addr.fam \in {4, 6} BY BlockIs
    <3> QED BY <2>1, <3>1 DEF Contains
  <2>4. (IF Converts(p) THEN Converted(p) ELSE p) \in Blocks BY <1>1, ConvertedIs
  <2>5. ~Contains(IF Converts(p) THEN Converted(p) ELSE p, b) BY <2>3, <2>4, Zenon
  <2> QED BY <1>1, <1>2, <2>2, <2>3, <2>5, NormalisedTwice DEF p
<1>5. CASE b \in Hosts /\ b.fam = 6
  <2>1. Mapped(b) = b BY <1>5 DEF Mapped
  <2>2. CASE Converts(p)
    <3>1. ~Contains(p, b) BY <1>1, <1>5, <2>2, ConvertedIs, MappedRange DEF Converts
    <3>2. Converted(p).addr.fam = 4
      <4>1. Converted(p).addr = V4(p.addr.n % Pow(2, W4)) BY <1>1, <2>2, ConvertedIs
      <4>2. \A x : V4(x).fam = 4 BY DEF V4
      <4> QED BY <4>1, <4>2
    <3>3. ~Contains(Converted(p), b) BY <1>5, <3>2 DEF Contains
    <3> QED BY <1>1, <1>2, <2>1, <2>2, <3>1, <3>3, NormalisedTwice DEF p
  <2>3. CASE ~Converts(p)
    BY <1>1, <1>2, <2>1, <2>3, NormalisedTwice DEF p
  <2> QED BY <2>2, <2>3
<1>6. CASE b \in Hosts /\ b.fam = 4
  <2>1. Mapped(b) \in Hosts /\ Mapped(b).fam = 6 /\ Is4In6(Mapped(b)) BY <1>6, MappedIs
  <2>2. CASE Converts(p)
    <3>1. p.addr.fam = 6 /\ p.bits >= W6 - W4 BY <1>1, <2>2, ConvertedIs DEF Converts
    <3>2. ~Contains(p, b) BY <1>6, <3>1 DEF Contains
    <3>3. Contains(Converted(p), b) <=> Contains(p, Mapped(b)) BY <1>1, <1>6, <2>2, ConversionKeeps
    <3> QED BY <1>1, <1>2, <2>2, <3>1, <3>2, <3>3, NormalisedTwice DEF p
  <2>3. CASE ~Converts(p)
    <3>1. ~(p.addr.fam = 6 /\ p.bits >= W6 - W4 /\ Contains(p, Mapped(b)))
      BY <1>1, <2>1, <2>3, MappedRange DEF Converts
    <3> QED BY <1>1, <1>2, <2>3, <3>1, NormalisedTwice DEF p
  <2> QED BY <2>2, <2>3
<1>7. b \in Hosts => b.fam \in {4, 6}
  BY HostIs
<1> QED BY <1>4, <1>5, <1>6, <1>7

\* A peer is trusted exactly where a list without a bad field has one that
\* covers it, for any list: a wide block too, which covers hosts of its own
\* family and no others (ParsePrefixes, New, trusts).
LEMMA ListMeansWhatItSays ==
  ASSUME NEW list \in Seq(Fields), NEW a \in Hosts \cup {NoAddr}
  PROVE  TrustedAsWritten(list, a)
<1> DEFINE b == Unmap(a)
           N(f) == Normalise(Normalise(FieldPrefix(f)))
<1>1. b \in Hosts \cup {NoAddr} /\ ~Is4In6(b)
  <2>1. CASE a \in Hosts BY <2>1, UnmapIs
  <2>2. CASE a = NoAddr
    <3>1. NoAddr.fam = 0 BY DEF NoAddr
    <3>2. ~Is4In6(NoAddr) BY <3>1 DEF Is4In6
    <3> QED BY <2>2, <3>2 DEF Unmap
  <2> QED BY <2>1, <2>2
<1> HIDE DEF b
<1>2. CASE \E i \in DOMAIN list : Refused(list[i])
  <2>1. ParsePrefixes(list).err # "none" /\ ParsePrefixes(list).trusted = {}
    BY <1>2 DEF ParsePrefixes
  <2>2. ~Trusts(TrustedBy(list), b)
    BY <2>1 DEF Trusts, TrustedBy, New
  <2> QED BY <2>1, <2>2 DEF TrustedAsWritten, b
<1>3. CASE ~\E i \in DOMAIN list : Refused(list[i])
  <2>1. /\ ParsePrefixes(list).err = "none"
        /\ ParsePrefixes(list).trusted = {Normalise(FieldPrefix(list[i])) :
                                            i \in {j \in DOMAIN list : list[j].form # "blank"}}
    BY <1>3 DEF ParsePrefixes
  <2>2. Trusts(TrustedBy(list), b) <=>
          \E i \in DOMAIN list : list[i].form # "blank" /\ Contains(N(list[i]), b)
    BY <2>1 DEF Trusts, TrustedBy, New
  <2>3. ASSUME NEW i \in DOMAIN list
        PROVE  (list[i].form # "blank" /\ Contains(N(list[i]), b)) <=> Covers(list[i], b)
    <3>1. list[i] \in Fields OBVIOUS
    <3>2. list[i].form = "blank" => ~Covers(list[i], b) BY DEF Covers
    <3>3. list[i].form # "blank" => (Contains(N(list[i]), b) <=> Covers(list[i], b))
      BY <1>1, <1>3, <3>1, FieldMeansWhatItSays
    <3> QED BY <3>2, <3>3
  <2> HIDE DEF N
  <2> QED BY <2>1, <2>2, <2>3 DEF TrustedAsWritten, b
<1> QED BY <1>2, <1>3

\* Whom the directory trusts is what the operator wrote, for every width of
\* word, peer and list of proxies without a wide block (clientaddr.go).
THEOREM TrustIsWhatWasWritten == Spec => []TrustIsAsWritten
<1>1. ASSUME Asked PROVE TrustIsAsWritten
  <2> SUFFICES ASSUME asked.kind = "forward" PROVE TrustedAsWritten(asked.list, asked.peer)
    BY DEF TrustIsAsWritten
  <2>1. asked \in Forwards
    BY <1>1, KindsTellQuestionsApart
  <2>2. asked.list \in Seq(Fields) /\ asked.peer \in Hosts \cup {NoAddr}
    BY <2>1, ForwardAssumption DEF Forwards
  <2> QED BY <2>2, ListMeansWhatItSays
<1> QED BY <1>1, AskedIsInvariant, PTL

-----------------------------------------------------------------------------
\* A prefix query selects the lookup_ids that agree with it bit by bit and no
\* others, and the prefix the checker sends for one finds it, whatever the widths
\* of digits, bytes, column and lookup_ids (query.go, prefix.go, prefixHex).
THEOREM PrefixesSelectWhatAgrees == Spec => []PrefixSelectsExactly
<1>1. ASSUME Asked PROVE PrefixSelectsExactly
  <2> SUFFICES ASSUME asked.kind = "prefix"
               PROVE  /\ SelectsExactly(asked.bits, asked.digits)
                      /\ \A id \in TestIds : FindsItself(asked.bits, id)
    BY DEF PrefixSelectsExactly
  <2>1. asked \in Prefixes
    BY <1>1, KindsTellQuestionsApart
  <2>2. asked.bits \in 0..IdBits /\ asked.digits \in Written(asked.bits)
    BY <2>1 DEF Prefixes, Written
  <2>3. TestIds \subseteq Id
    BY PrefixAssumption
  <2> QED BY <2>2, <2>3, DigitsSelectExactly, DigitsFindTheirId
<1> QED BY <1>1, AskedIsInvariant, PTL

=============================================================================
