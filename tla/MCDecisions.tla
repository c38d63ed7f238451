---------------------------- MODULE MCDecisions -----------------------------
(***************************************************************************)
(* The questions TLC asks Decisions.                                       *)
(***************************************************************************)
EXTENDS Decisions, TLC

-----------------------------------------------------------------------------
\* Publishes: a sound body, and the same body spoilt in each way Check can see.

Spelt(n) == [chars |-> n, alphabet |-> TRUE, canonical |-> TRUE]

SoundText ==
  [lookup_id |-> Spelt(43), wk_pub |-> Spelt(43), nonce |-> Spelt(16), pow |-> Spelt(11),
   sig |-> Spelt(86), ct |-> Spelt(22)]

Names == <<"v", "lookup_id", "wk_pub", "expires_at", "ct", "nonce", "pow", "sig">>

Sound == [json |-> "object", members |-> Names, nulls |-> {}, typed |-> TRUE, text |-> SoundText]

Forms ==
  {Sound,
   [Sound EXCEPT !.members = Append(Names, "later")],
   [Sound EXCEPT !.json = "broken"],
   [Sound EXCEPT !.json = "other"],
   [Sound EXCEPT !.members = Append(Names, "expires_at")],
   [Sound EXCEPT !.members = Tail(Names)],
   [Sound EXCEPT !.nulls = {"expires_at"}],
   [Sound EXCEPT !.typed = FALSE],
   [Sound EXCEPT !.text.sig.alphabet = FALSE],
   [Sound EXCEPT !.text.pow.canonical = FALSE],
   [Sound EXCEPT !.text.wk_pub.chars = 42],
   [Sound EXCEPT !.text.nonce.chars = 17],
   [Sound EXCEPT !.text.ct.chars = 21]}

MCBodies ==
  {[size |-> s, json |-> f.json, members |-> f.members, nulls |-> f.nulls,
    typed |-> f.typed, v |-> v, text |-> f.text, expires |-> e, own |-> o, zeros |-> z,
    signed |-> g] :
     s \in {3, 4, 9}, f \in Forms, v \in {1, 2}, e \in {-5, 2, 3, 13, 14, 63},
     o \in BOOLEAN, z \in {0, 2}, g \in BOOLEAN}

MCHalf == 64

\* A plain configuration, one at the top of the range, two below zero, and one
\* whose last sum alone wraps.
MCLimitSets ==
  {[maxRecordBytes |-> 3,  maxTTL |-> 10, powBits |-> 1,  skewGrace |-> 1],
   [maxRecordBytes |-> 63, maxTTL |-> 63, powBits |-> 0,  skewGrace |-> 1],
   [maxRecordBytes |-> -1, maxTTL |-> 10, powBits |-> -1, skewGrace |-> 1],
   [maxRecordBytes |-> 4,  maxTTL |-> -60, powBits |-> 0, skewGrace |-> 1],
   [maxRecordBytes |-> 4,  maxTTL |-> 61, powBits |-> 2,  skewGrace |-> 1]}

MCTimes  == {2}
MCStored == {NotStored, 3, 13}

-----------------------------------------------------------------------------
\* Forwards: IPv4 of two bits in IPv6 of four, 01xx the mapped range.

Bare(a) == [form |-> "bare", addr |-> a]
Cidr(a, n) == [form |-> "cidr", addr |-> a, bits |-> n]
Other == [form |-> "junk"]
Zoned == [fam |-> 6, n |-> 9, zone |-> TRUE]

MCPeers ==
  {V4(n) : n \in 0..3} \cup {V6(n) : n \in {0, 1, 4, 6, 7, 9, 12}} \cup {Zoned, NoAddr}

MCEntries ==
  {Bare(V4(0)), Bare(V4(2)), Bare(V6(6)), Bare(V6(9)), Bare(Zoned),
   [form |-> "port", addr |-> V4(3)], [form |-> "bracketed", addr |-> V6(1)], Other}

\* Every single field there is, and lists of two with a bad, a blank or a
\* second good one.
AllFields ==
  {Cidr(V4(n), b) : n \in 0..3, b \in 0..2} \cup {Cidr(V6(n), b) : n \in 0..15, b \in 0..4}
    \cup {Bare(V4(n)) : n \in 0..3} \cup {Bare(V6(n)) : n \in 0..15}
    \cup {Bare(Zoned), Other, [form |-> "blank"]}

SomeFields == {Cidr(V4(3), 1), Cidr(V6(6), 3), Cidr(V6(0), 0), Bare(Zoned), Other, [form |-> "blank"]}

MCProxyLists == {<<>>} \cup {<<f>> : f \in AllFields} \cup (SomeFields \X SomeFields)

\* A default route of IPv4 beside a mapped prefix broader than the mapped range,
\* and peers only that prefix covers: the peer is returned if either does what is
\* said of it, so another answer refutes both.
WideLists == {Cidr(V4(n), 0) : n \in 0..3} \X {Cidr(V6(n), 1) : n \in 4..7}
WidePeers == {V6(n) : n \in 0..3}

-----------------------------------------------------------------------------
\* Prefixes: digits of two bits, a column of two bytes, a lookup_id of three.
MCTestIds == [1..3 -> {0, 7, 8, 15}]
=============================================================================
