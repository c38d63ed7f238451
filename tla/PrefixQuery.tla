---------------------------- MODULE PrefixQuery -----------------------------
(***************************************************************************)
(* GET /v1/record's query: internal/query, the column of                   *)
(* internal/store/prefix.go, and the client's side in cmd/trigcheck.  Pure *)
(* functions, over bytes of two hex digits of DigitBits bits each (4 in    *)
(* the code), a column of ColumnBytes (4) and a lookup_id of IdBytes (32). *)
(*                                                                         *)
(* bits= is absent, malformed or a number; prefix= is absent or the values *)
(* of its characters, NotHex for one outside the alphabet.                 *)
(*                                                                         *)
(* A definition headed "Variant" is a plausible slip in the definition     *)
(* that follows it; nothing uses it.                                       *)
(***************************************************************************)
EXTENDS Integers, Sequences, Powers

CONSTANTS
  DigitBits, ColumnBytes, IdBytes,
  TestIds       \* lookup_ids a query is tried on

ByteBits   == 2 * DigitBits
ColumnBits == ColumnBytes * ByteBits
IdBits     == IdBytes * ByteBits

Byte   == 0..(Pow(2, ByteBits) - 1)
Digit  == 0..(Pow(2, DigitBits) - 1)
NotHex == -1
Id     == [1..IdBytes -> Byte]

ASSUME PrefixAssumption ==
  /\ DigitBits \in Nat \ {0} /\ ColumnBytes \in Nat \ {0}
  /\ IdBytes \in Nat /\ IdBytes >= ColumnBytes
  /\ TestIds \subseteq Id

Absent == [form |-> "absent"]
Decimal(n) == [form |-> "decimal", n |-> n]
Hex(s) == [form |-> "text", digits |-> s]

-----------------------------------------------------------------------------
CeilDiv(n, d) == (n + d - 1) \div d

\* x with its k lowest bits cleared, and with them set.
ClearLow(x, k) == x - (x % Pow(2, k))
SetLow(x, k)   == ClearLow(x, k) + Pow(2, k) - 1

\* The first ColumnBytes bytes as a big-endian number, a shorter sequence
\* extended with zeros: binary.BigEndian.Uint32, and prefix32 of a lookup_id.
Column(bytes) ==
  LET word[i \in 0..ColumnBytes] ==
        IF i = 0 THEN 0
        ELSE word[i - 1] * Pow(2, ByteBits) + (IF i <= Len(bytes) THEN bytes[i] ELSE 0)
  IN  word[ColumnBytes]

\* Variant: the spare bits of the last byte kept.
UnmaskedQuery(full, nbits) ==
  [reason |-> "none", bits |-> nbits, full |-> full, prefix |-> Column(full)]

\* newQuery: the spare bits of the last byte cleared, the column derived.
NewQuery(full, nbits) ==
  LET spare == Len(full) * ByteBits - nbits
      masked == [i \in DOMAIN full |->
                   IF i = Len(full) THEN ClearLow(full[i], spare) ELSE full[i]]
  IN  [reason |-> "none", bits |-> nbits, full |-> masked, prefix |-> Column(masked)]

\* Two digits to a byte, high one first; an odd last digit is a high one.
Packed(digits, nbits) ==
  [i \in 1..CeilDiv(nbits, ByteBits) |->
     digits[2*i - 1] * Pow(2, DigitBits) + (IF 2*i <= Len(digits) THEN digits[2*i] ELSE 0)]

Reject(why) == [reason |-> why]

\* query.Parse.  Malformed covers an empty bits=, a leading zero, anything that
\* is not decimal digits and a number beyond 32 bits.
ParseQuery(prefix, bits, maxBits) ==
  LET digits == IF prefix = Absent THEN <<>> ELSE prefix.digits
  IN  IF bits.form = "absent" THEN Reject("BitsMissing")
      ELSE IF bits.form = "malformed" THEN Reject("BitsMalformed")
      ELSE IF bits.n > maxBits \/ bits.n > IdBits THEN Reject("BitsTooPrecise")
      ELSE IF prefix = Absent /\ bits.n > 0 THEN Reject("PrefixMissing")
      ELSE IF Len(digits) # CeilDiv(bits.n, DigitBits) THEN Reject("PrefixLength")
      ELSE IF \E i \in DOMAIN digits : digits[i] = NotHex THEN Reject("PrefixNotHex")
      ELSE NewQuery(Packed(digits, bits.n), bits.n)

\* query.FromBits.
FromBits(bytes, nbits) ==
  IF nbits > IdBits THEN Reject("BitsTooPrecise")
  ELSE IF Len(bytes) < CeilDiv(nbits, ByteBits) THEN Reject("PrefixLength")
  ELSE NewQuery(SubSeq(bytes, 1, CeilDiv(nbits, ByteBits)), nbits)

\* Reason.HTTPStatus; the transport's own repeated parameter among them.
QueryStatus(reason) == 400

\* Query.Range, as the WHERE of byPrefixSQL uses it.
InRange(q, id) ==
  LET eb == IF q.bits > ColumnBits THEN ColumnBits ELSE q.bits
  IN  Column(id) \in q.prefix..SetLow(q.prefix, ColumnBits - eb)

NeedsPostFilter(q) == q.bits > ColumnBits

\* Query.Matches: whole bytes, then the high bits of the byte after them.
Matches(q, id) ==
  LET whole == q.bits \div ByteBits
      rem == q.bits % ByteBits
  IN  /\ \A i \in 1..whole : q.full[i] = id[i]
      /\ rem # 0 => ClearLow(q.full[whole + 1], ByteBits - rem)
                      = ClearLow(id[whole + 1], ByteBits - rem)

\* Store.ByPrefix keeps a row in range if Matches says so too.
Selects(q, id) == InRange(q, id) /\ Matches(q, id)

\* floor(log2(count / k)), and 0 where that is negative or undefined: capFor
\* of internal/query, by bit length.
CapFor(count, k) ==
  IF k <= 0 \/ count < k THEN 0
  ELSE CHOOSE b \in 0..count : Pow(2, b) <= count \div k /\ count \div k < Pow(2, b + 1)

\* Variant: the loop left one shift late.
PrefixBitsOver(count, k) ==
  IF k <= 0 \/ count < k THEN 0
  ELSE CHOOSE b \in 1..(count + 1) : k * Pow(2, b - 1) <= count /\ count < k * Pow(2, b)

\* prefixBits of cmd/trigcheck, which shifts k up instead.
PrefixBits(count, k) ==
  IF k <= 0 \/ count < k THEN 0
  ELSE CHOOSE b \in 0..count : k * Pow(2, b) <= count /\ count < k * Pow(2, b + 1)

\* understate: two significant figures, rounded down.
Understated(n) ==
  IF n < 100 THEN n
  ELSE LET e == CHOOSE e \in 1..n : n \div Pow(10, e) < 100 /\ n \div Pow(10, e - 1) >= 100
       IN  (n \div Pow(10, e)) * Pow(10, e)

\* The digits of a lookup_id.
DigitsOf(id) ==
  [i \in 1..(2 * IdBytes) |->
     IF i % 2 = 1 THEN id[CeilDiv(i, 2)] \div Pow(2, DigitBits)
                  ELSE id[i \div 2] % Pow(2, DigitBits)]

\* prefixHex of cmd/trigcheck: the digits the bits need, spare bits cleared.
PrefixHex(id, nbits) ==
  LET need == CeilDiv(nbits, DigitBits)
      chars == IF need > 2 * IdBytes THEN 2 * IdBytes ELSE need
      out == SubSeq(DigitsOf(id), 1, chars)
      rem == chars * DigitBits - nbits
  IN  IF nbits <= 0 THEN <<>>
      ELSE IF rem > 0 THEN [out EXCEPT ![chars] = ClearLow(@, rem)]
      ELSE out

-----------------------------------------------------------------------------
\* The n-th bit of a sequence of words of w bits, from the left.
BitAt(words, w, n) ==
  (words[CeilDiv(n, w)] \div Pow(2, w - 1 - ((n - 1) % w))) % 2

\* The query of these digits selects exactly the lookup_ids that agree with it
\* on its bits, and up to the column's width the range alone does.
SelectsExactly(nbits, digits) ==
  LET q == ParseQuery(Hex(digits), Decimal(nbits), IdBits)
  IN  \A id \in TestIds :
        LET agrees == \A n \in 1..nbits : BitAt(digits, DigitBits, n) = BitAt(id, ByteBits, n)
        IN  /\ Selects(q, id) <=> agrees
            /\ ~NeedsPostFilter(q) => (InRange(q, id) <=> agrees)

\* The prefix trigcheck sends for a lookup_id is accepted, selects it, and is
\* the query of its leading bytes.
FindsItself(nbits, id) ==
  LET q == ParseQuery(Hex(PrefixHex(id, nbits)), Decimal(nbits), IdBits)
  IN  q.reason = "none" /\ Selects(q, id) /\ q = FromBits(id, nbits)
=============================================================================
