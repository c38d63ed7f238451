-------------------------- MODULE DirectoryProofs ---------------------------
(***************************************************************************)
(* Lemmas about the functions behind the handlers.  What the verdict on a  *)
(* publish is, for every body, limits and clock value: the first condition *)
(* of section 5.2 that fails, and nothing accepted beyond the limits,      *)
(* where sums wrap too.  What a prefix query selects, for every width of   *)
(* digit, column and lookup_id: those that agree with it bit by bit.       *)
(***************************************************************************)
EXTENDS Directory, PowersProofs

-----------------------------------------------------------------------------
\* The verdict on a publish.

\* A remainder of what lies within one modulus, and within two.
LEMMA RemainderWithin ==
  ASSUME NEW M \in Nat \ {0}, NEW n \in Nat
  PROVE  /\ n < M => n % M = n
         /\ n >= M /\ n < 2 * M => n % M = n - M
OBVIOUS

\* A sum within 64 bits is itself; one beyond the top comes back negative.
LEMMA WrapWithin ==
  ASSUME NEW n \in Int
  PROVE  /\ n >= -Half /\ n < Half => Wrap(n) = n
         /\ n >= Half /\ n < 3 * Half => Wrap(n) = n - 2 * Half
<1>. Half \in Nat \ {0} BY AcceptAssumption
<1>. 2 * Half \in Nat \ {0} OBVIOUS
<1>1. CASE n >= -Half /\ n < 3 * Half
  <2>. n + Half \in Nat BY <1>1
  <2>. QED BY <1>1, RemainderWithin DEF Wrap
<1>. QED BY <1>1

\* The constants a request is made of, as numbers.
LEMMA RequestTyped ==
  ASSUME NEW b \in Bodies, NEW now \in Times, NEW lim \in LimitSets
  PROVE  /\ b \in BodyOver(STRING)
         /\ b.size \in Nat /\ b.expires \in Int /\ b.zeros \in Nat /\ b.v \in Int
         /\ b.own \in BOOLEAN /\ b.signed \in BOOLEAN
         /\ b.expires >= -Half /\ b.expires < Half
         /\ now \in Nat /\ Half \in Nat \ {0}
         /\ lim.maxRecordBytes \in Int /\ lim.maxTTL \in Int /\ lim.powBits \in Int
         /\ lim.skewGrace \in Nat /\ now + lim.skewGrace < Half
         /\ lim.maxTTL >= -Half /\ lim.maxTTL < Half
         /\ lim.maxRecordBytes >= -Half /\ lim.maxRecordBytes < Half
BY AcceptAssumption DEF Body, BodyOver, Limits, Int64

\* parse and the copy of Decode together ask for a well-formed envelope.
LEMMA WellFormedIsParsedAndDecoded ==
  ASSUME NEW names, NEW b \in BodyOver(names)
  PROVE  (Parse(b) /\ FieldsDecode(b)) <=> WellFormed(b)
<1>. DEFINE c == [b EXCEPT !.v = Version]
<1>1. c.v = Version /\ c.text = b.text
  BY DEF BodyOver
<1>2. b.text.ct = b.text["ct"]
  OBVIOUS
<1>3. FieldsDecode(b) <=>
        /\ \A m \in TextMembers : Decodes(b.text[m])
        /\ \A m \in DOMAIN Width : DecodedLen(b.text[m]) = Width[m]
        /\ DecodedLen(b.text["ct"]) >= TagLen
  <2>1. TextMembers = DOMAIN Width \cup {"ct"}
    BY DEF TextMembers, Width
  <2>. QED BY <1>1, <1>2, <2>1 DEF FieldsDecode, Decode, DecodesTo
<1>4. Parse(b) <=>
        /\ b.json = "object" /\ b.typed
        /\ \A m \in RequiredMembers :
             \E i \in DOMAIN b.members : b.members[i] = m /\ m \notin b.nulls
        /\ \A i, j \in DOMAIN b.members : b.members[i] = b.members[j] => i = j
  <2>1. DOMAIN b.members \subseteq Int
    BY DEF BodyOver
  <2>2. HasDuplicateMembers(b) <=>
          ~ \A i, j \in DOMAIN b.members : b.members[i] = b.members[j] => i = j
    BY <2>1 DEF HasDuplicateMembers
  <2>. QED BY <2>2 DEF Parse
<1>. QED BY <1>3, <1>4 DEF WellFormed

\* What the handler read is the body, or too long to be accepted, or nothing.
LEMMA ReadIsTheBody ==
  ASSUME NEW names, NEW b \in BodyOver(names), NEW limit \in Int
  PROVE  LET r == ReadLimited(b, limit)
         IN  \/ r = b
             \/ r.json = "broken" /\ r.size = limit /\ limit > 0 /\ b.size > limit
             \/ r.json = "broken" /\ r.size = 0 /\ limit <= 0
BY DEF ReadLimited, NoBytes, BodyOver

\* Where the sums do not wrap, the bound on the lifetime is the sum.
LEMMA TTLBoundIsTheSum ==
  ASSUME NEW names, NEW b \in BodyOver(names), NEW now \in Int, NEW lim \in Limits, Sane(lim, now)
  PROVE  BeyondTTL(b, now, lim) <=> b.expires > now + lim.maxTTL + lim.skewGrace
<1>. USE AcceptAssumption DEF BodyOver, Limits
<1>1. Wrap(now + lim.maxTTL) = now + lim.maxTTL
  BY WrapWithin DEF Sane
<1>2. Wrap(now + lim.maxTTL + lim.skewGrace) = now + lim.maxTTL + lim.skewGrace
  BY WrapWithin DEF Sane
<1>. QED BY <1>1, <1>2 DEF BeyondTTL

\* Whether they wrap or not, what is not beyond the bound and not expired is
\* within the true sum.
LEMMA TTLBoundFailsClosed ==
  ASSUME NEW b \in Bodies, NEW now \in Times, NEW lim \in LimitSets,
         ~BeyondTTL(b, now, lim), b.expires > now
  PROVE  b.expires <= now + lim.maxTTL + lim.skewGrace
<1>. USE RequestTyped
<1>. DEFINE sum == now + lim.maxTTL
<1>1. CASE sum < Half
  <2>1. Wrap(sum) = sum
    BY <1>1, WrapWithin
  <2>2. CASE sum + lim.skewGrace < Half
    BY <2>1, <2>2, WrapWithin DEF BeyondTTL
  <2>3. CASE sum + lim.skewGrace >= Half
    BY <2>3
  <2>. QED BY <2>2, <2>3
<1>2. CASE sum >= Half
  BY <1>2
<1>. QED BY <1>1, <1>2

\* The conditions in order, each in terms of the request as it was sent.
FirstFailure(b, now, lim, limited, stored) ==
  IF limited THEN "RateLimited"
  ELSE IF b.size > lim.maxRecordBytes THEN "TooLarge"
  ELSE IF ~WellFormed(b) THEN "Malformed"
  ELSE IF b.v # Version THEN "BadVersion"
  ELSE IF b.expires > now + lim.maxTTL + lim.skewGrace THEN "TTLTooLong"
  ELSE IF ~b.own THEN "LookupMismatch"
  ELSE IF b.zeros < lim.powBits THEN "PoWInsufficient"
  ELSE IF ~b.signed THEN "SigInvalid"
  ELSE IF b.expires <= now THEN "Expired"
  ELSE IF b.expires <= stored THEN "NotNewer"
  ELSE "Accepted"

\* PutReason is the first of them that fails.
LEMMA PutReasonUnfolds ==
  ASSUME NEW names, NEW b \in BodyOver(names), NEW now \in Int, NEW lim \in Limits,
         NEW limited \in BOOLEAN, NEW stored \in Int, Sane(lim, now)
  PROVE  PutReason(b, TRUE, now, lim, limited, stored) = FirstFailure(b, now, lim, limited, stored)
<1>. USE DEF FirstFailure
<1>. /\ b.size \in Nat /\ b.zeros \in Nat
     /\ lim.maxRecordBytes \in Int /\ lim.powBits \in Int
     /\ Half \in Nat \ {0}
  BY AcceptAssumption DEF BodyOver, Limits
<1>. DEFINE limit == Wrap(lim.maxRecordBytes + 1)
            r == ReadLimited(b, limit)
<1>1. limit = lim.maxRecordBytes + 1 /\ limit > 0 /\ limit \in Int
  BY WrapWithin DEF Sane
<1>2. CASE b.size > lim.maxRecordBytes
  <2>1. r.size > lim.maxRecordBytes
    BY <1>1, <1>2 DEF ReadLimited, BodyOver
  <2>2. Check(r, now, lim, FALSE) = "TooLarge"
    BY <2>1 DEF Check
  <2>. QED BY <1>2, <2>2 DEF PutReason
<1>3. CASE ~(b.size > lim.maxRecordBytes)
  <2>1. r = b
    BY <1>1, <1>3 DEF ReadLimited
  <2>2. WellFormed(b) <=> Parse(b) /\ FieldsDecode(b)
    BY WellFormedIsParsedAndDecoded
  <2>3. BeyondTTL(b, now, lim) <=> b.expires > now + lim.maxTTL + lim.skewGrace
    BY TTLBoundIsTheSum
  <2>4. PoWVerify(b, lim.powBits) <=> ~(b.zeros < lim.powBits)
    BY DEF PoWVerify, Sane
  <2>5. Check(b, now, lim, FALSE) =
           IF ~WellFormed(b) THEN "Malformed"
           ELSE IF b.v # Version THEN "BadVersion"
           ELSE IF b.expires > now + lim.maxTTL + lim.skewGrace THEN "TTLTooLong"
           ELSE IF ~b.own THEN "LookupMismatch"
           ELSE IF b.zeros < lim.powBits THEN "PoWInsufficient"
           ELSE IF ~b.signed THEN "SigInvalid"
           ELSE IF b.expires <= now THEN "Expired"
           ELSE "Accepted"
    BY <1>3, <2>2, <2>3, <2>4 DEF Check
  <2>. QED BY <1>3, <2>1, <2>5 DEF PutReason
<1>. QED BY <1>2, <1>3

\* The first of ten tests that holds decides a chain of ten.
LEMMA FirstOfTen ==
  ASSUME NEW f \in [1..10 -> BOOLEAN], NEW o, NEW last,
         \A n \in 1..10 : o[n] # last,
         NEW reason,
         reason = IF f[1] THEN o[1] ELSE IF f[2] THEN o[2] ELSE IF f[3] THEN o[3]
                  ELSE IF f[4] THEN o[4] ELSE IF f[5] THEN o[5] ELSE IF f[6] THEN o[6]
                  ELSE IF f[7] THEN o[7] ELSE IF f[8] THEN o[8] ELSE IF f[9] THEN o[9]
                  ELSE IF f[10] THEN o[10] ELSE last
  PROVE  IF reason = last THEN \A n \in 1..10 : ~f[n]
         ELSE \E n \in 1..10 : reason = o[n] /\ f[n] /\ \A k \in 1..(n-1) : ~f[k]
<1>1. CASE \A n \in 1..10 : ~f[n]
  <2>1. ~f[1] /\ ~f[2] /\ ~f[3] /\ ~f[4] /\ ~f[5] /\ ~f[6] /\ ~f[7] /\ ~f[8] /\ ~f[9] /\ ~f[10]
    BY <1>1
  <2>. QED BY <1>1, <2>1
<1>2. CASE \E n \in 1..10 : f[n]
  <2>1. PICK n \in 1..10 : f[n] /\ \A k \in 1..(n-1) : ~f[k]
    BY <1>2
  <2>2. reason = o[n]
    BY <2>1
  <2>. QED BY <2>1, <2>2
<1>. QED BY <1>1, <1>2

\* For one request: the first condition that fails decides, where the sums stay
\* within 64 bits.
LEMMA PutAnswersInOrder ==
  ASSUME NEW b \in Bodies, NEW now \in Times, NEW lim \in LimitSets,
         NEW limited \in BOOLEAN, NEW stored \in Stored, Sane(lim, now)
  PROVE  AnswersInOrder(b, now, lim, limited, stored)
<1>. DEFINE F(n) == Fails(Order[n], b, now, lim, limited, stored)
            f == [n \in 1..10 |-> IF F(n) THEN TRUE ELSE FALSE]
            reason == PutReason(b, TRUE, now, lim, limited, stored)
<1>1. DOMAIN Order = 1..10 /\ \A n \in 1..10 : Order[n] # "Accepted"
  BY DEF Order
<1>2. /\ F(1) <=> limited
      /\ F(2) <=> b.size > lim.maxRecordBytes
      /\ F(3) <=> ~WellFormed(b)
      /\ F(4) <=> b.v # Version
      /\ F(5) <=> b.expires > now + lim.maxTTL + lim.skewGrace
      /\ F(6) <=> ~b.own
      /\ F(7) <=> b.zeros < lim.powBits
      /\ F(8) <=> ~b.signed
      /\ F(9) <=> b.expires <= now
      /\ F(10) <=> b.expires <= stored
  BY RequestTyped DEF Fails, Order
<1>4. f \in [1..10 -> BOOLEAN]
  OBVIOUS
<1>5. reason = IF f[1] THEN Order[1] ELSE IF f[2] THEN Order[2] ELSE IF f[3] THEN Order[3]
               ELSE IF f[4] THEN Order[4] ELSE IF f[5] THEN Order[5] ELSE IF f[6] THEN Order[6]
               ELSE IF f[7] THEN Order[7] ELSE IF f[8] THEN Order[8] ELSE IF f[9] THEN Order[9]
               ELSE IF f[10] THEN Order[10] ELSE "Accepted"
  <2>1. reason = IF F(1) THEN Order[1] ELSE IF F(2) THEN Order[2] ELSE IF F(3) THEN Order[3]
                 ELSE IF F(4) THEN Order[4] ELSE IF F(5) THEN Order[5] ELSE IF F(6) THEN Order[6]
                 ELSE IF F(7) THEN Order[7] ELSE IF F(8) THEN Order[8] ELSE IF F(9) THEN Order[9]
                 ELSE IF F(10) THEN Order[10] ELSE "Accepted"
    <3>1. /\ Order[1] = "RateLimited" /\ Order[2] = "TooLarge" /\ Order[3] = "Malformed"
          /\ Order[4] = "BadVersion" /\ Order[5] = "TTLTooLong"
          /\ Order[6] = "LookupMismatch" /\ Order[7] = "PoWInsufficient"
          /\ Order[8] = "SigInvalid" /\ Order[9] = "Expired" /\ Order[10] = "NotNewer"
      BY DEF Order
    <3>2. reason = FirstFailure(b, now, lim, limited, stored)
      <4>1. b \in BodyOver(STRING) /\ now \in Int /\ lim \in Limits /\ stored \in Int
        BY RequestTyped, AcceptAssumption
      <4>. QED BY <4>1, PutReasonUnfolds, Zenon
    <3>. HIDE DEF F, reason
    <3>. QED BY <1>2, <3>1, <3>2 DEF FirstFailure
  <2>. HIDE DEF F, reason
  <2>. QED BY <2>1
<1>6. IF reason = "Accepted" THEN \A n \in 1..10 : ~f[n]
      ELSE \E n \in 1..10 : reason = Order[n] /\ f[n] /\ \A k \in 1..(n-1) : ~f[k]
  <2>. HIDE DEF f, reason
  <2>. QED BY <1>1, <1>4, <1>5, FirstOfTen
<1>7. IF reason = "Accepted" THEN \A n \in 1..10 : ~F(n)
      ELSE \E n \in 1..10 : reason = Order[n] /\ F(n) /\ \A k \in 1..(n-1) : ~F(k)
  <2>. HIDE DEF F, reason
  <2>. QED BY <1>6
<1>. QED BY <1>1, <1>7 DEF AnswersInOrder

\* For one request: what is accepted is within the limits, wrapped sums or not.
LEMMA AcceptedFailsClosed ==
  ASSUME NEW b \in Bodies, NEW now \in Times, NEW lim \in LimitSets,
         NEW limited \in BOOLEAN, NEW stored \in Stored,
         PutReason(b, TRUE, now, lim, limited, stored) = "Accepted"
  PROVE  ~limited /\ WithinLimits(b, now, lim, stored)
<1>. USE RequestTyped
<1>. DEFINE limit == Wrap(lim.maxRecordBytes + 1)
            r == ReadLimited(b, limit)
<1>1. ~limited /\ Check(r, now, lim, FALSE) = "Accepted" /\ ~(b.expires <= stored)
  BY DEF PutReason
<1>2. limit \in Int
  BY AcceptAssumption DEF Wrap
<1>3. r.json = "object" /\ ~(r.size > lim.maxRecordBytes) /\ ~BeyondTTL(r, now, lim)
      /\ r.own /\ PoWVerify(r, lim.powBits) /\ r.signed /\ ~(r.expires <= now)
  BY <1>1 DEF Check, Parse
<1>4. r = b
  <2>1. b \in BodyOver(STRING)
    OBVIOUS
  <2>. QED BY <1>2, <1>3, <2>1, ReadIsTheBody
<1>5. b.expires > now /\ b.expires <= now + lim.maxTTL + lim.skewGrace
  <2>. HIDE DEF r
  <2>1. ~BeyondTTL(b, now, lim) /\ b.expires > now
    BY <1>3, <1>4
  <2>. QED BY <2>1, TTLBoundFailsClosed
<1>6. stored \in Int
  BY AcceptAssumption
<1>. QED BY <1>1, <1>3, <1>4, <1>5, <1>6 DEF PoWVerify, WithinLimits

-----------------------------------------------------------------------------
\* The j-th bit of a word of w bits, from the left.
BitOf(x, w, j) == (x \div Pow(2, w - j)) % 2

\* One bit more of a word is its higher bits and that bit.
LEMMA OneBitMore ==
  ASSUME NEW x \in Nat, NEW k \in Nat
  PROVE  /\ x \div Pow(2, k) = (x \div Pow(2, k + 1)) * 2 + ((x \div Pow(2, k)) % 2)
         /\ x \div Pow(2, k + 1) \in Nat /\ (x \div Pow(2, k)) % 2 \in 0..1
<1>1. Pow(2, k + 1) = Pow(2, k) * 2 /\ Pow(2, k) \in Nat \ {0}
  BY TwoPowers
<1> DEFINE y == x \div Pow(2, k)
<1>2. y \in Nat
  BY <1>1, DivIs
<1>3. y \div 2 = x \div Pow(2, k + 1)
  BY <1>1, DivDiv
<1> HIDE DEF y
<1>4. y % 2 \in Nat /\ y % 2 < 2 /\ y = (y \div 2) * 2 + (y % 2) /\ y \div 2 \in Nat
  BY <1>2, DivMod, DivIs
<1>5. y % 2 \in 0..1
  BY <1>4
<1>6. y = (x \div Pow(2, k + 1)) * 2 + (y % 2) /\ x \div Pow(2, k + 1) \in Nat
  BY <1>3, <1>4
<1> QED BY <1>5, <1>6, Zenon DEF y

\* Words agree on their first m bits where what is above the others is equal.
LEMMA WordsAgree ==
  ASSUME NEW w \in Nat, NEW x \in 0..(Pow(2, w) - 1), NEW y \in 0..(Pow(2, w) - 1), NEW m \in 0..w
  PROVE  (\A j \in 1..m : BitOf(x, w, j) = BitOf(y, w, j))
           <=> x \div Pow(2, w - m) = y \div Pow(2, w - m)
<1> DEFINE Same(k) == (\A j \in 1..k : BitOf(x, w, j) = BitOf(y, w, j))
                        <=> x \div Pow(2, w - k) = y \div Pow(2, w - k)
           S == {k \in 0..w : Same(k)}
<1>1. Pow(2, w) \in Nat \ {0} /\ x \in Nat /\ y \in Nat
  BY TwoPowers
<1>2. 0 \in S
  <2>1. x < 1 * Pow(2, w) /\ y < 1 * Pow(2, w) BY <1>1
  <2>2. 0 * Pow(2, w) <= x /\ 0 * Pow(2, w) <= y BY <1>1
  <2>3. x \div Pow(2, w) = 0 /\ y \div Pow(2, w) = 0
    BY <1>1, <2>1, <2>2, DivIs
  <2>4. w - 0 = w /\ 0 \in 0..w OBVIOUS
  <2> QED BY <2>3, <2>4
<1>3. ASSUME NEW k \in 0..(w - 1), k \in S PROVE k + 1 \in S
  <2>1. k + 1 \in 0..w /\ w - (k + 1) \in Nat /\ (w - (k + 1)) + 1 = w - k
    OBVIOUS
  <2> DEFINE e == w - (k + 1)
  <2>2. /\ x \div Pow(2, e) = (x \div Pow(2, w - k)) * 2 + BitOf(x, w, k + 1)
        /\ x \div Pow(2, w - k) \in Nat /\ BitOf(x, w, k + 1) \in 0..1
    BY <1>1, <2>1, OneBitMore DEF BitOf
  <2>3. /\ y \div Pow(2, e) = (y \div Pow(2, w - k)) * 2 + BitOf(y, w, k + 1)
        /\ y \div Pow(2, w - k) \in Nat /\ BitOf(y, w, k + 1) \in 0..1
    BY <1>1, <2>1, OneBitMore DEF BitOf
  <2>4. x \div Pow(2, e) = y \div Pow(2, e)
          <=> x \div Pow(2, w - k) = y \div Pow(2, w - k) /\ BitOf(x, w, k + 1) = BitOf(y, w, k + 1)
    BY <2>2, <2>3
  <2>5. (\A j \in 1..(k + 1) : BitOf(x, w, j) = BitOf(y, w, j))
          <=> (\A j \in 1..k : BitOf(x, w, j) = BitOf(y, w, j))
                /\ BitOf(x, w, k + 1) = BitOf(y, w, k + 1)
    <3>1. \A j \in 1..(k + 1) : j \in 1..k \/ j = k + 1 OBVIOUS
    <3>2. k + 1 \in 1..(k + 1) /\ \A j \in 1..k : j \in 1..(k + 1) OBVIOUS
    <3> QED BY <3>1, <3>2, Zenon
  <2>6. Same(k) BY <1>3
  <2> QED BY <2>1, <2>4, <2>5, <2>6
<1> HIDE DEF S
<1>4. m \in S
  BY <1>2, <1>3, StepsReach
<1> QED BY <1>4 DEF S

\* Where a bit of a sequence of words stands: the j-th of the i-th word.
LEMMA BitStands ==
  ASSUME NEW w \in Nat \ {0}, NEW i \in Nat \ {0}, NEW j \in 1..w, NEW words
  PROVE  BitAt(words, w, (i - 1) * w + j) = BitOf(words[i], w, j)
<1> DEFINE n == (i - 1) * w + j
<1>1. i - 1 \in Nat /\ j - 1 \in Nat /\ j - 1 < w
  OBVIOUS
<1>2. n - 1 = (i - 1) * w + (j - 1)
  BY <1>1
<1>3. (n - 1) % w = j - 1
  BY <1>1, <1>2, DivOfSum
<1>4. i * w = (i - 1) * w + w
  OBVIOUS
<1>5. n + w - 1 = i * w + (j - 1)
  BY <1>1, <1>4
<1>6. CeilDiv(n, w) = i
  BY <1>1, <1>5, DivOfSum DEF CeilDiv
<1>7. w - 1 - (j - 1) = w - j
  OBVIOUS
<1> HIDE DEF n
<1> QED BY <1>3, <1>6, <1>7 DEF n, BitAt, BitOf

\* Every bit stands somewhere.
LEMMA BitsStandSomewhere ==
  ASSUME NEW w \in Nat \ {0}, NEW n \in Nat \ {0}
  PROVE  \E i \in Nat \ {0}, j \in 1..w : n = (i - 1) * w + j
<1>1. n - 1 \in Nat
  OBVIOUS
<1> DEFINE q == (n - 1) \div w
           r == (n - 1) % w
<1>2. q \in Nat /\ r \in Nat /\ r < w /\ n - 1 = q * w + r
  BY <1>1, DivMod, DivIs
<1> HIDE DEF q, r
<1>3. q + 1 \in Nat \ {0} /\ r + 1 \in 1..w /\ n = ((q + 1) - 1) * w + (r + 1)
  <2>1. (q + 1) - 1 = q BY <1>2
  <2>2. q * w \in Nat BY <1>2
  <2> QED BY <1>2, <2>1, <2>2
<1> QED BY <1>3

\* The place of a bit among n of them: in a whole word, or in the rest.
LEMMA PlaceAmong ==
  ASSUME NEW w \in Nat \ {0}, NEW n \in Nat, NEW i \in Nat \ {0}, NEW j \in 1..w
  PROVE  (i - 1) * w + j <= n <=> i <= n \div w \/ (i = n \div w + 1 /\ j <= n % w)
<1> DEFINE q == n \div w
           r == n % w
<1>1. q \in Nat /\ r \in Nat /\ r < w /\ n = q * w + r
  BY DivMod, DivIs
<1> HIDE DEF q, r
<1>2. CASE i <= q
  <2>1. \A u, v \in Nat : u <= v => u * w <= v * w OBVIOUS
  <2>2. i * w = (i - 1) * w + w OBVIOUS
  <2>3. i * w <= q * w BY <1>1, <1>2, <2>1
  <2>4. (i - 1) * w \in Nat /\ q * w \in Nat /\ i * w \in Nat BY <1>1
  <2> QED BY <1>1, <1>2, <2>2, <2>3, <2>4 DEF q, r
<1>3. CASE i = q + 1
  <2>1. i - 1 = q BY <1>1, <1>3
  <2>2. q * w \in Nat BY <1>1
  <2> QED BY <1>1, <1>3, <2>1, <2>2 DEF q, r
<1>4. CASE i > q + 1
  <2>1. \A u, v \in Nat : u <= v => u * w <= v * w OBVIOUS
  <2>2. (q + 1) * w = q * w + w BY <1>1
  <2>3. q + 1 <= i - 1 /\ i - 1 \in Nat /\ q + 1 \in Nat BY <1>1, <1>4
  <2>4. (q + 1) * w <= (i - 1) * w BY <2>1, <2>3
  <2>5. (i - 1) * w \in Nat /\ q * w \in Nat BY <1>1, <2>3
  <2> QED BY <1>1, <1>4, <2>2, <2>4, <2>5 DEF q, r
<1> QED BY <1>1, <1>2, <1>3, <1>4

-----------------------------------------------------------------------------
\* The widths, as numbers.
LEMMA PrefixWidths ==
  /\ DigitBits \in Nat \ {0} /\ ByteBits \in Nat \ {0} /\ ByteBits = DigitBits + DigitBits
  /\ ColumnBytes \in Nat \ {0} /\ IdBytes \in Nat /\ ColumnBytes <= IdBytes
  /\ ColumnBits \in Nat /\ IdBits \in Nat /\ ColumnBits <= IdBits
  /\ 0 \in Byte /\ \A x \in Byte : x \in Nat
<1>1. DigitBits \in Nat \ {0} /\ ByteBits \in Nat \ {0} /\ ByteBits = DigitBits + DigitBits
  BY PrefixAssumption DEF ByteBits
<1>2. ColumnBytes \in Nat \ {0} /\ IdBytes \in Nat /\ ColumnBytes <= IdBytes
  BY PrefixAssumption
<1>3. ColumnBits \in Nat /\ IdBits \in Nat
  BY <1>1, <1>2 DEF ColumnBits, IdBits
<1>4. ColumnBits <= IdBits
  <2>1. \A w \in Nat : \A u, v \in Nat : u <= v => u * w <= v * w OBVIOUS
  <2> QED BY <1>1, <1>2, <2>1 DEF ColumnBits, IdBits
<1>5. Pow(2, ByteBits) \in Nat \ {0}
  BY <1>1, TwoPowers
<1> QED BY <1>1, <1>2, <1>3, <1>4, <1>5 DEF Byte

\* Rounding up: one more than the quotient, if there is a rest.
LEMMA CeilIs ==
  ASSUME NEW w \in Nat \ {0}, NEW n \in Nat
  PROVE  CeilDiv(n, w) = IF n % w = 0 THEN n \div w ELSE n \div w + 1
<1> DEFINE q == n \div w
           r == n % w
<1>1. q \in Nat /\ r \in Nat /\ r < w /\ n = q * w + r
  BY DivMod, DivIs
<1> HIDE DEF q, r
<1>2. q * w \in Nat /\ (q + 1) * w = q * w + w
  BY <1>1
<1>3. CASE r = 0
  <2>1. n + w - 1 = q * w + (w - 1) BY <1>1, <1>2, <1>3
  <2>2. (q * w + (w - 1)) \div w = q BY <1>1, DivOfSum
  <2> QED BY <1>3, <2>1, <2>2 DEF CeilDiv, q, r
<1>4. CASE r # 0
  <2>1. n + w - 1 = (q + 1) * w + (r - 1) BY <1>1, <1>2
  <2>2. r - 1 \in Nat /\ r - 1 < w /\ q + 1 \in Nat BY <1>1, <1>4
  <2>3. ((q + 1) * w + (r - 1)) \div w = q + 1 BY <2>2, DivOfSum
  <2> QED BY <1>4, <2>1, <2>3 DEF CeilDiv, q, r
<1> QED BY <1>3, <1>4

\* Bytes agree on their first n bits.
BitsAgree(f, g, n) == \A k \in 1..n : BitAt(f, ByteBits, k) = BitAt(g, ByteBits, k)

\* The same, byte by byte, the way Matches looks at them.
BytesAgree(f, g, n) ==
  LET whole == n \div ByteBits
      rem == n % ByteBits
  IN  /\ \A i \in 1..whole : f[i] = g[i]
      /\ rem # 0 => f[whole + 1] \div Pow(2, ByteBits - rem) = g[whole + 1] \div Pow(2, ByteBits - rem)

\* Agreement bit by bit is agreement byte by byte.
LEMMA AgreementsAgree ==
  ASSUME NEW n \in Nat, NEW f, NEW g,
         \A i \in 1..CeilDiv(n, ByteBits) : f[i] \in Byte /\ g[i] \in Byte
  PROVE  BitsAgree(f, g, n) <=> BytesAgree(f, g, n)
<1> DEFINE B == ByteBits
           whole == n \div B
           rem == n % B
<1>1. B \in Nat \ {0}
  BY PrefixWidths
<1>2. whole \in Nat /\ rem \in Nat /\ rem < B
  BY <1>1, DivMod, DivIs
<1>3. \A i \in 1..whole : f[i] \in Byte /\ g[i] \in Byte
  BY <1>1, <1>2, CeilIs
<1>4. rem # 0 => f[whole + 1] \in Byte /\ g[whole + 1] \in Byte
  <2>1. rem # 0 => whole + 1 \in 1..CeilDiv(n, B) BY <1>1, <1>2, CeilIs
  <2> QED BY <2>1
<1>5. \A x, y \in Byte : \A m \in 0..B :
         (\A j \in 1..m : BitOf(x, B, j) = BitOf(y, B, j))
           <=> x \div Pow(2, B - m) = y \div Pow(2, B - m)
  BY <1>1, WordsAgree DEF Byte
<1>6. \A x, y \in Byte : (\A j \in 1..B : BitOf(x, B, j) = BitOf(y, B, j)) <=> x = y
  <2> SUFFICES ASSUME NEW x \in Byte, NEW y \in Byte
               PROVE  (\A j \in 1..B : BitOf(x, B, j) = BitOf(y, B, j)) <=> x = y
    OBVIOUS
  <2>1. B \in 0..B /\ B - B = 0 BY <1>1
  <2>2. x \div 1 = x /\ y \div 1 = y BY PrefixWidths
  <2>3. (\A j \in 1..B : BitOf(x, B, j) = BitOf(y, B, j))
          <=> x \div Pow(2, B - B) = y \div Pow(2, B - B)
    BY <1>5, <2>1, Zenon
  <2>4. Pow(2, B - B) = 1
    BY <2>1, TwoPowers
  <2> HIDE DEF B
  <2> QED BY <2>2, <2>3, <2>4
<1>7. \A i \in Nat \ {0}, j \in 1..B : \A h : BitAt(h, B, (i - 1) * B + j) = BitOf(h[i], B, j)
  BY <1>1, BitStands
<1>8. \A i \in Nat \ {0}, j \in 1..B :
         (i - 1) * B + j \in 1..n <=> i <= whole \/ (i = whole + 1 /\ j <= rem)
  <2> SUFFICES ASSUME NEW i \in Nat \ {0}, NEW j \in 1..B
               PROVE  (i - 1) * B + j \in 1..n <=> i <= whole \/ (i = whole + 1 /\ j <= rem)
    OBVIOUS
  <2>1. (i - 1) * B \in Nat BY <1>1
  <2>2. (i - 1) * B + j \in Nat \ {0} BY <2>1, <1>1
  <2>3. (i - 1) * B + j <= n <=> i <= whole \/ (i = whole + 1 /\ j <= rem)
    BY <1>1, PlaceAmong
  <2> HIDE DEF whole, rem, B
  <2> QED BY <2>2, <2>3
<1>9. ASSUME NEW k \in 1..n
      PROVE \E i \in Nat \ {0}, j \in 1..B : k = (i - 1) * B + j
  <2>1. k \in Nat \ {0} BY <1>9
  <2> HIDE DEF B
  <2> QED BY <1>1, <2>1, BitsStandSomewhere
<1>10. BytesAgree(f, g, n) <=>
         /\ \A i \in 1..whole : f[i] = g[i]
         /\ rem # 0 => f[whole + 1] \div Pow(2, B - rem) = g[whole + 1] \div Pow(2, B - rem)
  BY DEF BytesAgree
<1>11. BitsAgree(f, g, n) <=> \A k \in 1..n : BitAt(f, B, k) = BitAt(g, B, k)
  BY DEF BitsAgree
<1> HIDE DEF B, whole, rem
<1>12. ASSUME BitsAgree(f, g, n) PROVE BytesAgree(f, g, n)
  <2>1. ASSUME NEW i \in 1..whole PROVE f[i] = g[i]
    <3>1. i \in Nat \ {0} /\ i <= whole BY <1>2, <2>1
    <3>2. ASSUME NEW j \in 1..B PROVE BitOf(f[i], B, j) = BitOf(g[i], B, j)
      BY <1>7, <1>8, <1>11, <1>12, <3>1
    <3> QED BY <1>3, <1>6, <3>2
  <2>2. ASSUME rem # 0
        PROVE  f[whole + 1] \div Pow(2, B - rem) = g[whole + 1] \div Pow(2, B - rem)
    <3>1. whole + 1 \in Nat \ {0} /\ rem \in 0..B BY <1>1, <1>2
    <3>2. ASSUME NEW j \in 1..rem PROVE BitOf(f[whole + 1], B, j) = BitOf(g[whole + 1], B, j)
      <4>1. j \in 1..B /\ j <= rem BY <1>1, <1>2, <3>2
      <4> QED BY <1>7, <1>8, <1>11, <1>12, <3>1, <4>1
    <3> QED BY <1>4, <1>5, <2>2, <3>1, <3>2
  <2> QED BY <1>10, <2>1, <2>2
<1>13. ASSUME BytesAgree(f, g, n) PROVE BitsAgree(f, g, n)
  <2> SUFFICES ASSUME NEW k \in 1..n PROVE BitAt(f, B, k) = BitAt(g, B, k)
    BY <1>11
  <2>1. PICK i \in Nat \ {0}, j \in 1..B : k = (i - 1) * B + j
    BY <1>9
  <2>2. i <= whole \/ (i = whole + 1 /\ j <= rem)
    BY <1>8, <2>1
  <2>3. BitOf(f[i], B, j) = BitOf(g[i], B, j)
    <3>1. CASE i <= whole
      <4>1. i \in 1..whole BY <1>2, <3>1
      <4> QED BY <1>10, <1>13, <4>1
    <3>2. CASE i = whole + 1 /\ j <= rem
      <4>1. rem # 0 /\ j \in 1..rem /\ rem \in 0..B BY <1>1, <1>2, <3>2
      <4>2. f[i] \div Pow(2, B - rem) = g[i] \div Pow(2, B - rem) BY <1>10, <1>13, <3>2, <4>1
      <4>3. f[i] \in Byte /\ g[i] \in Byte BY <1>4, <3>2, <4>1
      <4> QED BY <1>5, <4>1, <4>2, <4>3
    <3> QED BY <2>2, <3>1, <3>2
  <2> QED BY <1>7, <2>1, <2>3
<1> QED BY <1>12, <1>13

-----------------------------------------------------------------------------
\* The i-th byte Column reads.
ByteAt(bytes, i) == IF i <= Len(bytes) THEN bytes[i] ELSE 0

\* word is Column's word over the first n bytes.
IsWord(word, bytes, n) ==
  word = [i \in 0..n |-> IF i = 0 THEN 0 ELSE word[i - 1] * Pow(2, ByteBits) + ByteAt(bytes, i)]

\* The numbers the first bytes make, one more byte at a time.
Accumulates(word, bytes) ==
  /\ \A i \in 0..ColumnBytes : word[i] \in Nat
  /\ word[0] = 0
  /\ \A i \in 1..ColumnBytes : word[i] = word[i - 1] * Pow(2, ByteBits) + ByteAt(bytes, i)

\* What Column can read is bytes.
IsBytes(bytes) == \A i \in 1..ColumnBytes : ByteAt(bytes, i) \in Byte

\* Column's recursion has a solution of every length.
LEMMA WordExists ==
  ASSUME NEW bytes, IsBytes(bytes)
  PROVE  \E word : IsWord(word, bytes, ColumnBytes)
<1> DEFINE C == ColumnBytes
           s == Pow(2, ByteBits)
           S == {n \in 0..C : \E word \in [0..n -> Nat] : IsWord(word, bytes, n)}
<1>1. C \in Nat /\ s \in Nat
  BY PrefixWidths, TwoPowers
<1>2. 0 \in S
  <2>1. [i \in 0..0 |-> 0] \in [0..0 -> Nat] /\ IsWord([i \in 0..0 |-> 0], bytes, 0)
    BY DEF IsWord
  <2> QED BY <1>1, <2>1
<1>3. ASSUME NEW n \in 0..(C - 1), n \in S PROVE n + 1 \in S
  <2>1. PICK word \in [0..n -> Nat] : IsWord(word, bytes, n)
    BY <1>3
  <2> DEFINE more == word[n] * s + ByteAt(bytes, n + 1)
             next == [i \in 0..(n + 1) |-> IF i = n + 1 THEN more ELSE word[i]]
  <2>2. n + 1 \in 1..C /\ n + 1 \in 0..C
    BY <1>1, <1>3
  <2>3. word[n] \in Nat /\ ByteAt(bytes, n + 1) \in Nat
    <3>1. n \in 0..n BY <1>3
    <3> QED BY <2>1, <2>2, <3>1, PrefixWidths DEF IsBytes
  <2>4. more \in Nat
    <3> DEFINE x == word[n]
               y == ByteAt(bytes, n + 1)
    <3>1. x \in Nat /\ y \in Nat /\ s \in Nat BY <1>1, <2>3
    <3> HIDE DEF s, x, y
    <3>2. x * s + y \in Nat BY ONLY <3>1
    <3> QED BY <3>2 DEF x, y
  <2>5. next \in [0..(n + 1) -> Nat]
    <3> HIDE DEF more
    <3> QED BY <2>4
  <2>6. \A i \in 0..n : word[i] = IF i = 0 THEN 0 ELSE word[i - 1] * s + ByteAt(bytes, i)
    BY <2>1, Zenon DEF IsWord
  <2>7. \A i \in 0..(n + 1) : next[i] = IF i = 0 THEN 0 ELSE next[i - 1] * s + ByteAt(bytes, i)
    <3> SUFFICES ASSUME NEW i \in 0..(n + 1)
                 PROVE  next[i] = IF i = 0 THEN 0 ELSE next[i - 1] * s + ByteAt(bytes, i)
      OBVIOUS
    <3>1. CASE i = n + 1
      <4>1. n \in 0..(n + 1) /\ n # n + 1 /\ i - 1 = n /\ i # 0 BY <1>3, <3>1
      <4>2. next[n] = word[n] BY <4>1
      <4>3. next[i] = more BY <3>1
      <4> HIDE DEF next
      <4> QED BY <3>1, <4>1, <4>2, <4>3
    <3>2. CASE i # n + 1
      <4>1. i \in 0..n BY <3>2
      <4>2. next[i] = word[i] BY <3>2
      <4>3. i # 0 => next[i - 1] = word[i - 1] BY <4>1
      <4> HIDE DEF next
      <4> QED BY <2>6, <4>1, <4>2, <4>3
    <3> QED BY <3>1, <3>2
  <2>8. IsWord(next, bytes, n + 1)
    <3>1. next = [i \in 0..(n + 1) |-> next[i]] BY <2>5
    <3> HIDE DEF next, s
    <3>2. next = [i \in 0..(n + 1) |-> IF i = 0 THEN 0 ELSE next[i - 1] * s + ByteAt(bytes, i)]
      BY <2>7, <3>1
    <3> QED BY <3>2, Zenon DEF IsWord, s
  <2> HIDE DEF next
  <2> QED BY <2>2, <2>5, <2>8
<1>4. C \in 0..C
  BY <1>1
<1>5. C \in S
  <2> HIDE DEF S, C
  <2> QED BY <1>1, <1>2, <1>3, <1>4, StepsReach
<1> QED BY <1>5

\* So Column is the last number of such a word.
LEMMA ColumnIs ==
  ASSUME NEW bytes, IsBytes(bytes)
  PROVE  \E word : Accumulates(word, bytes) /\ Column(bytes) = word[ColumnBytes]
<1> DEFINE C == ColumnBytes
           s == Pow(2, ByteBits)
           word == CHOOSE w : IsWord(w, bytes, ColumnBytes)
<1>1. IsWord(word, bytes, C) /\ Column(bytes) = word[C]
  <2>1. \E w : IsWord(w, bytes, C) BY WordExists
  <2> QED BY <2>1 DEF Column, IsWord, ByteAt
<1> HIDE DEF word
<1>2. \A i \in 0..C : word[i] = IF i = 0 THEN 0 ELSE word[i - 1] * s + ByteAt(bytes, i)
  BY <1>1, Zenon DEF IsWord
<1>3. C \in Nat /\ s \in Nat
  BY PrefixWidths, TwoPowers
<1> DEFINE S == {n \in 0..C : word[n] \in Nat}
<1>4. 0 \in S
  BY <1>2, <1>3
<1>5. ASSUME NEW n \in 0..(C - 1), n \in S PROVE n + 1 \in S
  <2>1. n + 1 \in 1..C /\ n + 1 \in 0..C /\ n + 1 # 0 /\ (n + 1) - 1 = n
    BY <1>3, <1>5
  <2>2. word[n + 1] = word[n] * s + ByteAt(bytes, n + 1)
    BY <1>2, <2>1
  <2>3. word[n] \in Nat /\ ByteAt(bytes, n + 1) \in Nat
    BY <1>5, <2>1, PrefixWidths DEF IsBytes
  <2>4. word[n + 1] \in Nat
    <3> HIDE DEF s
    <3> QED BY <1>3, <2>2, <2>3
  <2> QED BY <2>1, <2>4
<1>6. \A n \in 0..C : n \in S
  <2> HIDE DEF S, C
  <2> QED BY <1>3, <1>4, <1>5, StepsReach
<1>7. Accumulates(word, bytes)
  <2>1. \A i \in 0..C : word[i] \in Nat BY <1>6
  <2>2. 0 \in 0..C /\ \A i \in 1..C : i \in 0..C /\ i # 0 BY <1>3
  <2> QED BY <1>2, <2>1, <2>2 DEF Accumulates
<1> QED BY <1>1, <1>7

\* The bytes but the last d are the number shifted down by as many.
LEMMA WordShifts ==
  ASSUME NEW word, NEW bytes, IsBytes(bytes), Accumulates(word, bytes), NEW d \in 0..ColumnBytes
  PROVE  word[ColumnBytes] \div Pow(2, d * ByteBits) = word[ColumnBytes - d]
<1> DEFINE C == ColumnBytes
           B == ByteBits
           S == {e \in 0..C : word[C] \div Pow(2, e * B) = word[C - e]}
<1>1. B \in Nat \ {0} /\ C \in Nat /\ Pow(2, B) \in Nat \ {0} /\ Byte = 0..(Pow(2, B) - 1)
  BY PrefixWidths, TwoPowers DEF Byte
<1>2. \A i \in 0..C : word[i] \in Nat
  BY DEF Accumulates
<1>3. 0 \in S
  <2>1. 0 * B = 0 /\ C - 0 = C /\ 0 \in 0..C /\ C \in 0..C BY <1>1
  <2>2. word[C] \div 1 = word[C] BY <1>2, <2>1
  <2> HIDE DEF C, B
  <2>3. word[C] \div Pow(2, 0 * B) = word[C - 0] BY <2>1, <2>2, TwoPowers
  <2> QED BY <2>1, <2>3
<1>4. ASSUME NEW e \in 0..(C - 1), e \in S PROVE e + 1 \in S
  <2>1. e + 1 \in 0..C /\ C - e \in 1..C /\ (C - e) - 1 = C - (e + 1) /\ C - (e + 1) \in 0..C
    BY <1>1, <1>4
  <2>2. e * B \in Nat /\ (e + 1) * B = e * B + B
    BY <1>1, <1>4
  <2>3. Pow(2, (e + 1) * B) = Pow(2, e * B) * Pow(2, B) /\ Pow(2, e * B) \in Nat \ {0}
    BY <1>1, <2>2, TwoPowers
  <2>4. word[C - e] = word[C - (e + 1)] * Pow(2, B) + ByteAt(bytes, C - e)
    BY <2>1 DEF Accumulates
  <2>5. ByteAt(bytes, C - e) \in Nat /\ ByteAt(bytes, C - e) < Pow(2, B)
    BY <1>1, <2>1 DEF IsBytes
  <2>6. word[C - e] \div Pow(2, B) = word[C - (e + 1)]
    <3>1. word[C - (e + 1)] \in Nat BY <1>2, <2>1
    <3> HIDE DEF B, C
    <3>2. (word[C - (e + 1)] * Pow(2, B) + ByteAt(bytes, C - e)) \div Pow(2, B) = word[C - (e + 1)]
      BY <1>1, <2>5, <3>1, DivOfSum, Zenon
    <3> QED BY <2>4, <3>2, Zenon
  <2>7. C \in 0..C /\ word[C] \in Nat
    BY <1>1, <1>2
  <2>8. word[C] \div Pow(2, e * B) = word[C - e]
    BY <1>4
  <2> HIDE DEF B, C, S
  <2>9. word[C] \div Pow(2, (e + 1) * B) = word[C - (e + 1)]
    <3>1. (word[C] \div Pow(2, e * B)) \div Pow(2, B) = word[C] \div (Pow(2, e * B) * Pow(2, B))
      BY <1>1, <2>3, <2>7, DivDiv, Zenon
    <3> QED BY <2>3, <2>6, <2>8, <3>1, Zenon
  <2> QED BY <2>1, <2>9 DEF S
<1> HIDE DEF S
<1>5. d \in S
  BY <1>1, <1>3, <1>4, StepsReach
<1> QED BY <1>5 DEF S

\* The first bytes make the same number where they are the same.
LEMMA WordsTell ==
  ASSUME NEW u, NEW f, IsBytes(f), Accumulates(u, f),
         NEW v, NEW g, IsBytes(g), Accumulates(v, g), NEW k \in 0..ColumnBytes
  PROVE  u[k] = v[k] <=> \A i \in 1..k : ByteAt(f, i) = ByteAt(g, i)
<1> DEFINE Same(n) == u[n] = v[n] <=> \A i \in 1..n : ByteAt(f, i) = ByteAt(g, i)
           S == {n \in 0..ColumnBytes : Same(n)}
           s == Pow(2, ByteBits)
<1>1. ColumnBytes \in Nat /\ s \in Nat \ {0} /\ Byte = 0..(s - 1)
  BY PrefixWidths, TwoPowers DEF Byte
<1>2. 0 \in S
  BY <1>1 DEF Accumulates
<1>3. ASSUME NEW n \in 0..(ColumnBytes - 1), n \in S PROVE n + 1 \in S
  <2>1. n \in 0..ColumnBytes /\ n + 1 \in 0..ColumnBytes /\ n + 1 \in 1..ColumnBytes /\ (n + 1) - 1 = n
    BY <1>1, <1>3
  <2>2. u[n + 1] = u[n] * s + ByteAt(f, n + 1) /\ v[n + 1] = v[n] * s + ByteAt(g, n + 1)
    BY <2>1 DEF Accumulates
  <2>3. u[n] \in Nat /\ v[n] \in Nat
    BY <2>1 DEF Accumulates
  <2>4. ByteAt(f, n + 1) \in 0..(s - 1) /\ ByteAt(g, n + 1) \in 0..(s - 1)
    BY <1>1, <2>1 DEF IsBytes
  <2>5. u[n + 1] = v[n + 1] <=> u[n] = v[n] /\ ByteAt(f, n + 1) = ByteAt(g, n + 1)
    <3> HIDE DEF s
    <3>1. u[n] * s + ByteAt(f, n + 1) = v[n] * s + ByteAt(g, n + 1)
            <=> u[n] = v[n] /\ ByteAt(f, n + 1) = ByteAt(g, n + 1)
      <4>1. \A a, b \in Nat : \A x, y \in 0..(s - 1) : a * s + x = b * s + y <=> a = b /\ x = y
        BY <1>1, DigitsTell
      <4> QED BY <2>3, <2>4, <4>1
    <3> QED BY <2>2, <3>1, Zenon
  <2>6. (\A i \in 1..(n + 1) : ByteAt(f, i) = ByteAt(g, i))
          <=> (\A i \in 1..n : ByteAt(f, i) = ByteAt(g, i)) /\ ByteAt(f, n + 1) = ByteAt(g, n + 1)
    <3>1. \A i \in 1..(n + 1) : i \in 1..n \/ i = n + 1 BY <1>3
    <3>2. n + 1 \in 1..(n + 1) /\ \A i \in 1..n : i \in 1..(n + 1) BY <1>3
    <3> QED BY <3>1, <3>2, Zenon
  <2> QED BY <1>3, <2>1, <2>5, <2>6
<1> HIDE DEF S
<1>4. k \in S
  BY <1>1, <1>2, <1>3, StepsReach
<1> QED BY <1>4 DEF S

\* The first m bits of a column are its whole bytes and the high bits of one more.
LEMMA ColumnHead ==
  ASSUME NEW word, NEW bytes, IsBytes(bytes), Accumulates(word, bytes), NEW m \in 0..ColumnBits
  PROVE  LET whole == m \div ByteBits
             rem == m % ByteBits
         IN  word[ColumnBytes] \div Pow(2, ColumnBits - m) =
               IF rem = 0 THEN word[whole]
               ELSE word[whole] * Pow(2, rem)
                      + (ByteAt(bytes, whole + 1) \div Pow(2, ByteBits - rem))
<1> DEFINE B == ByteBits
           C == ColumnBytes
           whole == m \div B
           rem == m % B
<1>1. B \in Nat \ {0} /\ C \in Nat /\ C * B = ColumnBits /\ ColumnBits \in Nat
  BY PrefixWidths DEF ColumnBits
<1>2. whole \in Nat /\ rem \in Nat /\ rem < B /\ m = whole * B + rem
  BY <1>1, DivMod, DivIs
<1> HIDE DEF whole, rem
<1>3. whole <= C /\ (rem # 0 => whole + 1 <= C)
  <2>1. \A x, y \in Nat : x <= y => x * B <= y * B BY <1>1
  <2>2. C + 1 <= whole => (C + 1) * B <= whole * B BY <1>1, <1>2, <2>1
  <2>3. (C + 1) * B = C * B + B /\ whole * B \in Nat BY <1>1, <1>2
  <2>4. C <= whole => C * B <= whole * B BY <1>1, <1>2, <2>1
  <2> QED BY <1>1, <1>2, <2>2, <2>3, <2>4
<1>4. CASE rem = 0
  <2>1. C - whole \in 0..C /\ C - (C - whole) = whole BY <1>1, <1>2, <1>3
  <2>2. (C - whole) * B = ColumnBits - m BY <1>1, <1>2, <1>4
  <2>3. word[C] \div Pow(2, (C - whole) * B) = word[C - (C - whole)] BY <2>1, WordShifts
  <2> QED BY <1>4, <2>1, <2>2, <2>3 DEF whole, rem
<1>5. CASE rem # 0
  <2> DEFINE d == C - (whole + 1)
             low == B - rem
  <2>1. d \in 0..C /\ C - d = whole + 1 /\ low \in Nat BY <1>1, <1>2, <1>3, <1>5
  <2>2. d * B + low = ColumnBits - m /\ d * B \in Nat
    <3>1. d * B = C * B - (whole * B + B) BY <1>1, <1>2
    <3>2. C * B \in Nat /\ whole * B \in Nat BY <1>1, <1>2
    <3>3. d * B \in Nat
      <4> HIDE DEF d
      <4> QED BY <1>1, <2>1
    <3> HIDE DEF d
    <3> QED BY <1>1, <1>2, <3>1, <3>2, <3>3
  <2> DEFINE p == Pow(2, d * B)
             q == Pow(2, low)
             r == Pow(2, rem)
  <2>3. Pow(2, ColumnBits - m) = p * q /\ p \in Nat \ {0} /\ q \in Nat \ {0} /\ r \in Nat \ {0}
    <3>1. Pow(2, d * B + low) = p * q /\ p \in Nat \ {0} /\ q \in Nat \ {0}
      <4> HIDE DEF d, low
      <4> QED BY <2>1, <2>2, TwoPowers
    <3> QED BY <1>2, <2>2, <3>1, TwoPowers
  <2>4. Pow(2, B) = q * r
    <3>1. low + rem = B BY <1>1, <1>2
    <3>2. Pow(2, low + rem) = q * r
      <4> HIDE DEF low
      <4> QED BY <1>2, <2>1, TwoPowers
    <3> QED BY <3>1, <3>2
  <2>5. word[C] \div p = word[whole + 1]
    BY <2>1, WordShifts
  <2>6. whole + 1 \in 1..C /\ (whole + 1) - 1 = whole /\ whole \in 0..C /\ C \in 0..C
    BY <1>1, <1>2, <1>3, <1>5
  <2>7. word[whole + 1] = word[whole] * Pow(2, B) + ByteAt(bytes, whole + 1)
    BY <2>6 DEF Accumulates
  <2>8. word[C] \in Nat /\ word[whole] \in Nat /\ ByteAt(bytes, whole + 1) \in Nat
    BY <2>6, PrefixWidths DEF Accumulates, IsBytes
  <2> HIDE DEF p, q, r
  <2>9. word[C] \div (p * q) = word[whole + 1] \div q
    <3>1. (word[C] \div p) \div q = word[C] \div (p * q) BY <2>3, <2>8, DivDiv, Zenon
    <3> QED BY <2>5, <3>1, Zenon
  <2>10. word[whole + 1] \div q = word[whole] * r + (ByteAt(bytes, whole + 1) \div q)
    <3>1. (word[whole] * (q * r) + ByteAt(bytes, whole + 1)) \div q
            = word[whole] * r + (ByteAt(bytes, whole + 1) \div q)
      <4>1. \A a, b \in Nat : (a * (q * r) + b) \div q = a * r + (b \div q)
        BY <2>3, DivOfHigh
      <4> QED BY <2>8, <4>1, Zenon
    <3> QED BY <2>4, <2>7, <3>1, Zenon
  <2>11. word[C] \div Pow(2, ColumnBits - m) = word[whole] * r + (ByteAt(bytes, whole + 1) \div q)
    BY <2>3, <2>9, <2>10, Zenon
  <2> QED BY <1>5, <2>11, Zenon DEF whole, rem, q, r
<1> QED BY <1>4, <1>5

\* Column's m high bits are the bytes' first m.
LEMMA ColumnsAgree ==
  ASSUME NEW f, IsBytes(f), NEW g, IsBytes(g), NEW m \in 0..ColumnBits
  PROVE  Column(f) \div Pow(2, ColumnBits - m) = Column(g) \div Pow(2, ColumnBits - m)
           <=> LET whole == m \div ByteBits
                   rem == m % ByteBits
               IN  /\ \A i \in 1..whole : ByteAt(f, i) = ByteAt(g, i)
                   /\ rem # 0 => ByteAt(f, whole + 1) \div Pow(2, ByteBits - rem)
                                   = ByteAt(g, whole + 1) \div Pow(2, ByteBits - rem)
<1>1. PICK u : Accumulates(u, f) /\ Column(f) = u[ColumnBytes]
  BY ColumnIs
<1>2. PICK v : Accumulates(v, g) /\ Column(g) = v[ColumnBytes]
  BY ColumnIs
<1> DEFINE B == ByteBits
           whole == m \div B
           rem == m % B
           q == Pow(2, B - rem)
           r == Pow(2, rem)
           Top(w, h) == IF rem = 0 THEN w[whole] ELSE w[whole] * r + (ByteAt(h, whole + 1) \div q)
<1>3. Column(f) \div Pow(2, ColumnBits - m) = Top(u, f)
  BY <1>1, ColumnHead
<1>4. Column(g) \div Pow(2, ColumnBits - m) = Top(v, g)
  BY <1>2, ColumnHead
<1>5. B \in Nat \ {0} /\ ColumnBytes \in Nat /\ ColumnBytes * B = ColumnBits
  BY PrefixWidths DEF ColumnBits
<1>6. whole \in Nat /\ rem \in Nat /\ rem < B /\ m = whole * B + rem
  BY <1>5, DivMod, DivIs
<1> HIDE DEF whole, rem
<1>7. whole \in 0..ColumnBytes /\ (rem # 0 => whole + 1 \in 1..ColumnBytes)
  <2>1. \A x, y \in Nat : x <= y => x * B <= y * B BY <1>5
  <2>2. ColumnBytes + 1 <= whole => (ColumnBytes + 1) * B <= whole * B BY <1>5, <1>6, <2>1
  <2>3. (ColumnBytes + 1) * B = ColumnBytes * B + B /\ whole * B \in Nat BY <1>5, <1>6
  <2>4. ColumnBytes <= whole => ColumnBytes * B <= whole * B BY <1>5, <1>6, <2>1
  <2> QED BY <1>5, <1>6, <2>2, <2>3, <2>4
<1>8. u[whole] = v[whole] <=> \A i \in 1..whole : ByteAt(f, i) = ByteAt(g, i)
  BY <1>1, <1>2, <1>7, WordsTell
<1>9. ASSUME rem # 0
      PROVE  Top(u, f) = Top(v, g)
               <=> /\ u[whole] = v[whole]
                   /\ ByteAt(f, whole + 1) \div q = ByteAt(g, whole + 1) \div q
  <2>1. B - rem \in Nat /\ (B - rem) + rem = B BY <1>5, <1>6
  <2>2. Pow(2, (B - rem) + rem) = q * r /\ q \in Nat \ {0} /\ r \in Nat \ {0}
    <3> HIDE DEF B
    <3> QED BY <1>6, <2>1, TwoPowers
  <2>3. Byte = 0..(q * r - 1)
    BY <2>1, <2>2 DEF Byte
  <2> HIDE DEF q, r, B
  <2>4. \A x \in Byte : x \div q \in 0..(r - 1)
    <3> SUFFICES ASSUME NEW x \in Byte PROVE x \div q \in 0..(r - 1) OBVIOUS
    <3>1. q * r \in Nat BY <2>2
    <3>2. x \in Nat /\ x < q * r BY <2>3, <3>1
    <3> QED BY <2>2, <3>2, DivBelow, Zenon
  <2>5. u[whole] \in Nat /\ v[whole] \in Nat
    BY <1>1, <1>2, <1>7 DEF Accumulates
  <2>6. /\ ByteAt(f, whole + 1) \div q \in 0..(r - 1)
        /\ ByteAt(g, whole + 1) \div q \in 0..(r - 1)
    BY <1>7, <1>9, <2>4 DEF IsBytes
  <2>7. u[whole] * r + (ByteAt(f, whole + 1) \div q) = v[whole] * r + (ByteAt(g, whole + 1) \div q)
          <=> /\ u[whole] = v[whole]
              /\ ByteAt(f, whole + 1) \div q = ByteAt(g, whole + 1) \div q
    <3>1. \A a, b \in Nat : \A x, y \in 0..(r - 1) : a * r + x = b * r + y <=> a = b /\ x = y
      BY <2>2, DigitsTell
    <3> QED BY <2>5, <2>6, <3>1
  <2> QED BY <1>9, <2>7
<1>10. rem = 0 => (Top(u, f) = Top(v, g) <=> u[whole] = v[whole])
  OBVIOUS
<1> HIDE DEF Top
<1>11. Top(u, f) = Top(v, g)
         <=> /\ \A i \in 1..whole : ByteAt(f, i) = ByteAt(g, i)
             /\ rem # 0 => ByteAt(f, whole + 1) \div q = ByteAt(g, whole + 1) \div q
  BY <1>8, <1>9, <1>10
<1> QED BY <1>3, <1>4, <1>11, Zenon DEF whole, rem

-----------------------------------------------------------------------------
\* The length of a sequence given as a function.
LEMMA LengthIs ==
  ASSUME NEW n \in Nat, NEW S, NEW f \in [1..n -> S]
  PROVE  Len(f) = n /\ DOMAIN f = 1..n
<1>1. DOMAIN f = 1..n
  OBVIOUS
<1>2. f \in Seq(S)
  OBVIOUS
<1>3. Len(f) \in Nat /\ DOMAIN f = 1..Len(f)
  BY <1>2
<1> QED BY <1>1, <1>3

\* What clearing low bits leaves.
LEMMA ClearedIs ==
  ASSUME NEW x \in Nat, NEW k \in Nat
  PROVE  /\ ClearLow(x, k) = (x \div Pow(2, k)) * Pow(2, k)
         /\ ClearLow(x, k) \in 0..x
         /\ ClearLow(x, k) \div Pow(2, k) = x \div Pow(2, k)
         /\ ClearLow(x, k) % Pow(2, k) = 0
         /\ k = 0 => ClearLow(x, k) = x
<1> DEFINE s == Pow(2, k)
           d == x \div s
           r == x % s
<1>1. s \in Nat \ {0}
  BY TwoPowers
<1>2. d \in Nat /\ r \in Nat /\ r < s /\ x = d * s + r
  BY <1>1, DivMod, DivIs
<1> HIDE DEF d, r
<1>3. ClearLow(x, k) = d * s
  <2>1. ClearLow(x, k) = x - r BY DEF ClearLow, r
  <2>2. d * s \in Nat
    <3> HIDE DEF s
    <3> QED BY <1>1, <1>2
  <2> HIDE DEF s
  <2> QED BY <1>2, <2>1, <2>2
<1>4. d * s \in Nat
  <2> HIDE DEF s
  <2> QED BY <1>1, <1>2
<1>5. (d * s + 0) \div s = d /\ (d * s + 0) % s = 0
  <2> HIDE DEF s
  <2> QED BY <1>1, <1>2, DivOfSum
<1>6. (d * s) \div s = d /\ (d * s) % s = 0
  <2>1. d * s + 0 = d * s BY <1>4
  <2> QED BY <1>5, <2>1
<1>7. k = 0 => s = 1 /\ d = x
  <2>1. x \div 1 = x OBVIOUS
  <2> QED BY <2>1, TwoPowers DEF d
<1>8. d * s \in 0..x
  <2> HIDE DEF s
  <2> QED BY <1>2, <1>4
<1>9. k = 0 => d * s = x
  BY <1>7
<1> HIDE DEF s
<1> QED BY <1>3, <1>6, <1>8, <1>9 DEF d, s

\* Numbers alike but for their low bits are alike once those are cleared.
LEMMA ClearedTell ==
  ASSUME NEW x \in Nat, NEW y \in Nat, NEW k \in Nat
  PROVE  ClearLow(x, k) = ClearLow(y, k) <=> x \div Pow(2, k) = y \div Pow(2, k)
<1>1. /\ ClearLow(x, k) = (x \div Pow(2, k)) * Pow(2, k)
      /\ ClearLow(x, k) \div Pow(2, k) = x \div Pow(2, k)
      /\ ClearLow(y, k) = (y \div Pow(2, k)) * Pow(2, k)
      /\ ClearLow(y, k) \div Pow(2, k) = y \div Pow(2, k)
  BY ClearedIs
<1> QED BY <1>1

\* A range from a round number to the number with its low bits set holds those
\* that are alike but for these bits.
LEMMA RangeHolds ==
  ASSUME NEW p \in Nat, NEW x \in Nat, NEW k \in Nat, p % Pow(2, k) = 0
  PROVE  x \in p..SetLow(p, k) <=> x \div Pow(2, k) = p \div Pow(2, k)
<1> DEFINE s == Pow(2, k)
           d == p \div s
           e == x \div s
<1>1. s \in Nat \ {0}
  BY TwoPowers
<1>2. d \in Nat /\ p = d * s + 0
  <2>1. d \in Nat /\ p = d * s + (p % s) BY <1>1, DivMod, DivIs
  <2> HIDE DEF d
  <2> QED BY <2>1
<1>3. e \in Nat /\ e * s <= x /\ x < (e + 1) * s
  BY <1>1, DivIs
<1>4. SetLow(p, k) = p + s - 1
  BY DEF SetLow, ClearLow
<1>5. \A q \in Nat : q * s <= x /\ x < (q + 1) * s => q = e
  BY <1>1, DivIs
<1> HIDE DEF s, d, e
<1>6. d * s \in Nat /\ (d + 1) * s = d * s + s /\ p = d * s
  BY <1>1, <1>2
<1>7. x \in p..(p + s - 1) <=> d * s <= x /\ x < (d + 1) * s
  BY <1>1, <1>6
<1>8. d * s <= x /\ x < (d + 1) * s <=> e = d
  BY <1>2, <1>3, <1>5, Zenon
<1> QED BY <1>4, <1>7, <1>8 DEF d, e, s

\* Bytes of nothing only shift a column.
LEMMA EmptyTail ==
  ASSUME NEW word, NEW bytes, IsBytes(bytes), Accumulates(word, bytes), NEW j \in 0..ColumnBytes,
         \A i \in (j + 1)..ColumnBytes : ByteAt(bytes, i) = 0
  PROVE  word[ColumnBytes] = word[j] * Pow(2, (ColumnBytes - j) * ByteBits)
<1> DEFINE B == ByteBits
           n == ColumnBytes - j
           S == {e \in 0..n : word[j + e] = word[j] * Pow(2, e * B)}
<1>1. B \in Nat \ {0} /\ ColumnBytes \in Nat /\ n \in Nat /\ word[j] \in Nat
  BY PrefixWidths DEF Accumulates
<1>2. 0 \in S
  <2>1. 0 * B = 0 /\ j + 0 = j /\ 0 \in 0..n BY <1>1
  <2>2. word[j] * 1 = word[j] BY <1>1
  <2>3. Pow(2, 0 * B) = 1 BY <2>1, TwoPowers
  <2>4. word[j + 0] = word[j] * Pow(2, 0 * B) BY <2>1, <2>2, <2>3, Zenon
  <2> QED BY <2>1, <2>4
<1>3. ASSUME NEW e \in 0..(n - 1), e \in S PROVE e + 1 \in S
  <2>1. e + 1 \in 0..n /\ j + (e + 1) \in (j + 1)..ColumnBytes /\ j + (e + 1) \in 1..ColumnBytes
        /\ (j + (e + 1)) - 1 = j + e /\ j + e \in 0..ColumnBytes
    BY <1>1, <1>3
  <2>2. word[j + (e + 1)] = word[j + e] * Pow(2, B) + 0
    BY <2>1 DEF Accumulates
  <2>3. e * B \in Nat /\ (e + 1) * B = e * B + B
    BY <1>1, <1>3
  <2>4. Pow(2, (e + 1) * B) = Pow(2, e * B) * Pow(2, B) /\ Pow(2, e * B) \in Nat /\ Pow(2, B) \in Nat
    BY <1>1, <2>3, TwoPowers
  <2>5. word[j + e] = word[j] * Pow(2, e * B)
    BY <1>3
  <2> DEFINE w == word[j]
             x == Pow(2, e * B)
             y == Pow(2, B)
  <2>6. (w * x) * y + 0 = w * (x * y)
    <3>1. w \in Nat /\ x \in Nat /\ y \in Nat BY <1>1, <2>4
    <3> HIDE DEF w, x, y
    <3> QED BY <3>1
  <2>7. word[j + (e + 1)] = w * Pow(2, (e + 1) * B)
    BY <2>2, <2>4, <2>5, <2>6, Zenon
  <2> QED BY <2>1, <2>7
<1> HIDE DEF S
<1>4. n \in S
  BY <1>1, <1>2, <1>3, StepsReach
<1>5. j + n = ColumnBytes
  BY <1>1
<1> QED BY <1>4, <1>5 DEF S

-----------------------------------------------------------------------------
\* The bytes a query of nbits carries.
Carried(nbits) == [1..CeilDiv(nbits, ByteBits) -> Byte]

\* The spare bits of the last of the words that n bits take.
LEMMA SpareIs ==
  ASSUME NEW w \in Nat \ {0}, NEW n \in Nat
  PROVE  CeilDiv(n, w) * w - n = IF n % w = 0 THEN 0 ELSE w - (n % w)
<1> DEFINE q == n \div w
           r == n % w
<1>1. q \in Nat /\ r \in Nat /\ r < w /\ n = q * w + r
  BY DivMod, DivIs
<1>2. CeilDiv(n, w) = IF r = 0 THEN q ELSE q + 1
  BY CeilIs
<1> HIDE DEF q, r
<1>3. (q + 1) * w = q * w + w /\ q * w \in Nat
  BY <1>1
<1>4. CASE r = 0
  <2>1. CeilDiv(n, w) * w - n = 0 BY <1>1, <1>2, <1>3, <1>4
  <2> QED BY <1>4, <2>1 DEF r
<1>5. CASE r # 0
  <2>1. CeilDiv(n, w) * w - n = w - r BY <1>1, <1>2, <1>3, <1>5
  <2> QED BY <1>5, <2>1 DEF r
<1> QED BY <1>4, <1>5

\* How many bytes there are, and which of them are whole.
LEMMA CarriedIs ==
  ASSUME NEW nbits \in 0..IdBits
  PROVE  LET L == CeilDiv(nbits, ByteBits)
             whole == nbits \div ByteBits
             rem == nbits % ByteBits
         IN  /\ whole \in Nat /\ rem \in Nat /\ rem < ByteBits
             /\ L \in 0..IdBytes /\ L = IF rem = 0 THEN whole ELSE whole + 1
             /\ nbits = whole * ByteBits + rem
<1> DEFINE B == ByteBits
           whole == nbits \div B
           rem == nbits % B
<1>1. B \in Nat \ {0} /\ nbits \in Nat /\ IdBytes \in Nat /\ IdBits = IdBytes * B
  BY PrefixWidths DEF IdBits
<1>2. whole \in Nat /\ rem \in Nat /\ rem < B /\ nbits = whole * B + rem
  BY <1>1, DivMod, DivIs
<1>3. CeilDiv(nbits, B) = IF rem = 0 THEN whole ELSE whole + 1
  BY <1>1, CeilIs
<1>4. nbits <= IdBytes * B
  BY <1>1
<1> HIDE DEF whole, rem, B
<1>5. whole <= IdBytes /\ (rem # 0 => whole + 1 <= IdBytes)
  <2>1. \A x, y \in Nat : x <= y => x * B <= y * B BY <1>1
  <2>2. IdBytes + 1 <= whole => (IdBytes + 1) * B <= whole * B BY <1>1, <1>2, <2>1
  <2>3. (IdBytes + 1) * B = IdBytes * B + B /\ whole * B \in Nat /\ IdBytes * B \in Nat BY <1>1, <1>2
  <2>4. IdBytes <= whole => IdBytes * B <= whole * B BY <1>1, <1>2, <2>1
  <2> QED BY <1>1, <1>2, <1>4, <2>2, <2>3, <2>4
<1>6. CeilDiv(nbits, B) \in 0..IdBytes
  BY <1>1, <1>2, <1>3, <1>5
<1> QED BY <1>2, <1>3, <1>6 DEF whole, rem, B

\* What newQuery keeps of the bytes it is given: the first nbits, and zeros.
LEMMA QueryIs ==
  ASSUME NEW nbits \in 0..IdBits, NEW full \in Carried(nbits)
  PROVE  LET q == NewQuery(full, nbits)
             whole == nbits \div ByteBits
             rem == nbits % ByteBits
         IN  /\ q.reason = "none" /\ q.bits = nbits /\ q.prefix = Column(q.full)
             /\ q.full \in Carried(nbits)
             /\ \A i \in 1..whole : q.full[i] = full[i]
             /\ rem # 0 => q.full[whole + 1] = ClearLow(full[whole + 1], ByteBits - rem)
<1> DEFINE q == NewQuery(full, nbits)
           B == ByteBits
           L == CeilDiv(nbits, B)
           whole == nbits \div B
           rem == nbits % B
           spare == L * B - nbits
           masked == [i \in 1..L |-> IF i = L THEN ClearLow(full[i], spare) ELSE full[i]]
<1>1. /\ whole \in Nat /\ rem \in Nat /\ rem < B /\ B \in Nat \ {0} /\ nbits \in Nat
      /\ L \in Nat /\ L = IF rem = 0 THEN whole ELSE whole + 1
  BY CarriedIs, PrefixWidths
<1>2. spare = IF rem = 0 THEN 0 ELSE B - rem
  BY <1>1, SpareIs
<1>3. full \in [1..L -> Byte]
  BY DEF Carried
<1> HIDE DEF L, whole, rem, B
<1>4. Len(full) = L /\ DOMAIN full = 1..L
  BY <1>1, <1>3, LengthIs
<1>5. q = [reason |-> "none", bits |-> nbits, full |-> masked, prefix |-> Column(masked)]
  BY <1>4 DEF NewQuery, B, L
<1>6. spare \in Nat
  BY <1>1, <1>2
<1> HIDE DEF spare
<1>7. \A x \in Byte : ClearLow(x, spare) \in Byte
  <2> SUFFICES ASSUME NEW x \in Byte PROVE ClearLow(x, spare) \in Byte OBVIOUS
  <2>1. x \in Nat BY PrefixWidths
  <2>2. ClearLow(x, spare) \in 0..x BY <1>6, <2>1, ClearedIs
  <2>3. Pow(2, ByteBits) \in Nat BY PrefixWidths, TwoPowers
  <2> QED BY <2>1, <2>2, <2>3 DEF Byte
<1>8. masked \in [1..L -> Byte]
  BY <1>3, <1>7
<1>9. ASSUME NEW i \in 1..whole PROVE masked[i] = full[i]
  <2>1. i \in 1..L BY <1>1
  <2>2. CASE i = L
    <3>1. rem = 0 /\ spare = 0 BY <1>1, <1>2, <2>2
    <3>2. full[i] \in Nat BY <1>3, <2>1, PrefixWidths
    <3>3. ClearLow(full[i], 0) = full[i] BY <3>2, ClearedIs
    <3>4. masked[i] = ClearLow(full[i], spare) BY <2>1, <2>2
    <3> QED BY <3>1, <3>3, <3>4
  <2>3. CASE i # L
    BY <2>1, <2>3
  <2> QED BY <2>2, <2>3
<1>10. ASSUME rem # 0 PROVE masked[whole + 1] = ClearLow(full[whole + 1], B - rem)
  <2>1. whole + 1 = L /\ L \in 1..L /\ spare = B - rem BY <1>1, <1>2, <1>10
  <2>2. masked[L] = ClearLow(full[L], spare) BY <2>1
  <2> QED BY <2>1, <2>2
<1> HIDE DEF masked
<1>11. /\ q.reason = "none" /\ q.bits = nbits /\ q.prefix = Column(masked) /\ q.full = masked
  BY <1>5
<1> QED BY <1>8, <1>9, <1>10, <1>11 DEF Carried, B, L, whole, rem

\* Its first nbits are those it was given.
LEMMA QueryAgrees ==
  ASSUME NEW nbits \in 0..IdBits, NEW full \in Carried(nbits)
  PROVE  BitsAgree(NewQuery(full, nbits).full, full, nbits)
<1> DEFINE q == NewQuery(full, nbits)
           whole == nbits \div ByteBits
           rem == nbits % ByteBits
<1>1. /\ q.full \in Carried(nbits)
      /\ \A i \in 1..whole : q.full[i] = full[i]
      /\ rem # 0 => q.full[whole + 1] = ClearLow(full[whole + 1], ByteBits - rem)
  BY QueryIs
<1>2. /\ whole \in Nat /\ rem \in Nat /\ rem < ByteBits /\ ByteBits \in Nat /\ nbits \in Nat
      /\ CeilDiv(nbits, ByteBits) \in Nat
      /\ CeilDiv(nbits, ByteBits) = IF rem = 0 THEN whole ELSE whole + 1
  BY CarriedIs, PrefixWidths
<1>3. ASSUME rem # 0
      PROVE  q.full[whole + 1] \div Pow(2, ByteBits - rem) = full[whole + 1] \div Pow(2, ByteBits - rem)
  <2>1. whole + 1 \in 1..CeilDiv(nbits, ByteBits) /\ ByteBits - rem \in Nat BY <1>2, <1>3
  <2>2. full[whole + 1] \in Nat BY <2>1, PrefixWidths DEF Carried
  <2> HIDE DEF q, whole, rem
  <2>3. ClearLow(full[whole + 1], ByteBits - rem) \div Pow(2, ByteBits - rem)
          = full[whole + 1] \div Pow(2, ByteBits - rem)
    BY <2>1, <2>2, ClearedIs
  <2> QED BY <1>1, <1>3, <2>3
<1>4. BytesAgree(q.full, full, nbits)
  <2> HIDE DEF q, whole, rem
  <2>1. BytesAgree(q.full, full, nbits) <=>
          /\ \A i \in 1..whole : q.full[i] = full[i]
          /\ rem # 0 => q.full[whole + 1] \div Pow(2, ByteBits - rem)
                          = full[whole + 1] \div Pow(2, ByteBits - rem)
    BY DEF BytesAgree, whole, rem
  <2> QED BY <1>1, <1>3, <2>1, Zenon
<1>5. \A i \in 1..CeilDiv(nbits, ByteBits) : q.full[i] \in Byte /\ full[i] \in Byte
  BY <1>1 DEF Carried
<1> HIDE DEF q
<1>6. BitsAgree(q.full, full, nbits)
  BY <1>2, <1>4, <1>5, AgreementsAgree
<1> QED BY <1>6 DEF q

\* Matches compares the first bits of the lookup_id with the query's.
LEMMA MatchesIs ==
  ASSUME NEW nbits \in 0..IdBits, NEW full \in Carried(nbits), NEW id \in Id
  PROVE  Matches(NewQuery(full, nbits), id) <=> BitsAgree(full, id, nbits)
<1> DEFINE q == NewQuery(full, nbits)
           whole == nbits \div ByteBits
           rem == nbits % ByteBits
           L == CeilDiv(nbits, ByteBits)
<1>1. q.full \in Carried(nbits) /\ q.bits = nbits
  BY QueryIs
<1>2. /\ whole \in Nat /\ rem \in Nat /\ rem < ByteBits /\ ByteBits \in Nat /\ nbits \in Nat
      /\ L \in 0..IdBytes /\ L = IF rem = 0 THEN whole ELSE whole + 1
  BY CarriedIs, PrefixWidths
<1>3. \A i \in 1..L : q.full[i] \in Byte /\ id[i] \in Byte
  <2> HIDE DEF q
  <2>1. q.full \in [1..L -> Byte] /\ id \in [1..IdBytes -> Byte]
    BY <1>1 DEF Carried, Id
  <2>2. \A i \in 1..L : i \in 1..IdBytes
    BY <1>2, PrefixWidths
  <2> HIDE DEF L
  <2> QED BY <2>1, <2>2
<1>4. BitsAgree(q.full, full, nbits)
  BY QueryAgrees
<1> HIDE DEF q, whole, rem, L
<1>5. rem # 0 => (ClearLow(q.full[whole + 1], ByteBits - rem) = ClearLow(id[whole + 1], ByteBits - rem)
                    <=> q.full[whole + 1] \div Pow(2, ByteBits - rem)
                          = id[whole + 1] \div Pow(2, ByteBits - rem))
  <2> SUFFICES ASSUME rem # 0
               PROVE  ClearLow(q.full[whole + 1], ByteBits - rem) = ClearLow(id[whole + 1], ByteBits - rem)
                        <=> q.full[whole + 1] \div Pow(2, ByteBits - rem)
                              = id[whole + 1] \div Pow(2, ByteBits - rem)
    OBVIOUS
  <2>1. whole + 1 \in 1..L /\ ByteBits - rem \in Nat BY <1>2
  <2>2. q.full[whole + 1] \in Nat /\ id[whole + 1] \in Nat BY <1>3, <2>1, PrefixWidths
  <2> QED BY <2>1, <2>2, ClearedTell
<1>6. Matches(q, id) <=>
        /\ \A i \in 1..whole : q.full[i] = id[i]
        /\ rem # 0 => ClearLow(q.full[whole + 1], ByteBits - rem) = ClearLow(id[whole + 1], ByteBits - rem)
  BY <1>1 DEF Matches, whole, rem
<1>7. BytesAgree(q.full, id, nbits) <=>
        /\ \A i \in 1..whole : q.full[i] = id[i]
        /\ rem # 0 => q.full[whole + 1] \div Pow(2, ByteBits - rem)
                        = id[whole + 1] \div Pow(2, ByteBits - rem)
  BY DEF BytesAgree, whole, rem
<1>8. BytesAgree(q.full, id, nbits) <=> BitsAgree(q.full, id, nbits)
  BY <1>2, <1>3, AgreementsAgree DEF L
<1>9. BitsAgree(q.full, id, nbits) <=> BitsAgree(full, id, nbits)
  BY <1>4 DEF BitsAgree
<1> QED BY <1>5, <1>6, <1>7, <1>8, <1>9 DEF q

\* What Column reads of a query's bytes and of a lookup_id.
LEMMA BytesRead ==
  ASSUME NEW nbits \in 0..IdBits, NEW full \in Carried(nbits), NEW id \in Id
  PROVE  /\ IsBytes(full) /\ IsBytes(id)
         /\ \A i \in 1..ColumnBytes : ByteAt(id, i) = id[i]
         /\ \A i \in 1..ColumnBytes :
              ByteAt(full, i) = IF i <= CeilDiv(nbits, ByteBits) THEN full[i] ELSE 0
<1> DEFINE L == CeilDiv(nbits, ByteBits)
<1>1. L \in Nat /\ IdBytes \in Nat /\ ColumnBytes \in Nat /\ ColumnBytes <= IdBytes /\ 0 \in Byte
  BY CarriedIs, PrefixWidths
<1>2. full \in [1..L -> Byte] /\ id \in [1..IdBytes -> Byte]
  BY DEF Carried, Id
<1> HIDE DEF L
<1>3. Len(full) = L /\ Len(id) = IdBytes
  BY <1>1, <1>2, LengthIs
<1>4. \A i \in 1..ColumnBytes : ByteAt(id, i) = id[i] /\ id[i] \in Byte
  BY <1>1, <1>2, <1>3 DEF ByteAt
<1>5. \A i \in 1..ColumnBytes : ByteAt(full, i) = IF i <= L THEN full[i] ELSE 0
  BY <1>3 DEF ByteAt
<1>6. \A i \in 1..ColumnBytes : i <= L => full[i] \in Byte
  BY <1>1, <1>2
<1>7. IsBytes(full)
  BY <1>1, <1>5, <1>6 DEF IsBytes
<1> QED BY <1>4, <1>5, <1>7 DEF IsBytes, L

\* A query's column ends in zeros where the query ends before it.
LEMMA PrefixIsRound ==
  ASSUME NEW nbits \in 0..IdBits, NEW full \in Carried(nbits), nbits <= ColumnBits
  PROVE  Column(NewQuery(full, nbits).full) % Pow(2, ColumnBits - nbits) = 0
<1> DEFINE f == NewQuery(full, nbits).full
           B == ByteBits
           C == ColumnBytes
           L == CeilDiv(nbits, ByteBits)
           whole == nbits \div ByteBits
           rem == nbits % ByteBits
<1>1. f \in Carried(nbits) /\ (rem # 0 => f[whole + 1] = ClearLow(full[whole + 1], B - rem))
  BY QueryIs
<1>2. /\ whole \in Nat /\ rem \in Nat /\ rem < B /\ L = (IF rem = 0 THEN whole ELSE whole + 1)
      /\ nbits = whole * B + rem /\ nbits \in Nat
  BY CarriedIs, PrefixWidths
<1>3. B \in Nat \ {0} /\ C \in Nat /\ C * B = ColumnBits /\ ColumnBits \in Nat
  BY PrefixWidths DEF ColumnBits
<1>4. /\ IsBytes(f)
      /\ \A i \in 1..C : ByteAt(f, i) = IF i <= L THEN f[i] ELSE 0
  <2>1. \E id : id \in Id
    <3>1. [i \in 1..IdBytes |-> 0] \in Id BY PrefixWidths DEF Id
    <3> QED BY <3>1
  <2> HIDE DEF f
  <2> QED BY <1>1, <2>1, BytesRead
<1>5. PICK word : Accumulates(word, f) /\ Column(f) = word[C]
  <2> HIDE DEF f
  <2> QED BY <1>4, ColumnIs
<1> HIDE DEF f, whole, rem, L
<1>6. L <= C
  <2>1. \A x, y \in Nat : x <= y => x * B <= y * B BY <1>3
  <2>2. C + 1 <= whole => (C + 1) * B <= whole * B BY <1>2, <1>3, <2>1
  <2>3. (C + 1) * B = C * B + B /\ whole * B \in Nat BY <1>2, <1>3
  <2>4. C <= whole => C * B <= whole * B BY <1>2, <1>3, <2>1
  <2> QED BY <1>2, <1>3, <2>2, <2>3, <2>4
<1>7. L \in 0..C /\ \A i \in (L + 1)..C : ByteAt(f, i) = 0
  BY <1>2, <1>3, <1>4, <1>6
<1>8. word[C] = word[L] * Pow(2, (C - L) * B)
  BY <1>4, <1>5, <1>7, EmptyTail
<1>9. word[L] \in Nat /\ C - L \in Nat /\ (C - L) * B \in Nat
  <2>1. word[L] \in Nat /\ C - L \in Nat BY <1>3, <1>5, <1>7 DEF Accumulates
  <2> QED BY <1>3, <2>1
<1>10. \A a \in Nat : \A s \in Nat \ {0} : (a * s) % s = 0
  <2> SUFFICES ASSUME NEW a \in Nat, NEW s \in Nat \ {0} PROVE (a * s) % s = 0 OBVIOUS
  <2>1. (a * s + 0) % s = 0 BY DivOfSum
  <2>2. a * s + 0 = a * s OBVIOUS
  <2> QED BY <2>1, <2>2
<1> DEFINE p == Pow(2, (C - L) * B)
<1>11. p \in Nat \ {0}
  BY <1>9, TwoPowers
<1>12. CASE rem = 0
  <2>1. (C - L) * B = ColumnBits - nbits BY <1>2, <1>3, <1>12
  <2>2. (word[L] * p) % p = 0
    <3> HIDE DEF p
    <3> QED BY <1>9, <1>10, <1>11
  <2> QED BY <1>5, <1>8, <2>1, <2>2 DEF f
<1>13. CASE rem # 0
  <2>1. L = whole + 1 /\ L \in 1..C /\ whole \in 0..C /\ L - 1 = whole /\ B - rem \in Nat
    BY <1>2, <1>3, <1>6, <1>13
  <2> DEFINE q == Pow(2, B - rem)
             r == Pow(2, rem)
  <2>2. (C - L) * B + (B - rem) = ColumnBits - nbits
    <3>1. (C - L) * B = C * B - (whole * B + B) BY <1>2, <1>3, <2>1
    <3>2. C * B \in Nat /\ whole * B \in Nat BY <1>2, <1>3
    <3> QED BY <1>2, <1>3, <1>9, <3>1, <3>2
  <2>3. Pow(2, ColumnBits - nbits) = p * q /\ q \in Nat \ {0}
    <3>1. Pow(2, (C - L) * B + (B - rem)) = p * q /\ q \in Nat \ {0}
      BY <1>9, <2>1, TwoPowers
    <3> QED BY <2>2, <3>1
  <2>4. Pow(2, B) = q * r /\ r \in Nat
    <3>1. (B - rem) + rem = B BY <1>2, <1>3
    <3>2. Pow(2, (B - rem) + rem) = q * r /\ r \in Nat BY <1>2, <2>1, TwoPowers
    <3> QED BY <3>1, <3>2
  <2> DEFINE c == full[whole + 1] \div q
  <2>5. full[whole + 1] \in Nat
    <3>1. whole + 1 \in 1..L BY <1>2, <2>1
    <3> QED BY <3>1, PrefixWidths DEF Carried, L
  <2>6. c \in Nat /\ f[whole + 1] = c * q
    <3>1. ClearLow(full[whole + 1], B - rem) = c * q BY <2>1, <2>5, ClearedIs
    <3>2. c \in Nat
      <4> HIDE DEF q
      <4> QED BY <2>3, <2>5, DivIs
    <3> HIDE DEF c, q
    <3> QED BY <1>1, <1>13, <3>1, <3>2
  <2> HIDE DEF p, q, r, c
  <2>7. word[L] = word[whole] * Pow(2, B) + ByteAt(f, L)
    BY <1>5, <2>1 DEF Accumulates
  <2>8. ByteAt(f, L) = c * q
    BY <1>4, <2>1, <2>6
  <2>9. word[whole] \in Nat
    BY <1>5, <2>1 DEF Accumulates
  <2> DEFINE w == word[whole]
             e == w * r + c
  <2>10. e \in Nat /\ p * q \in Nat \ {0}
    <3>1. w \in Nat BY <2>9
    <3> HIDE DEF w
    <3> QED BY <1>11, <2>3, <2>4, <2>6, <3>1
  <2>11. (w * (q * r) + c * q) * p = e * (p * q)
    <3>1. w \in Nat BY <2>9
    <3> HIDE DEF w
    <3> QED BY <1>11, <2>3, <2>4, <2>6, <3>1
  <2>12. word[C] = e * (p * q)
    <3>1. word[C] = word[L] * p BY <1>8 DEF p
    <3>2. word[L] = w * (q * r) + c * q BY <2>4, <2>7, <2>8
    <3> QED BY <2>11, <3>1, <3>2
  <2>13. (e * (p * q)) % (p * q) = 0
    <3> HIDE DEF e
    <3> QED BY <1>10, <2>10, Zenon
  <2> HIDE DEF e
  <2> QED BY <1>5, <2>3, <2>12, <2>13, Zenon DEF f
<1> QED BY <1>12, <1>13

\* The bits of a query the column holds.
InColumn(nbits) == IF nbits > ColumnBits THEN ColumnBits ELSE nbits

\* Range compares as many of the first bits as the column holds.
LEMMA RangeIs ==
  ASSUME NEW nbits \in 0..IdBits, NEW full \in Carried(nbits), NEW id \in Id
  PROVE  InRange(NewQuery(full, nbits), id) <=> BitsAgree(full, id, InColumn(nbits))
<1> DEFINE q == NewQuery(full, nbits)
           m == InColumn(nbits)
           k == ColumnBits - m
           whole == m \div ByteBits
           rem == m % ByteBits
           L == CeilDiv(nbits, ByteBits)
<1>1. q.full \in Carried(nbits) /\ q.bits = nbits /\ q.prefix = Column(q.full)
  BY QueryIs
<1>2. m \in 0..ColumnBits /\ m <= nbits /\ k \in Nat /\ m \in Nat /\ nbits \in Nat /\ m \in 0..IdBits
  BY PrefixWidths DEF InColumn
<1>3. InRange(q, id) <=> Column(id) \in q.prefix..SetLow(q.prefix, k)
  BY <1>1 DEF InRange, InColumn
<1>4. q.prefix % Pow(2, k) = 0
  <2>1. CASE nbits <= ColumnBits
    <3>1. m = nbits BY <1>2, <2>1, PrefixWidths DEF InColumn
    <3>2. Column(q.full) % Pow(2, ColumnBits - nbits) = 0 BY <2>1, PrefixIsRound
    <3> HIDE DEF q
    <3> QED BY <1>1, <3>1, <3>2
  <2>2. CASE nbits > ColumnBits
    <3>1. k = 0 BY <2>2, PrefixWidths DEF InColumn
    <3>2. Pow(2, k) = 1 BY <3>1, TwoPowers
    <3>3. q.prefix \in Nat
      <4> HIDE DEF q
      <4>1. \E word : Accumulates(word, q.full) /\ q.prefix = word[ColumnBytes]
        BY <1>1, BytesRead, ColumnIs
      <4>2. ColumnBytes \in 0..ColumnBytes BY PrefixWidths
      <4> QED BY <4>1, <4>2 DEF Accumulates
    <3> HIDE DEF q, k
    <3>4. q.prefix % 1 = 0 BY <3>3
    <3> QED BY <3>2, <3>4
  <2>3. nbits \in Int /\ ColumnBits \in Int BY <1>2, PrefixWidths
  <2> QED BY <2>1, <2>2, <2>3
<1> HIDE DEF q
<1>5. /\ IsBytes(q.full) /\ IsBytes(id)
      /\ \A i \in 1..ColumnBytes : ByteAt(id, i) = id[i]
      /\ \A i \in 1..ColumnBytes : ByteAt(q.full, i) = IF i <= L THEN q.full[i] ELSE 0
  BY <1>1, BytesRead
<1>6. Column(id) \in Nat /\ q.prefix \in Nat
  <2>1. ColumnBytes \in 0..ColumnBytes BY PrefixWidths
  <2>2. \E word : Accumulates(word, q.full) /\ q.prefix = word[ColumnBytes]
    BY <1>1, <1>5, ColumnIs
  <2>3. \E word : Accumulates(word, id) /\ Column(id) = word[ColumnBytes]
    BY <1>5, ColumnIs
  <2> QED BY <2>1, <2>2, <2>3 DEF Accumulates
<1>7. InRange(q, id) <=> Column(id) \div Pow(2, k) = Column(q.full) \div Pow(2, k)
  <2> HIDE DEF k
  <2> QED BY <1>1, <1>2, <1>3, <1>4, <1>6, RangeHolds
<1>8. Column(q.full) \div Pow(2, k) = Column(id) \div Pow(2, k)
        <=> /\ \A i \in 1..whole : ByteAt(q.full, i) = ByteAt(id, i)
            /\ rem # 0 => ByteAt(q.full, whole + 1) \div Pow(2, ByteBits - rem)
                            = ByteAt(id, whole + 1) \div Pow(2, ByteBits - rem)
  BY <1>2, <1>5, ColumnsAgree
<1>9. \A i \in 1..CeilDiv(m, ByteBits) :
         /\ i \in 1..ColumnBytes /\ i <= L /\ ByteAt(q.full, i) = q.full[i] /\ ByteAt(id, i) = id[i]
         /\ q.full[i] \in Byte /\ id[i] \in Byte
  <2>1. CeilDiv(m, ByteBits) <= ColumnBytes /\ CeilDiv(m, ByteBits) <= L
        /\ CeilDiv(m, ByteBits) \in Nat /\ L \in Nat
    <3>1. /\ m = whole * ByteBits + rem /\ whole \in Nat /\ rem \in Nat /\ rem < ByteBits
          /\ CeilDiv(m, ByteBits) = IF rem = 0 THEN whole ELSE whole + 1
      BY <1>2, CarriedIs
    <3> DEFINE w2 == nbits \div ByteBits
               r2 == nbits % ByteBits
    <3>2. /\ nbits = w2 * ByteBits + r2 /\ w2 \in Nat /\ r2 \in Nat /\ r2 < ByteBits
          /\ L = IF r2 = 0 THEN w2 ELSE w2 + 1
      BY <1>2, CarriedIs
    <3>3. ByteBits \in Nat \ {0} /\ ColumnBytes \in Nat /\ ColumnBits = ColumnBytes * ByteBits
      BY PrefixWidths DEF ColumnBits
    <3>4. whole * ByteBits + rem <= ColumnBytes * ByteBits BY <1>2, <3>1, <3>3
    <3>5. whole * ByteBits + rem <= w2 * ByteBits + r2 BY <1>2, <3>1, <3>2
    <3> DEFINE B == ByteBits
    <3> HIDE DEF whole, rem, w2, r2, m, L
    <3>6. \A x, y \in Nat : x + 1 <= y => x * B + B <= y * B
      <4> SUFFICES ASSUME NEW x \in Nat, NEW y \in Nat, x + 1 <= y PROVE x * B + B <= y * B OBVIOUS
      <4>1. \A u, v \in Nat : u <= v => u * B <= v * B BY <3>3
      <4>2. (x + 1) * B = x * B + B BY <3>3
      <4>3. (x + 1) * B <= y * B BY <4>1
      <4> QED BY <4>2, <4>3
    <3>7. whole * B \in Nat /\ w2 * B \in Nat /\ ColumnBytes * B \in Nat BY <3>1, <3>2, <3>3
    <3>8. ~(ColumnBytes + 1 <= whole) /\ (rem # 0 => whole # ColumnBytes)
      BY <3>1, <3>3, <3>4, <3>6, <3>7
    <3>9. ~(w2 + 1 <= whole) /\ (rem # 0 /\ r2 = 0 => whole # w2)
      BY <3>1, <3>2, <3>3, <3>5, <3>6, <3>7
    <3> QED BY <3>1, <3>2, <3>3, <3>8, <3>9
  <2>2. ASSUME NEW i \in 1..CeilDiv(m, ByteBits)
        PROVE  i \in 1..ColumnBytes /\ i <= L /\ i \in 1..L /\ i \in 1..IdBytes
    BY <2>1, PrefixWidths
  <2>3. q.full \in [1..L -> Byte] /\ id \in [1..IdBytes -> Byte]
    BY <1>1 DEF Carried, Id
  <2> HIDE DEF L, m
  <2> QED BY <1>5, <2>2, <2>3
<1>10. BitsAgree(q.full, id, m) <=> BytesAgree(q.full, id, m)
  BY <1>2, <1>9, AgreementsAgree
<1>11. BytesAgree(q.full, id, m) <=>
         /\ \A i \in 1..whole : q.full[i] = id[i]
         /\ rem # 0 => q.full[whole + 1] \div Pow(2, ByteBits - rem)
                         = id[whole + 1] \div Pow(2, ByteBits - rem)
  BY DEF BytesAgree
<1>12. /\ \A i \in 1..whole : i \in 1..CeilDiv(m, ByteBits)
       /\ rem # 0 => whole + 1 \in 1..CeilDiv(m, ByteBits)
  <2>1. /\ whole \in Nat /\ rem \in Nat
        /\ CeilDiv(m, ByteBits) = IF rem = 0 THEN whole ELSE whole + 1
    BY <1>2, CarriedIs
  <2> HIDE DEF whole, rem, m
  <2> QED BY <2>1
<1>13. BitsAgree(q.full, full, nbits)
  BY QueryAgrees DEF q
<1>14. BitsAgree(q.full, id, m) <=> BitsAgree(full, id, m)
  <2>1. \A n \in 1..m : n \in 1..nbits BY <1>2
  <2> HIDE DEF m
  <2> QED BY <1>13, <2>1 DEF BitsAgree
<1> HIDE DEF m, k, whole, rem
<1>15. BytesAgree(q.full, id, m) <=> Column(q.full) \div Pow(2, k) = Column(id) \div Pow(2, k)
  BY <1>8, <1>9, <1>11, <1>12
<1> QED BY <1>7, <1>10, <1>14, <1>15 DEF q, m

-----------------------------------------------------------------------------
\* Digits agree with bytes on their first n bits.
DigitsAgree(digits, bytes, n) ==
  \A k \in 1..n : BitAt(digits, DigitBits, k) = BitAt(bytes, ByteBits, k)

\* The number of words n bits take reaches as far as the bits.
LEMMA CeilReaches ==
  ASSUME NEW w \in Nat \ {0}, NEW n \in Nat, NEW i \in Nat \ {0}
  PROVE  /\ \A j \in 1..w : (i - 1) * w + j <= n => i <= CeilDiv(n, w)
         /\ i <= CeilDiv(n, w) => (i - 1) * w + 1 <= n
<1> DEFINE q == n \div w
           r == n % w
<1>1. q \in Nat /\ r \in Nat /\ r < w
  BY DivMod, DivIs
<1>2. CeilDiv(n, w) = IF r = 0 THEN q ELSE q + 1
  BY CeilIs
<1>3. \A j \in 1..w : (i - 1) * w + j <= n <=> i <= q \/ (i = q + 1 /\ j <= r)
  BY PlaceAmong
<1>4. 1 \in 1..w
  OBVIOUS
<1> HIDE DEF q, r
<1>5. ASSUME NEW j \in 1..w, (i - 1) * w + j <= n PROVE i <= CeilDiv(n, w)
  <2>1. i <= q \/ (i = q + 1 /\ j <= r) BY <1>3, <1>5
  <2>2. j <= r => r # 0 BY <1>5
  <2> QED BY <1>1, <1>2, <2>1, <2>2
<1>6. ASSUME i <= CeilDiv(n, w) PROVE (i - 1) * w + 1 <= n
  <2>1. i <= q \/ (i = q + 1 /\ 1 <= r) BY <1>1, <1>2, <1>6
  <2> QED BY <1>3, <1>4, <2>1
<1> QED BY <1>5, <1>6

\* A byte's bits are those of its two digits.
LEMMA HalvesOfByte ==
  ASSUME NEW x \in Byte, NEW j \in 1..ByteBits
  PROVE  /\ j <= DigitBits => BitOf(x, ByteBits, j) = BitOf(x \div Pow(2, DigitBits), DigitBits, j)
         /\ j > DigitBits => BitOf(x, ByteBits, j) = BitOf(x % Pow(2, DigitBits), DigitBits, j - DigitBits)
<1> DEFINE D == DigitBits
           s == Pow(2, D)
<1>1. D \in Nat \ {0} /\ ByteBits = D + D /\ x \in Nat /\ s \in Nat \ {0}
  BY PrefixWidths, TwoPowers
<1>2. ASSUME j <= D PROVE BitOf(x, ByteBits, j) = BitOf(x \div s, D, j)
  <2>1. ByteBits - j = D + (D - j) /\ D - j \in Nat BY <1>1, <1>2
  <2>2. Pow(2, ByteBits - j) = s * Pow(2, D - j) /\ Pow(2, D - j) \in Nat \ {0}
    BY <1>1, <2>1, TwoPowers
  <2>3. (x \div s) \div Pow(2, D - j) = x \div (s * Pow(2, D - j))
    BY <1>1, <2>2, DivDiv
  <2> QED BY <2>2, <2>3 DEF BitOf
<1>3. ASSUME j > D PROVE BitOf(x, ByteBits, j) = BitOf(x % s, D, j - D)
  <2> DEFINE e == ByteBits - j
             f == D - e - 1
             p == Pow(2, e)
             t == Pow(2, f)
             h == x \div s
             l == x % s
  <2>1. e \in Nat /\ f \in Nat /\ e + (f + 1) = D /\ e = D - (j - D)
    BY <1>1, <1>3
  <2>2. s = p * (t * 2) /\ p \in Nat \ {0} /\ t \in Nat \ {0}
    <3> HIDE DEF e, f
    <3>1. Pow(2, e + (f + 1)) = p * Pow(2, f + 1) /\ Pow(2, f + 1) = t * 2
      BY <2>1, TwoPowers
    <3> QED BY <2>1, <3>1, TwoPowers
  <2>3. h \in Nat /\ l \in Nat /\ x = h * s + l
    <3> HIDE DEF s
    <3> QED BY <1>1, DivMod, DivIs
  <2> HIDE DEF e, f, p, t, h, l, s
  <2>4. x \div p = h * (t * 2) + (l \div p)
    <3>1. t * 2 \in Nat \ {0} BY <2>2
    <3>2. (h * (p * (t * 2)) + l) \div p = h * (t * 2) + (l \div p)
      BY <2>2, <2>3, <3>1, DivOfHigh
    <3> QED BY <2>2, <2>3, <3>2
  <2> DEFINE y == l \div p
             a == h * t
  <2>5. y \in Nat /\ a \in Nat /\ h * (t * 2) = a * 2
    <3>1. y \in Nat BY <2>2, <2>3, DivIs
    <3>2. a \in Nat /\ h * (t * 2) = a * 2 BY <2>2, <2>3
    <3> QED BY <3>1, <3>2
  <2>6. x \div p = a * 2 + y
    BY <2>4, <2>5
  <2> HIDE DEF y, a
  <2>7. (a * 2 + y) % 2 = y % 2
    BY <2>5
  <2>8. (x \div p) % 2 = (l \div p) % 2
    BY <2>6, <2>7 DEF y
  <2>9. BitOf(x, ByteBits, j) = (x \div p) % 2
    BY DEF BitOf, p, e
  <2>10. BitOf(l, D, j - D) = (l \div p) % 2
    BY <2>1 DEF BitOf, p
  <2> QED BY <2>8, <2>9, <2>10 DEF l
<1> QED BY <1>2, <1>3

\* Where digits are the halves of a byte, their bits are the byte's.
LEMMA BitOfHalves ==
  ASSUME NEW digits, NEW bytes, NEW i \in Nat \ {0}, NEW j \in 1..ByteBits, bytes[i] \in Byte,
         j <= DigitBits => digits[2 * i - 1] = bytes[i] \div Pow(2, DigitBits),
         j > DigitBits => digits[2 * i] = bytes[i] % Pow(2, DigitBits)
  PROVE  BitAt(digits, DigitBits, (i - 1) * ByteBits + j)
           = BitAt(bytes, ByteBits, (i - 1) * ByteBits + j)
<1> DEFINE D == DigitBits
<1>1. D \in Nat \ {0} /\ ByteBits = D + D /\ ByteBits \in Nat \ {0}
  BY PrefixWidths
<1>2. BitAt(bytes, ByteBits, (i - 1) * ByteBits + j) = BitOf(bytes[i], ByteBits, j)
  BY <1>1, BitStands
<1>3. CASE j <= D
  <2>1. (2 * i - 1) \in Nat \ {0} /\ j \in 1..D BY <1>1, <1>3
  <2>2. ((2 * i - 1) - 1) * D + j = (i - 1) * ByteBits + j
    <3>1. ((2 * i - 1) - 1) * D = (i - 1) * (D + D) BY <1>1
    <3> QED BY <1>1, <3>1
  <2>3. BitAt(digits, D, ((2 * i - 1) - 1) * D + j) = BitOf(digits[2 * i - 1], D, j)
    <3> DEFINE a == 2 * i - 1
    <3>1. a \in Nat \ {0} BY <2>1
    <3> HIDE DEF a
    <3>2. BitAt(digits, D, (a - 1) * D + j) = BitOf(digits[a], D, j)
      BY <1>1, <2>1, <3>1, BitStands
    <3> QED BY <3>2 DEF a
  <2>4. BitOf(bytes[i], ByteBits, j) = BitOf(bytes[i] \div Pow(2, D), D, j)
    BY <1>3, HalvesOfByte
  <2> QED BY <1>2, <1>3, <2>2, <2>3, <2>4
<1>4. CASE j > D
  <2>1. 2 * i \in Nat \ {0} /\ j - D \in 1..D BY <1>1, <1>4
  <2>2. (2 * i - 1) * D + (j - D) = (i - 1) * ByteBits + j
    <3>1. (2 * i - 1) * D = (i - 1) * (D + D) + D BY <1>1
    <3>2. (i - 1) * (D + D) \in Nat BY <1>1
    <3> QED BY <1>1, <3>1, <3>2
  <2>3. BitAt(digits, D, (2 * i - 1) * D + (j - D)) = BitOf(digits[2 * i], D, j - D)
    <3> DEFINE a == 2 * i
               b == j - D
    <3>1. a \in Nat \ {0} /\ b \in 1..D BY <2>1
    <3> HIDE DEF a, b
    <3>2. BitAt(digits, D, (a - 1) * D + b) = BitOf(digits[a], D, b)
      BY <1>1, <3>1, BitStands
    <3> QED BY <3>2 DEF a, b
  <2>4. BitOf(bytes[i], ByteBits, j) = BitOf(bytes[i] % Pow(2, D), D, j - D)
    BY <1>4, HalvesOfByte
  <2> QED BY <1>2, <1>4, <2>2, <2>3, <2>4
<1> QED BY <1>1, <1>3, <1>4

\* The digits a query of nbits is written in.
Written(nbits) == [1..CeilDiv(nbits, DigitBits) -> Digit]

\* What Parse makes of the digits: bytes with the same bits.
LEMMA PackedIs ==
  ASSUME NEW nbits \in 0..IdBits, NEW digits \in Written(nbits)
  PROVE  Packed(digits, nbits) \in Carried(nbits) /\ DigitsAgree(digits, Packed(digits, nbits), nbits)
<1> DEFINE D == DigitBits
           B == ByteBits
           s == Pow(2, D)
           K == CeilDiv(nbits, D)
           L == CeilDiv(nbits, B)
           bytes == Packed(digits, nbits)
           low(i) == IF 2 * i <= K THEN digits[2 * i] ELSE 0
<1>1. /\ D \in Nat \ {0} /\ B = D + D /\ B \in Nat \ {0} /\ nbits \in Nat
      /\ s \in Nat \ {0} /\ Pow(2, B) = s * s /\ Digit = 0..(s - 1) /\ Byte = 0..(Pow(2, B) - 1)
  <2>1. D \in Nat \ {0} /\ B = D + D /\ B \in Nat \ {0} /\ nbits \in Nat
    BY PrefixWidths
  <2>2. s \in Nat \ {0} /\ Pow(2, D + D) = s * s
    <3> HIDE DEF D
    <3> QED BY <2>1, TwoPowers
  <2>3. Digit = 0..(s - 1) /\ Byte = 0..(Pow(2, B) - 1)
    BY DEF Digit, Byte
  <2> HIDE DEF s, D, B
  <2>4. Pow(2, B) = s * s BY <2>1, <2>2
  <2> QED BY <2>1, <2>2, <2>3, <2>4
<1>2. K \in Nat /\ L \in Nat
  <2>1. \A w \in Nat \ {0} : CeilDiv(nbits, w) \in Nat
    <3> SUFFICES ASSUME NEW w \in Nat \ {0} PROVE CeilDiv(nbits, w) \in Nat OBVIOUS
    <3>1. nbits \div w \in Nat BY <1>1, DivIs
    <3>2. nbits \in Nat BY <1>1
    <3>3. CeilDiv(nbits, w) = IF nbits % w = 0 THEN nbits \div w ELSE nbits \div w + 1
      BY <3>2, CeilIs
    <3> DEFINE q == nbits \div w
    <3> HIDE DEF q
    <3>4. q \in Nat BY <3>1 DEF q
    <3>5. CeilDiv(nbits, w) \in {q, q + 1} BY <3>3 DEF q
    <3> QED BY <3>4, <3>5
  <2> QED BY <1>1, <2>1
<1>3. Len(digits) = K /\ digits \in [1..K -> Digit]
  BY <1>2, LengthIs DEF Written
<1>4. bytes = [i \in 1..L |-> digits[2 * i - 1] * s + low(i)]
  BY <1>3 DEF Packed
<1> HIDE DEF K, L, s, bytes
<1>5. ASSUME NEW i \in 1..L
      PROVE  /\ 2 * i - 1 \in 1..K
             /\ digits[2 * i - 1] \in 0..(s - 1) /\ low(i) \in 0..(s - 1)
  <2>1. i \in Nat \ {0} /\ 2 * i - 1 \in Nat \ {0} /\ i <= L BY <1>2, <1>5
  <2>2. (i - 1) * B + 1 <= nbits BY <1>1, <2>1, CeilReaches DEF L
  <2>3. ((2 * i - 1) - 1) * D + 1 = (i - 1) * B + 1
    <3>1. ((2 * i - 1) - 1) * D = (i - 1) * (D + D) BY <1>1, <2>1
    <3> QED BY <1>1, <3>1
  <2>4. 1 \in 1..D BY <1>1
  <2>5. 2 * i - 1 <= K
    <3>1. ((2 * i - 1) - 1) * D + 1 <= nbits BY <2>2, <2>3
    <3> QED BY <1>1, <2>1, <2>4, <3>1, CeilReaches DEF K
  <2>6. 2 * i - 1 \in 1..K BY <1>2, <2>1, <2>5
  <2>7. low(i) \in 0..(s - 1)
    <3>1. 2 * i <= K => 2 * i \in 1..K BY <1>2, <2>1
    <3> QED BY <1>1, <1>3, <3>1
  <2> QED BY <1>1, <1>3, <2>6, <2>7
<1>6. ASSUME NEW i \in 1..L
      PROVE  /\ bytes[i] \in Byte
             /\ bytes[i] \div s = digits[2 * i - 1] /\ bytes[i] % s = low(i)
  <2> DEFINE h == digits[2 * i - 1]
             l == low(i)
  <2>1. h \in 0..(s - 1) /\ l \in 0..(s - 1) BY <1>5
  <2>2. bytes[i] = h * s + l BY <1>4
  <2> HIDE DEF h, l
  <2>3. (h * s + l) \div s = h /\ (h * s + l) % s = l
    <3>1. s \in Nat \ {0} /\ h \in Nat /\ l \in Nat /\ l < s BY <1>1, <2>1
    <3> QED BY <3>1, DivOfSum
  <2>4. h * s + l \in 0..(s * s - 1)
    <3>1. h * s \in Nat /\ h * s <= (s - 1) * s
      <4>1. \A u, v \in Nat : u <= v => u * s <= v * s BY <1>1
      <4> QED BY <1>1, <2>1, <4>1
    <3>2. (s - 1) * s = s * s - s /\ s * s \in Nat BY <1>1
    <3> QED BY <1>1, <2>1, <3>1, <3>2
  <2> QED BY <1>1, <2>2, <2>3, <2>4 DEF h, l
<1>7. bytes \in Carried(nbits)
  <2>1. bytes = [i \in 1..L |-> bytes[i]] BY <1>4
  <2>2. bytes \in [1..L -> Byte] BY <1>6, <2>1
  <2> QED BY <2>2 DEF Carried, L
<1>8. ASSUME NEW k \in 1..nbits PROVE BitAt(digits, D, k) = BitAt(bytes, B, k)
  <2>1. k \in Nat \ {0} BY <1>8
  <2>2. PICK i \in Nat \ {0}, j \in 1..B : k = (i - 1) * B + j
    <3> HIDE DEF B
    <3>1. B \in Nat \ {0} BY <1>1
    <3> QED BY ONLY <2>1, <3>1, BitsStandSomewhere, Zenon
  <2>3. (i - 1) * B + j <= nbits BY <1>1, <1>8, <2>2
  <2>4. i \in 1..L
    <3>1. i <= L
      <4> HIDE DEF B
      <4> QED BY <1>1, <2>3, CeilReaches DEF L, B
    <3> QED BY <1>2, <3>1
  <2>5. ASSUME j > D PROVE digits[2 * i] = bytes[i] % s
    <3>1. 2 * i \in Nat \ {0} /\ j - D \in 1..D BY <1>1, <2>5
    <3>2. (2 * i - 1) * D + (j - D) = (i - 1) * B + j
      <4>1. (2 * i - 1) * D = (i - 1) * (D + D) + D BY <1>1
      <4>2. (i - 1) * (D + D) \in Nat BY <1>1
      <4> QED BY <1>1, <4>1, <4>2
    <3>3. (2 * i - 1) * D + (j - D) <= nbits BY <2>3, <3>2
    <3>4. 2 * i <= CeilDiv(nbits, D) BY <1>1, <3>1, <3>3, CeilReaches, Zenon
    <3>5. 2 * i <= K BY <3>4 DEF K
    <3> QED BY <1>6, <2>4, <3>5
  <2>6. bytes[i] \in Byte /\ digits[2 * i - 1] = bytes[i] \div s
    BY <1>6, <2>4
  <2>7. BitAt(digits, D, (i - 1) * B + j) = BitAt(bytes, B, (i - 1) * B + j)
    BY <2>5, <2>6, BitOfHalves DEF s
  <2> QED BY <2>2, <2>7
<1> QED BY <1>7, <1>8 DEF DigitsAgree, bytes

\* Parse accepts them, with the query of these bytes.
LEMMA ParsedIs ==
  ASSUME NEW nbits \in 0..IdBits, NEW digits \in Written(nbits)
  PROVE  ParseQuery(Hex(digits), Decimal(nbits), IdBits) = NewQuery(Packed(digits, nbits), nbits)
<1> DEFINE K == CeilDiv(nbits, DigitBits)
<1>1. nbits \in Nat /\ IdBits \in Nat /\ DigitBits \in Nat \ {0}
  BY PrefixWidths
<1>2. K \in Nat
  <2>1. nbits \div DigitBits \in Nat BY <1>1, DivIs
  <2>2. K = IF nbits % DigitBits = 0 THEN nbits \div DigitBits ELSE nbits \div DigitBits + 1
    BY <1>1, CeilIs
  <2> DEFINE q == nbits \div DigitBits
  <2> HIDE DEF q, K
  <2>3. q \in Nat BY <2>1 DEF q
  <2>4. K \in {q, q + 1} BY <2>2 DEF q
  <2> QED BY <2>3, <2>4
<1>3. digits \in [1..K -> Digit]
  BY DEF Written
<1> HIDE DEF K
<1>4. Len(digits) = K /\ DOMAIN digits = 1..K
  BY <1>2, <1>3, LengthIs
<1>5. \A i \in DOMAIN digits : digits[i] # NotHex
  <2>1. \A d \in Digit : d # NotHex BY DEF Digit, NotHex
  <2> QED BY <1>3, <1>4, <2>1
<1>6. Hex(digits) # Absent /\ Hex(digits).digits = digits
  <2>1. Hex(digits).form = "text" /\ Absent.form = "absent" /\ Hex(digits).digits = digits
    BY DEF Hex, Absent
  <2> QED BY <2>1
<1>7. Decimal(nbits).form = "decimal" /\ Decimal(nbits).n = nbits
  BY DEF Decimal
<1>8. ~(nbits > IdBits \/ nbits > IdBits)
  BY <1>1
<1>9. Len(digits) = CeilDiv(nbits, DigitBits)
  BY <1>4 DEF K
<1> HIDE DEF K
<1> QED BY <1>5, <1>6, <1>7, <1>8, <1>9 DEF ParseQuery

\* Queries of bytes with the same first bits are the same.
LEMMA QueriesTell ==
  ASSUME NEW nbits \in 0..IdBits, NEW f \in Carried(nbits), NEW g \in Carried(nbits),
         BitsAgree(f, g, nbits)
  PROVE  NewQuery(f, nbits) = NewQuery(g, nbits)
<1> DEFINE p == NewQuery(f, nbits)
           q == NewQuery(g, nbits)
           L == CeilDiv(nbits, ByteBits)
           whole == nbits \div ByteBits
           rem == nbits % ByteBits
<1>1. /\ p.reason = "none" /\ p.bits = nbits /\ p.prefix = Column(p.full)
      /\ p.full \in Carried(nbits)
      /\ \A i \in 1..whole : p.full[i] = f[i]
      /\ rem # 0 => p.full[whole + 1] = ClearLow(f[whole + 1], ByteBits - rem)
  BY QueryIs
<1>2. /\ q.reason = "none" /\ q.bits = nbits /\ q.prefix = Column(q.full)
      /\ q.full \in Carried(nbits)
      /\ \A i \in 1..whole : q.full[i] = g[i]
      /\ rem # 0 => q.full[whole + 1] = ClearLow(g[whole + 1], ByteBits - rem)
  BY QueryIs
<1>3. /\ whole \in Nat /\ rem \in Nat /\ rem < ByteBits /\ ByteBits \in Nat /\ nbits \in Nat
      /\ L \in Nat /\ L = IF rem = 0 THEN whole ELSE whole + 1
  BY CarriedIs, PrefixWidths
<1>4. f \in [1..L -> Byte] /\ g \in [1..L -> Byte]
  BY DEF Carried
<1>5. BytesAgree(f, g, nbits)
  BY <1>3, <1>4, AgreementsAgree
<1>6. p = [reason |-> "none", bits |-> nbits, full |-> p.full, prefix |-> p.prefix]
  BY DEF NewQuery
<1>7. q = [reason |-> "none", bits |-> nbits, full |-> q.full, prefix |-> q.prefix]
  BY DEF NewQuery
<1>8. /\ \A i \in 1..whole : f[i] = g[i]
      /\ rem # 0 => f[whole + 1] \div Pow(2, ByteBits - rem) = g[whole + 1] \div Pow(2, ByteBits - rem)
  BY <1>5 DEF BytesAgree
<1>9. p.full \in [1..L -> Byte] /\ q.full \in [1..L -> Byte]
  BY <1>1, <1>2 DEF Carried
<1> HIDE DEF p, q, L, whole, rem
<1>10. ASSUME NEW i \in 1..L PROVE p.full[i] = q.full[i]
  <2>1. CASE i \in 1..whole
    BY <1>1, <1>2, <1>8, <2>1
  <2>2. CASE rem # 0 /\ i = whole + 1
    <3>1. f[whole + 1] \in Nat /\ g[whole + 1] \in Nat BY <1>4, <1>10, <2>2, PrefixWidths
    <3>2. ByteBits - rem \in Nat BY <1>3
    <3>3. ClearLow(f[whole + 1], ByteBits - rem) = ClearLow(g[whole + 1], ByteBits - rem)
      BY <1>8, <2>2, <3>1, <3>2, ClearedTell
    <3> QED BY <1>1, <1>2, <2>2, <3>3
  <2> QED BY <1>3, <1>10, <2>1, <2>2
<1>11. p.full = q.full
  <2>1. p.full = [i \in 1..L |-> p.full[i]] /\ q.full = [i \in 1..L |-> q.full[i]]
    BY <1>9
  <2>2. [i \in 1..L |-> p.full[i]] = [i \in 1..L |-> q.full[i]]
    BY <1>10
  <2> QED BY <2>1, <2>2
<1>12. p.prefix = q.prefix
  BY <1>1, <1>2, <1>11
<1> QED BY <1>6, <1>7, <1>11, <1>12 DEF p, q

\* A query's digits select exactly the lookup_ids that agree with them, and as
\* far as the column reaches the range alone does.
LEMMA DigitsSelectExactly ==
  ASSUME NEW nbits \in 0..IdBits, NEW digits \in Written(nbits)
  PROVE  SelectsExactly(nbits, digits)
<1> DEFINE full == Packed(digits, nbits)
           q == NewQuery(full, nbits)
<1>1. full \in Carried(nbits) /\ DigitsAgree(digits, full, nbits)
  BY PackedIs
<1>2. ParseQuery(Hex(digits), Decimal(nbits), IdBits) = q
  BY ParsedIs
<1>3. q.bits = nbits
  BY <1>1, QueryIs
<1> HIDE DEF full
<1>4. ASSUME NEW id \in TestIds
      PROVE  LET agrees == \A n \in 1..nbits : BitAt(digits, DigitBits, n) = BitAt(id, ByteBits, n)
             IN  /\ Selects(q, id) <=> agrees
                 /\ ~NeedsPostFilter(q) => (InRange(q, id) <=> agrees)
  <2> DEFINE agrees == \A n \in 1..nbits : BitAt(digits, DigitBits, n) = BitAt(id, ByteBits, n)
  <2>1. id \in Id
    BY PrefixAssumption
  <2>2. agrees <=> BitsAgree(full, id, nbits)
    BY <1>1 DEF DigitsAgree, BitsAgree
  <2>3. Matches(q, id) <=> BitsAgree(full, id, nbits)
    BY <1>1, <2>1, MatchesIs
  <2>4. InRange(q, id) <=> BitsAgree(full, id, InColumn(nbits))
    BY <1>1, <2>1, RangeIs
  <2>5. BitsAgree(full, id, nbits) => BitsAgree(full, id, InColumn(nbits))
    <3>1. \A n \in 1..InColumn(nbits) : n \in 1..nbits BY PrefixWidths DEF InColumn
    <3> QED BY <3>1 DEF BitsAgree
  <2>6. ~NeedsPostFilter(q) => InColumn(nbits) = nbits
    <3> HIDE DEF q
    <3> QED BY <1>3 DEF NeedsPostFilter, InColumn
  <2> HIDE DEF q, agrees
  <2>7. Selects(q, id) <=> agrees
    BY <2>2, <2>3, <2>4, <2>5 DEF Selects
  <2>8. ~NeedsPostFilter(q) => (InRange(q, id) <=> agrees)
    BY <2>2, <2>4, <2>6
  <2> QED BY <2>7, <2>8 DEF agrees
<1> HIDE DEF q
<1> QED BY <1>2, <1>4 DEF SelectsExactly

-----------------------------------------------------------------------------
\* A lookup_id's digits are digits, and have its bits.
LEMMA DigitsOfIs ==
  ASSUME NEW id \in Id
  PROVE  /\ DigitsOf(id) \in [1..(2 * IdBytes) -> Digit]
         /\ DigitsAgree(DigitsOf(id), id, IdBits)
<1> DEFINE s == Pow(2, DigitBits)
           d == DigitsOf(id)
<1>1. /\ IdBytes \in Nat /\ DigitBits \in Nat \ {0} /\ ByteBits \in Nat \ {0} /\ s \in Nat \ {0}
      /\ id \in [1..IdBytes -> Byte] /\ Digit = 0..(s - 1) /\ IdBits \in Nat
      /\ ByteBits = DigitBits + DigitBits
  BY PrefixWidths, TwoPowers DEF Id, Digit
<1>2. Byte = 0..(s * s - 1)
  <2>1. Pow(2, DigitBits + DigitBits) = s * s BY <1>1, TwoPowers
  <2> QED BY <1>1, <2>1 DEF Byte
<1>3. d = [i \in 1..(2 * IdBytes) |->
             IF i % 2 = 1 THEN id[CeilDiv(i, 2)] \div s ELSE id[i \div 2] % s]
  BY DEF DigitsOf
<1> HIDE DEF s, d
<1>4. ASSUME NEW i \in 1..IdBytes
      PROVE  /\ 2 * i - 1 \in 1..(2 * IdBytes) /\ 2 * i \in 1..(2 * IdBytes)
             /\ d[2 * i - 1] = id[i] \div s /\ d[2 * i] = id[i] % s
  <2>1. 2 * i - 1 \in 1..(2 * IdBytes) /\ 2 * i \in 1..(2 * IdBytes) BY <1>1
  <2>2. (2 * i - 1) % 2 = 1 /\ (2 * i) % 2 = 0 /\ (2 * i) \div 2 = i OBVIOUS
  <2>3. CeilDiv(2 * i - 1, 2) = i
    <3>1. (2 * i - 1) + 2 - 1 = 2 * i OBVIOUS
    <3> QED BY <2>2, <3>1 DEF CeilDiv
  <2> QED BY <1>3, <2>1, <2>2, <2>3
<1>5. ASSUME NEW x \in Byte PROVE x \div s \in Digit /\ x % s \in Digit
  <2>1. s * s \in Nat BY <1>1
  <2>2. x \in Nat /\ x < s * s BY <1>2, <2>1
  <2>3. x \div s \in 0..(s - 1) BY <1>1, <2>2, DivBelow
  <2>4. x % s \in Nat /\ x % s < s BY <1>1, <2>2, DivMod
  <2>5. x % s \in 0..(s - 1) BY <1>1, <2>4
  <2> QED BY <1>1, <2>3, <2>5
<1>6. d \in [1..(2 * IdBytes) -> Digit]
  <2>1. ASSUME NEW i \in 1..(2 * IdBytes)
        PROVE  IF i % 2 = 1 THEN id[CeilDiv(i, 2)] \div s \in Digit ELSE id[i \div 2] % s \in Digit
    <3>1. CASE i % 2 = 1
      <4>1. CeilDiv(i, 2) \in 1..IdBytes BY <1>1, <3>1 DEF CeilDiv
      <4>2. id[CeilDiv(i, 2)] \in Byte BY <1>1, <4>1
      <4> QED BY <1>5, <3>1, <4>2
    <3>2. CASE i % 2 # 1
      <4>1. i \div 2 \in 1..IdBytes BY <1>1, <3>2
      <4>2. id[i \div 2] \in Byte BY <1>1, <4>1
      <4> QED BY <1>5, <3>2, <4>2
    <3> QED BY <3>1, <3>2
  <2> QED BY <1>3, <2>1
<1>7. ASSUME NEW k \in 1..IdBits PROVE BitAt(d, DigitBits, k) = BitAt(id, ByteBits, k)
  <2> DEFINE B == ByteBits
  <2>1. k \in Nat \ {0} BY <1>7
  <2>2. PICK i \in Nat \ {0}, j \in 1..B : k = (i - 1) * B + j
    <3> HIDE DEF B
    <3>1. B \in Nat \ {0} BY <1>1 DEF B
    <3> QED BY ONLY <2>1, <3>1, BitsStandSomewhere, Zenon
  <2>3. i \in 1..IdBytes
    <3>1. (i - 1) * B + j <= IdBytes * B BY <1>1, <1>7, <2>2 DEF IdBits
    <3>2. \A u, v \in Nat : u <= v => u * B <= v * B BY <1>1
    <3>3. IdBytes <= i - 1 => IdBytes * B <= (i - 1) * B BY <1>1, <2>2, <3>2
    <3>4. (i - 1) * B \in Nat /\ IdBytes * B \in Nat BY <1>1
    <3> QED BY <1>1, <3>1, <3>3, <3>4
  <2>4. id[i] \in Byte BY <1>1, <2>3
  <2>5. d[2 * i - 1] = id[i] \div s /\ d[2 * i] = id[i] % s BY <1>4, <2>3
  <2>6. BitAt(d, DigitBits, (i - 1) * B + j) = BitAt(id, B, (i - 1) * B + j)
    BY <2>4, <2>5, BitOfHalves DEF s
  <2> QED BY <2>2, <2>6
<1> QED BY <1>6, <1>7 DEF d, DigitsAgree

\* prefixHex writes the first nbits of a lookup_id.
LEMMA HexIs ==
  ASSUME NEW nbits \in 0..IdBits, NEW id \in Id
  PROVE  /\ PrefixHex(id, nbits) \in Written(nbits)
         /\ DigitsAgree(PrefixHex(id, nbits), id, nbits)
<1> DEFINE D == DigitBits
           K == CeilDiv(nbits, D)
           d == DigitsOf(id)
           q == nbits \div D
           r == nbits % D
           rem == K * D - nbits
           out == [i \in 1..K |-> d[i]]
           last == [out EXCEPT ![K] = ClearLow(@, rem)]
           hex == PrefixHex(id, nbits)
<1>1. /\ D \in Nat \ {0} /\ IdBytes \in Nat /\ nbits \in Nat /\ IdBits \in Nat /\ nbits <= IdBits
      /\ IdBits = (2 * IdBytes) * D
  <2>1. IdBits = (2 * IdBytes) * D
    <3>1. IdBits = IdBytes * (D + D) BY PrefixWidths DEF IdBits
    <3> QED BY <3>1, PrefixWidths
  <2> QED BY <2>1, PrefixWidths
<1>2. d \in [1..(2 * IdBytes) -> Digit] /\ DigitsAgree(d, id, IdBits)
  BY DigitsOfIs
<1>3. q \in Nat /\ r \in Nat /\ r < D /\ nbits = q * D + r
  BY <1>1, DivMod, DivIs
<1>4. K = IF r = 0 THEN q ELSE q + 1
  BY <1>1, CeilIs
<1>5. rem = IF r = 0 THEN 0 ELSE D - r
  BY <1>1, SpareIs
<1> HIDE DEF K, d, q, r, rem
<1>6. K \in Nat /\ rem \in Nat /\ rem < D
  BY <1>1, <1>3, <1>4, <1>5
<1>7. K <= 2 * IdBytes
  <2> SUFFICES ASSUME K > 2 * IdBytes PROVE FALSE BY <1>1, <1>6
  <2>1. K \in Nat \ {0} BY <1>1, <1>6
  <2>2. (K - 1) * D + 1 <= nbits BY <1>1, <2>1, CeilReaches DEF K
  <2>3. \A u, v \in Nat : u <= v => u * D <= v * D BY <1>1
  <2>4. 2 * IdBytes \in Nat /\ K - 1 \in Nat /\ 2 * IdBytes <= K - 1 BY <1>1, <1>6
  <2>5. (2 * IdBytes) * D <= (K - 1) * D BY <2>3, <2>4
  <2>6. (K - 1) * D \in Nat /\ (2 * IdBytes) * D \in Nat BY <1>1, <2>4
  <2> QED BY <1>1, <2>2, <2>5, <2>6
<1>8. SubSeq(d, 1, K) = out
  <2>1. (1 + K) - 1 = K BY <1>6
  <2>2. d \in Seq(Digit)
    <3>1. 2 * IdBytes \in Nat BY <1>1
    <3> QED BY <1>2, <3>1
  <2>3. SubSeq(d, 1, K) = [i \in 1..K |-> d[(1 + i) - 1]] BY <1>6, <2>2, Z3
  <2>4. \A i \in 1..K : (1 + i) - 1 = i OBVIOUS
  <2> QED BY <2>3, <2>4
<1>9. hex = IF nbits <= 0 THEN <<>> ELSE IF rem > 0 THEN last ELSE out
  <2>1. ~(K > 2 * IdBytes) BY <1>1, <1>6, <1>7
  <2> HIDE DEF last, out
  <2>2. PrefixHex(id, nbits) = IF nbits <= 0 THEN <<>>
          ELSE IF rem > 0 THEN [SubSeq(d, 1, K) EXCEPT ![K] = ClearLow(@, rem)]
          ELSE SubSeq(d, 1, K)
    BY <2>1 DEF PrefixHex, d, K, rem
  <2> QED BY <1>8, <2>2 DEF last
<1>10. \A i \in 1..K : i \in 1..(2 * IdBytes) /\ d[i] \in Digit
  BY <1>1, <1>2, <1>6, <1>7
<1>11. \A x \in Digit : x \in Nat /\ ClearLow(x, rem) \in Digit
  <2> SUFFICES ASSUME NEW x \in Digit PROVE x \in Nat /\ ClearLow(x, rem) \in Digit OBVIOUS
  <2>1. Pow(2, D) \in Nat BY <1>1, TwoPowers
  <2>2. x \in Nat BY <2>1 DEF Digit
  <2>3. ClearLow(x, rem) \in 0..x BY <1>6, <2>2, ClearedIs
  <2> QED BY <2>1, <2>2, <2>3 DEF Digit
<1>12. out \in [1..K -> Digit] /\ last \in [1..K -> Digit]
  BY <1>10, <1>11
<1>13. hex \in [1..K -> Digit]
  <2>1. CASE nbits <= 0
    <3>1. nbits = 0 BY <1>1, <2>1
    <3>2. q * D \in Nat /\ q * D + r = 0 BY <1>1, <1>3, <3>1
    <3>3. r = 0 /\ q * D = 0 BY <1>3, <3>2
    <3>4. q = 0
      <4>1. \A u \in Nat : u # 0 => u * D # 0 BY <1>1
      <4> QED BY <1>3, <3>3, <4>1
    <3>5. 1..K = {} BY <1>4, <3>3, <3>4
    <3>6. <<>> \in [1..K -> Digit] BY <3>5
    <3> QED BY <1>9, <2>1, <3>6
  <2>2. CASE ~(nbits <= 0)
    <3> HIDE DEF out, last, hex
    <3> QED BY <1>9, <1>12, <2>2
  <2> QED BY <2>1, <2>2
<1>14. ASSUME NEW k \in 1..nbits PROVE BitAt(hex, D, k) = BitAt(id, ByteBits, k)
  <2>1. k \in Nat \ {0} BY <1>14
  <2>2. PICK i \in Nat \ {0}, j \in 1..D : k = (i - 1) * D + j
    <3> HIDE DEF D
    <3>1. D \in Nat \ {0} BY <1>1
    <3> QED BY ONLY <2>1, <3>1, BitsStandSomewhere, Zenon
  <2>3. (i - 1) * D + j <= nbits BY <1>1, <1>14, <2>2
  <2>4. i <= q \/ (i = q + 1 /\ j <= r)
    <3>1. \A n \in Nat : (i - 1) * D + j <= n <=> i <= n \div D \/ (i = n \div D + 1 /\ j <= n % D)
      <4> HIDE DEF D
      <4> QED BY <1>1, PlaceAmong
    <3> QED BY <1>1, <2>3, <3>1 DEF q, r
  <2>5. i \in 1..K
    BY <1>1, <1>3, <1>4, <2>4
  <2>6. hex = IF rem > 0 THEN last ELSE out
    BY <1>1, <1>9, <1>14
  <2>7. BitOf(hex[i], D, j) = BitOf(d[i], D, j)
    <3>1. CASE rem > 0 /\ i = K
      <4>1. hex[i] = ClearLow(d[i], rem) BY <2>5, <2>6, <3>1
      <4>2. i = q + 1 /\ j <= r /\ r \in 0..D /\ j \in 1..r /\ rem = D - r
        BY <1>1, <1>3, <1>4, <1>5, <2>4, <3>1
      <4> DEFINE x == d[i]
                 y == ClearLow(d[i], rem)
      <4>3. x \in 0..(Pow(2, D) - 1) /\ y \in 0..(Pow(2, D) - 1) /\ x \in Nat
        BY <1>10, <1>11, <2>5 DEF Digit
      <4>4. y \div Pow(2, rem) = x \div Pow(2, rem)
        BY <1>6, <4>3, ClearedIs
      <4>5. D \in Nat BY <1>1
      <4> HIDE DEF x, y, D
      <4>6. (\A n \in 1..r : BitOf(y, D, n) = BitOf(x, D, n))
              <=> y \div Pow(2, D - r) = x \div Pow(2, D - r)
        BY <4>2, <4>3, <4>5, WordsAgree, Zenon
      <4> QED BY <4>1, <4>2, <4>4, <4>6 DEF x, y
    <3>2. CASE rem > 0 /\ i # K
      <4>1. hex[i] = d[i] BY <2>5, <2>6, <3>2
      <4> QED BY <4>1
    <3>3. CASE ~(rem > 0)
      <4>1. hex[i] = d[i] BY <2>5, <2>6, <3>3
      <4> QED BY <4>1
    <3> QED BY <3>1, <3>2, <3>3
  <2> HIDE DEF hex
  <2>8. BitAt(hex, D, (i - 1) * D + j) = BitOf(hex[i], D, j)
        /\ BitAt(d, D, (i - 1) * D + j) = BitOf(d[i], D, j)
    <3> HIDE DEF D
    <3> QED BY <1>1, BitStands
  <2>9. BitAt(d, D, k) = BitAt(id, ByteBits, k)
    <3>1. k \in 1..IdBits BY <1>1, <1>14
    <3> QED BY <1>2, <3>1 DEF DigitsAgree
  <2> QED BY <2>2, <2>7, <2>8, <2>9
<1> QED BY <1>13, <1>14 DEF DigitsAgree, Written, K

\* FromBits takes the leading bytes.
LEMMA FromBitsIs ==
  ASSUME NEW nbits \in 0..IdBits, NEW id \in Id
  PROVE  \E lead \in Carried(nbits) :
           FromBits(id, nbits) = NewQuery(lead, nbits) /\ BitsAgree(lead, id, nbits)
<1> DEFINE L == CeilDiv(nbits, ByteBits)
           lead == [i \in 1..L |-> id[i]]
<1>1. /\ L \in 0..IdBytes /\ IdBytes \in Nat /\ nbits \in Nat /\ IdBits \in Nat
      /\ ByteBits \in Nat \ {0} /\ id \in [1..IdBytes -> Byte]
  <2>1. L \in 0..IdBytes BY CarriedIs
  <2> HIDE DEF L
  <2> QED BY <2>1, PrefixWidths DEF Id
<1> HIDE DEF L
<1>2. Len(id) = IdBytes
  BY <1>1, LengthIs
<1>3. SubSeq(id, 1, L) = lead
  <2>1. (1 + L) - 1 = L /\ L \in Nat BY <1>1
  <2>2. id \in Seq(Byte) BY <1>1
  <2>3. SubSeq(id, 1, L) = [i \in 1..L |-> id[(1 + i) - 1]] BY <2>1, <2>2, Z3
  <2>4. \A i \in 1..L : (1 + i) - 1 = i OBVIOUS
  <2> QED BY <2>3, <2>4
<1>4. FromBits(id, nbits) = NewQuery(lead, nbits)
  <2>1. ~(nbits > IdBits) /\ ~(Len(id) < L) BY <1>1, <1>2
  <2> HIDE DEF lead
  <2> QED BY <1>3, <2>1 DEF FromBits, L
<1>5. lead \in [1..L -> Byte]
  BY <1>1
<1>6. BitsAgree(lead, id, nbits)
  <2> SUFFICES ASSUME NEW k \in 1..nbits PROVE BitAt(lead, ByteBits, k) = BitAt(id, ByteBits, k)
    BY DEF BitsAgree
  <2> DEFINE B == ByteBits
  <2>1. k \in Nat \ {0} BY <1>1
  <2>2. PICK i \in Nat \ {0}, j \in 1..B : k = (i - 1) * B + j
    <3> HIDE DEF B
    <3>1. B \in Nat \ {0} BY <1>1 DEF B
    <3> QED BY ONLY <2>1, <3>1, BitsStandSomewhere, Zenon
  <2>3. i \in 1..L
    <3>1. (i - 1) * B + j <= nbits BY <1>1, <2>2
    <3>2. i <= CeilDiv(nbits, B)
      <4> HIDE DEF B
      <4> QED BY <1>1, <3>1, CeilReaches DEF B
    <3> QED BY <1>1, <3>2 DEF L
  <2>4. lead[i] = id[i] BY <2>3
  <2> HIDE DEF lead
  <2>5. BitAt(lead, B, (i - 1) * B + j) = BitOf(lead[i], B, j)
        /\ BitAt(id, B, (i - 1) * B + j) = BitOf(id[i], B, j)
    BY <1>1, BitStands
  <2> QED BY <2>2, <2>4, <2>5
<1> HIDE DEF lead
<1> QED BY <1>4, <1>5, <1>6 DEF Carried, L

\* The digits of a lookup_id find it, by the query of its leading bytes.
LEMMA DigitsFindTheirId ==
  ASSUME NEW nbits \in 0..IdBits, NEW id \in Id
  PROVE  FindsItself(nbits, id)
<1> DEFINE hex == PrefixHex(id, nbits)
           full == Packed(hex, nbits)
           q == NewQuery(full, nbits)
<1>1. hex \in Written(nbits) /\ DigitsAgree(hex, id, nbits)
  BY HexIs
<1>2. ParseQuery(Hex(hex), Decimal(nbits), IdBits) = q
  BY <1>1, ParsedIs
<1> HIDE DEF hex
<1>3. full \in Carried(nbits) /\ DigitsAgree(hex, full, nbits)
  BY <1>1, PackedIs
<1>4. BitsAgree(full, id, nbits)
  BY <1>1, <1>3 DEF BitsAgree, DigitsAgree
<1>5. q.reason = "none"
  BY <1>3, QueryIs
<1> HIDE DEF full
<1>6. Matches(q, id)
  BY <1>3, <1>4, MatchesIs
<1>7. InRange(q, id)
  <2>1. \A n \in 1..InColumn(nbits) : n \in 1..nbits BY PrefixWidths DEF InColumn
  <2>2. BitsAgree(full, id, InColumn(nbits)) BY <1>4, <2>1 DEF BitsAgree
  <2> QED BY <1>3, <2>2, RangeIs
<1>8. PICK lead \in Carried(nbits) :
         FromBits(id, nbits) = NewQuery(lead, nbits) /\ BitsAgree(lead, id, nbits)
  BY FromBitsIs
<1>9. BitsAgree(full, lead, nbits)
  BY <1>4, <1>8 DEF BitsAgree
<1>10. q = FromBits(id, nbits)
  BY <1>3, <1>8, <1>9, QueriesTell
<1> HIDE DEF q
<1> QED BY <1>2, <1>5, <1>6, <1>7, <1>10 DEF FindsItself, Selects, hex

-----------------------------------------------------------------------------
(***************************************************************************)
(* How many bits a client asks for, and how many it is allowed.            *)
(***************************************************************************)

\* understate (meta.go): two significant figures, never above the count.
LEMMA UnderstatedIs ==
  ASSUME NEW n \in Nat
  PROVE  Understated(n) \in Nat /\ Understated(n) <= n
<1>1. CASE n < 100
  BY <1>1 DEF Understated
<1>2. CASE n >= 100
  <2> DEFINE Scale(e) == n \div Pow(10, e) < 100 /\ n \div Pow(10, e - 1) >= 100
             e == CHOOSE e \in 1..n : Scale(e)
  <2>1. \E b \in 0..(n - 1) : 100 * Pow(10, b) <= n /\ n < 100 * Pow(10, b + 1)
    BY <1>2, LogarithmExists
  <2>2. PICK b \in 0..(n - 1) : 100 * Pow(10, b) <= n /\ n < 100 * Pow(10, b + 1)
    BY <2>1
  <2>3. b \in Nat /\ b + 1 \in 1..n /\ (b + 1) - 1 = b
    OBVIOUS
  <2>4. Pow(10, b) \in Nat \ {0} /\ Pow(10, b + 1) \in Nat \ {0}
    BY <2>3, PowPositive
  <2>5. Scale(b + 1)
    <3>1. \A s \in Nat \ {0} : n < 100 * s => n \div s < 100
      OBVIOUS
    <3>2. \A s \in Nat \ {0} : 100 * s <= n => n \div s >= 100
      OBVIOUS
    <3> QED BY <2>2, <2>3, <2>4, <3>1, <3>2
  <2>6. e \in 1..n
    BY <2>3, <2>5
  <2>7. Understated(n) = (n \div Pow(10, e)) * Pow(10, e)
    <3>1. ~(n < 100) BY <1>2
    <3> QED BY <3>1 DEF Understated
  <2> HIDE DEF e
  <2>8. Pow(10, e) \in Nat \ {0}
    BY <2>6, PowPositive
  <2>9. n \div Pow(10, e) \in Nat /\ (n \div Pow(10, e)) * Pow(10, e) <= n
    BY <2>8, DivIs
  <2>10. (n \div Pow(10, e)) * Pow(10, e) \in Nat
    BY <2>8, <2>9
  <2> QED BY <2>7, <2>9, <2>10
<1> QED BY <1>1, <1>2

\* The same for two.
LEMMA BinaryLogarithmExists ==
  \A k \in Nat \ {0}, n \in Nat : k <= n =>
    \E b \in 0..(n - 1) : k * Pow(2, b) <= n /\ n < k * Pow(2, b + 1)
<1>1. 2 \in Nat /\ 2 >= 2 OBVIOUS
<1> QED BY ONLY <1>1, LogarithmExists, Zenon

\* prefixBits (cmd/trigcheck): a bucket of that width is expected to hold k.
LEMMA PrefixBitsIs ==
  ASSUME NEW count \in Nat, NEW k \in Nat \ {0}
  PROVE  LET b == PrefixBits(count, k)
         IN  b \in Nat /\ (b = 0 \/ k * Pow(2, b) <= count)
<1>1. CASE count < k
  BY <1>1 DEF PrefixBits
<1>2. CASE k <= count
  <2>1. \E b \in 0..(count - 1) : k * Pow(2, b) <= count /\ count < k * Pow(2, b + 1)
    BY <1>2, BinaryLogarithmExists
  <2>2. \E b \in 0..count : k * Pow(2, b) <= count /\ count < k * Pow(2, b + 1)
    BY <2>1
  <2>3. PrefixBits(count, k)
          = CHOOSE b \in 0..count : k * Pow(2, b) <= count /\ count < k * Pow(2, b + 1)
    <3>1. ~(k <= 0) /\ ~(count < k) BY <1>2
    <3> QED BY <3>1 DEF PrefixBits
  <2>4. PrefixBits(count, k) \in 0..count /\ k * Pow(2, PrefixBits(count, k)) <= count
    BY <2>2, <2>3
  <2> QED BY <2>4
<1> QED BY <1>1, <1>2

\* capFor (query.go): one bit more would leave fewer than k to a bucket.
LEMMA CapForIs ==
  ASSUME NEW count \in Nat, NEW k \in Nat \ {0}
  PROVE  LET b == CapFor(count, k)
         IN  b \in Nat /\ (count >= k => count \div k < Pow(2, b + 1))
<1>1. CASE count < k
  BY <1>1 DEF CapFor
<1>2. CASE k <= count
  <2> DEFINE d == count \div k
  <2>1. d \in Nat /\ 1 <= d /\ d <= count
    <3>1. d \in Nat /\ d * k <= count /\ count < (d + 1) * k
      BY DivIs
    <3> HIDE DEF d
    <3>2. d # 0 BY <1>2, <3>1
    <3>3. d <= d * k BY <3>1
    <3>4. d * k \in Nat BY <3>1
    <3> QED BY <3>1, <3>2, <3>3, <3>4
  <2> HIDE DEF d
  <2>2. \E b \in 0..(d - 1) : 1 * Pow(2, b) <= d /\ d < 1 * Pow(2, b + 1)
    <3>1. 1 \in Nat \ {0} OBVIOUS
    <3> QED BY <2>1, <3>1, BinaryLogarithmExists
  <2>3. \A b \in 0..(d - 1) : /\ b \in 0..count
                              /\ 1 * Pow(2, b) = Pow(2, b) /\ 1 * Pow(2, b + 1) = Pow(2, b + 1)
    <3> SUFFICES ASSUME NEW b \in 0..(d - 1)
                 PROVE  /\ b \in 0..count
                        /\ 1 * Pow(2, b) = Pow(2, b) /\ 1 * Pow(2, b + 1) = Pow(2, b + 1)
      OBVIOUS
    <3>1. b \in Nat /\ b + 1 \in Nat /\ b \in 0..count BY <2>1
    <3>2. Pow(2, b) \in Nat /\ Pow(2, b + 1) \in Nat BY <3>1, PowPositive
    <3> QED BY <3>1, <3>2
  <2>4. \E b \in 0..count : Pow(2, b) <= d /\ d < Pow(2, b + 1)
    BY <2>2, <2>3
  <2>5. CapFor(count, k) = CHOOSE b \in 0..count : Pow(2, b) <= d /\ d < Pow(2, b + 1)
    <3>1. ~(k <= 0) /\ ~(count < k) BY <1>2
    <3> QED BY <3>1 DEF CapFor, d
  <2>6. CapFor(count, k) \in 0..count /\ d < Pow(2, CapFor(count, k) + 1)
    BY <2>4, <2>5
  <2> QED BY <2>6 DEF d
<1> QED BY <1>1, <1>2

\* As long as the rows have not shrunk by more than the margin between the two
\* ks, what the client sized by an earlier count is allowed.
LEMMA SizedPrefixFits ==
  ASSUME NEW count \in Nat, NEW held \in Nat, NEW k \in Nat \ {0}, NEW min \in Nat \ {0},
         count * min <= held * k
  PROVE  PrefixBits(count, k) <= CapFor(held, min)
<1> DEFINE b == PrefixBits(count, k)
           cap == CapFor(held, min)
<1>1. b \in Nat /\ (b = 0 \/ k * Pow(2, b) <= count)
  BY PrefixBitsIs
<1>2. cap \in Nat /\ (held >= min => held \div min < Pow(2, cap + 1))
  BY CapForIs
<1> SUFFICES b <= cap OBVIOUS
<1> HIDE DEF b, cap
<1>3. CASE b = 0
  BY <1>2, <1>3
<1>4. CASE b # 0
  <2> DEFINE P == Pow(2, b)
             d == held \div min
  <2>1. P \in Nat \ {0} /\ k * P <= count BY <1>1, <1>4, PowPositive
  <2> HIDE DEF P
  <2>2. (k * P) * min <= count * min
    <3>1. \A x \in Nat, y \in Nat : x <= y => x * min <= y * min OBVIOUS
    <3>2. k * P \in Nat BY <2>1
    <3> QED BY <2>1, <3>1, <3>2
  <2>3. (k * P) * min = k * (P * min) /\ P * min \in Nat /\ held * k = k * held
        /\ count * min \in Nat
    BY <2>1
  <2>4. k * (P * min) <= k * held
    BY <2>2, <2>3
  <2>5. P * min <= held
    <3>1. \A x \in Nat, y \in Nat : k * x <= k * y => x <= y OBVIOUS
    <3> QED BY <2>3, <2>4, <3>1
  <2>6. d \in Nat /\ held < (d + 1) * min BY DivIs
  <2> HIDE DEF d
  <2>7. P <= d
    <3> SUFFICES ASSUME d + 1 <= P PROVE FALSE BY <2>1, <2>6
    <3>1. \A x \in Nat, y \in Nat : x <= y => x * min <= y * min OBVIOUS
    <3>2. (d + 1) * min <= P * min BY <2>1, <2>6, <3>1
    <3>3. (d + 1) * min \in Nat BY <2>6
    <3> QED BY <2>3, <2>5, <2>6, <3>2, <3>3
  <2>8. min <= P * min
    BY <2>1
  <2>9. d < Pow(2, cap + 1)
    BY <1>2, <2>3, <2>5, <2>8 DEF d
  <2>10. ~(cap + 1 <= b)
    <3> SUFFICES ASSUME cap + 1 <= b PROVE FALSE OBVIOUS
    <3>1. cap + 1 \in Nat /\ b \in Nat BY <1>1, <1>2
    <3>2. Pow(2, cap + 1) <= P BY <3>1, TwoPowersGrow DEF P
    <3>3. Pow(2, cap + 1) \in Nat BY <3>1, TwoPowers
    <3> QED BY <2>1, <2>6, <2>7, <2>9, <3>2, <3>3
  <2> QED BY <1>1, <1>2, <2>10
<1> QED BY <1>3, <1>4

\* A count of no more than the lookup_ids of n bits asks for no more than n.
LEMMA PrefixBitsWithin ==
  ASSUME NEW n \in Nat, NEW count \in Nat, count <= Pow(2, n), NEW k \in Nat \ {0}
  PROVE  PrefixBits(count, k) \in 0..n
<1> DEFINE b == PrefixBits(count, k)
<1>1. b \in Nat /\ (b = 0 \/ k * Pow(2, b) <= count)
  BY PrefixBitsIs
<1> HIDE DEF b
<1>2. ASSUME n + 1 <= b PROVE FALSE
  <2>0. n + 1 \in Nat /\ b \in Nat BY <1>1
  <2>1. Pow(2, b) \in Nat /\ Pow(2, n) \in Nat \ {0} /\ Pow(2, n + 1) <= Pow(2, b)
    BY <1>2, <2>0, TwoPowers, TwoPowersGrow
  <2>2. Pow(2, n + 1) = 2 * Pow(2, n)
    BY TwoPowers
  <2>3. \A x \in Nat : x <= k * x
    OBVIOUS
  <2>4. Pow(2, b) <= k * Pow(2, b) /\ k * Pow(2, b) \in Nat
    BY <2>1, <2>3
  <2> QED BY <1>1, <1>2, <2>1, <2>2, <2>4
<1> QED BY <1>1, <1>2 DEF b

\* The cap on the bits decides nothing but whether a query is too precise.
LEMMA CapDecidesNothingElse ==
  ASSUME NEW prefix, NEW n \in Nat, NEW cap \in Nat, NEW other \in Nat, n <= cap, n <= other
  PROVE  ParseQuery(prefix, Decimal(n), cap) = ParseQuery(prefix, Decimal(n), other)
<1>1. Decimal(n).n = n /\ ~(n > cap) /\ ~(n > other)
  BY DEF Decimal
<1> QED BY <1>1 DEF ParseQuery
=============================================================================
