------------------------------- MODULE Accept -------------------------------
(***************************************************************************)
(* PUT /v1/record from the bytes of a body to a verdict: the handler's     *)
(* bounded read (internal/api), accept.Check (internal/accept), the        *)
(* envelope's fields (internal/record), their spelling (internal/b64), the *)
(* proof of work (internal/pow) and the reasons (internal/reject).  Pure   *)
(* functions; Go's int and int64 are the integers modulo 2*Half.           *)
(*                                                                         *)
(* A body is what these functions can tell of one: its length, its JSON,   *)
(* the spelling of its text members, and what SHA-256 and Ed25519 say of   *)
(* the values in it.  encoding/json matches names without regard to case,  *)
(* so the values are not tied to the members' names here.                  *)
(*                                                                         *)
(* A definition headed "Variant" is a plausible slip in the definition     *)
(* that follows it; nothing uses it.                                       *)
(***************************************************************************)
EXTENDS Integers, Sequences, FiniteSets

CONSTANTS
  Half,        \* 2^63
  Bodies,      \* bodies of PUT requests
  LimitSets,   \* configurations of the limits
  Times,       \* clock values
  Stored       \* expires_at of what is stored and unexpired, or NotStored

Int64(n) == n >= -Half /\ n < Half

\* Nothing unexpired is stored under the lookup_id.
NotStored == -Half

\* record.Version and the widths of section 4.1.
Version == 1
TextMembers == {"lookup_id", "wk_pub", "nonce", "pow", "sig", "ct"}
Width == [lookup_id |-> 32, wk_pub |-> 32, nonce |-> 12, pow |-> 8, sig |-> 64]
TagLen == 16

RequiredMembers == TextMembers \cup {"v", "expires_at"}

\* A text member as transmitted: its characters, line breaks not counted; all
\* of them of the base64url alphabet; and the bits beyond the last byte zero.
Spellings == [chars : Nat, alphabet : BOOLEAN, canonical : BOOLEAN]

Limits == [maxRecordBytes : Int, maxTTL : Int, powBits : Int, skewGrace : Nat]

\* A body whose members have these names.
BodyOver(names) ==
  [size    : Nat,
   json    : {"broken", "other", "object"},
   members : Seq(names),               \* the names, in order
   nulls   : SUBSET names,             \* those whose value is null
   typed   : BOOLEAN,                  \* every known member has its JSON type
   v       : Int,
   text    : [TextMembers -> Spellings],
   expires : Int,
   own     : BOOLEAN,                  \* lookup_id is SHA-256(wk_pub)
   zeros   : Nat,                      \* leading zero bits of the pow digest
   signed  : BOOLEAN]                  \* sig verifies under wk_pub

Body == BodyOver(STRING)

ASSUME AcceptAssumption ==
  /\ Half \in Nat \ {0}
  /\ Bodies \subseteq Body
  /\ \A b \in Bodies : Int64(b.expires) /\ b.size < Half
  /\ LimitSets \subseteq Limits
  /\ \A l \in LimitSets : Int64(l.maxRecordBytes) /\ Int64(l.maxTTL) /\ Int64(l.powBits)
  /\ Times \subseteq Nat
  /\ \A l \in LimitSets, t \in Times : t + l.skewGrace < Half
  /\ Stored \subseteq Int

-----------------------------------------------------------------------------
\* What is left of a sum in 64 bits.
Wrap(n) == ((n + Half) % (2 * Half)) - Half

\* The body of a request that sent nothing.
NoBytes(b) == [b EXCEPT !.size = 0, !.json = "broken"]

\* io.LimitReader: at most limit bytes, and none when limit is not positive.
ReadLimited(b, limit) ==
  IF limit <= 0 THEN NoBytes(b)
  ELSE IF b.size > limit THEN [b EXCEPT !.size = limit, !.json = "broken"]
  ELSE b

\* b64.Decode: unpadded, strict.  Padding is not of the alphabet.
Decodes(s) == s.alphabet /\ s.chars % 4 # 1 /\ s.canonical
DecodedLen(s) == (s.chars * 6) \div 8

\* b64.DecodeFixed.
DecodesTo(s, n) == Decodes(s) /\ DecodedLen(s) = n

HasDuplicateMembers(b) ==
  \E i, j \in DOMAIN b.members : i < j /\ b.members[i] = b.members[j]

\* accept.parse: an object, no name twice, every required member there and not
\* null, and each of its type.
Parse(b) ==
  /\ b.json = "object"
  /\ ~HasDuplicateMembers(b)
  /\ \A m \in RequiredMembers :
       (\E i \in DOMAIN b.members : b.members[i] = m) /\ m \notin b.nulls
  /\ b.typed

\* Envelope.Decode, which looks at the version before the fields.
Decode(b) ==
  /\ b.v = Version
  /\ \A f \in DOMAIN Width : DecodesTo(b.text[f], Width[f])
  /\ Decodes(b.text.ct) /\ DecodedLen(b.text.ct) >= TagLen

\* pow.Verify; Decode has settled the length of the counter.
PoWVerify(b, powBits) == powBits >= 0 /\ b.zeros >= powBits

\* Variant: what Decode says taken for the field checks, the version in it.
FieldsDecodeAsSent(b) == Decode(b)

\* Check decodes a copy that carries the supported version: the fields alone.
FieldsDecode(b) == Decode([b EXCEPT !.v = Version])

\* Variant: the terms on the other side, where the difference can wrap.
BeyondTTLMoved(b, now, lim) == Wrap(Wrap(b.expires - lim.maxTTL) - lim.skewGrace) > now

\* expires_at beyond now + max_ttl and the grace, added in 64 bits.
BeyondTTL(b, now, lim) == b.expires > Wrap(Wrap(now + lim.maxTTL) + lim.skewGrace)

\* accept.Check, every condition in its place.
Check(b, now, lim, rateLimited) ==
  IF rateLimited THEN "RateLimited"
  ELSE IF b.size > lim.maxRecordBytes THEN "TooLarge"
  ELSE IF ~Parse(b) \/ ~FieldsDecode(b) THEN "Malformed"
  ELSE IF b.v # Version THEN "BadVersion"
  ELSE IF BeyondTTL(b, now, lim) THEN "TTLTooLong"
  ELSE IF ~b.own THEN "LookupMismatch"
  ELSE IF ~PoWVerify(b, lim.powBits) THEN "PoWInsufficient"
  ELSE IF ~b.signed THEN "SigInvalid"
  ELSE IF b.expires <= now THEN "Expired"
  ELSE "Accepted"

\* handlePutRecord up to its status: the limiter before the body is read, the
\* body read to one byte beyond the limit, then Check, then Put's comparison
\* with what is stored.  readable is FALSE when the client goes away mid-body.
PutReason(b, readable, now, lim, rateLimited, stored) ==
  IF rateLimited THEN "RateLimited"
  ELSE IF ~readable THEN "Malformed"
  ELSE LET reason == Check(ReadLimited(b, Wrap(lim.maxRecordBytes + 1)), now, lim, FALSE)
       IN  IF reason = "Accepted" /\ b.expires <= stored THEN "NotNewer" ELSE reason

\* RecordReason.HTTPStatus.
RecordStatus(reason) ==
  CASE reason = "Accepted" -> 204
    [] reason = "RateLimited" -> 429
    [] reason = "TooLarge" -> 413
    [] reason \in {"Malformed", "BadVersion", "TTLTooLong"} -> 400
    [] reason \in {"LookupMismatch", "PoWInsufficient", "SigInvalid"} -> 403
    [] reason \in {"Expired", "NotNewer"} -> 409

-----------------------------------------------------------------------------
(***************************************************************************)
(* What section 5.2 asks, without the code's steps: each reason stands for *)
(* a condition on the request, and the reasons have an order.              *)
(***************************************************************************)
Order == <<"RateLimited", "TooLarge", "Malformed", "BadVersion", "TTLTooLong",
           "LookupMismatch", "PoWInsufficient", "SigInvalid", "Expired", "NotNewer">>

WellFormed(b) ==
  /\ b.json = "object" /\ b.typed
  /\ \A m \in RequiredMembers :
       \E i \in DOMAIN b.members : b.members[i] = m /\ m \notin b.nulls
  /\ \A i, j \in DOMAIN b.members : b.members[i] = b.members[j] => i = j
  /\ \A m \in TextMembers : Decodes(b.text[m])
  /\ \A m \in DOMAIN Width : DecodedLen(b.text[m]) = Width[m]
  /\ DecodedLen(b.text["ct"]) >= TagLen

\* Whether the condition behind a reason holds of a request.
Fails(reason, b, now, lim, rateLimited, stored) ==
  CASE reason = "RateLimited"     -> rateLimited
    [] reason = "TooLarge"        -> b.size > lim.maxRecordBytes
    [] reason = "Malformed"       -> ~WellFormed(b)
    [] reason = "BadVersion"      -> b.v # Version
    [] reason = "TTLTooLong"      -> b.expires > now + lim.maxTTL + lim.skewGrace
    [] reason = "LookupMismatch"  -> ~b.own
    [] reason = "PoWInsufficient" -> b.zeros < lim.powBits
    [] reason = "SigInvalid"      -> ~b.signed
    [] reason = "Expired"         -> b.expires <= now
    [] reason = "NotNewer"        -> b.expires <= stored

\* Limits an operator would set: sums of them stay within 64 bits.
Sane(lim, now) ==
  /\ lim.maxRecordBytes >= 0 /\ lim.maxRecordBytes + 1 < Half
  /\ now + lim.maxTTL + lim.skewGrace < Half /\ now + lim.maxTTL >= -Half
  /\ lim.powBits >= 0

\* The reason is that of the first condition that fails; a request is accepted
\* only if none does.
AnswersInOrder(b, now, lim, limited, stored) ==
  LET reason == PutReason(b, TRUE, now, lim, limited, stored)
  IN  IF reason = "Accepted"
      THEN \A n \in DOMAIN Order : ~Fails(Order[n], b, now, lim, limited, stored)
      ELSE \E n \in DOMAIN Order :
             /\ reason = Order[n]
             /\ Fails(Order[n], b, now, lim, limited, stored)
             /\ \A k \in 1..(n-1) : ~Fails(Order[k], b, now, lim, limited, stored)

\* The record is within the limits as integers.
WithinLimits(b, now, lim, stored) ==
  /\ b.size <= lim.maxRecordBytes
  /\ b.expires > now /\ b.expires <= now + lim.maxTTL + lim.skewGrace
  /\ b.expires > stored
  /\ lim.powBits >= 0 /\ b.zeros >= lim.powBits
  /\ b.own /\ b.signed
=============================================================================
