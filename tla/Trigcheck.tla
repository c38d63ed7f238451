------------------------------ MODULE Trigcheck -----------------------------
(***************************************************************************)
(* The deployment checker, cmd/trigcheck, against a directory: servers     *)
(* that publish (-s-dir, -ik) and a client that reads back (-verify), over *)
(* a network that delays and loses, with clocks that disagree.  The        *)
(* directory is Directory's handlers over one table; or one that answers   *)
(* lookups with whatever envelopes it was ever sent.  The derivations      *)
(* (internal/derive), the sealing and the two signatures (internal/record) *)
(* are free constructors: a key opens what it sealed.                      *)
(*                                                                         *)
(* A definition headed "Variant" is a plausible slip in the definition     *)
(* that follows it; nothing uses it.                                       *)
(***************************************************************************)
EXTENDS Directory

CONSTANTS
  Publishers,              \* servers; MaxRuns runs between them
  SecretOf, IkOf, PowBits, \* their -s-dir, -ik and -pow-bits
  SizeOf,                  \* bytes of the envelope, by their -endpoint and -caps
  Skew,                    \* their clocks, and Client's, against the directory's
  Client, ClientSecret, ClientIk,
  Ttls, Offsets,           \* -ttl, -epoch-offset
  Luck,                    \* zero bits a solution has beyond those asked for
  MaxEnvelopeBytes,        \* record.MaxEnvelopeBytes
  EpochSeconds,            \* derive.EpochSeconds
  KClient,                 \* anonymitySet
  IdOf,                    \* SHA-256, on the lookup_ids that occur
  Settings,                \* directories: limits, others' records, honest or not
  StartTime, MaxTime, MaxRuns, MaxReplay, MaxCount   \* bounds

ASSUME TrigcheckAssumption ==
  /\ EpochSeconds \in Nat \ {0} /\ KMin \in Nat \ {0}
  /\ KClient \in Nat /\ KClient > KMin
  /\ Ttls \subseteq Nat \ {0}
  /\ MaxReplay \in Nat
  /\ PowBits \in [Publishers -> Nat] /\ Luck \subseteq Nat    \* pow.Solve refuses a negative
  /\ SizeOf \in [Publishers -> Nat] /\ MaxEnvelopeBytes \in Nat
  /\ \A p \in Publishers : Skew[p] \in Int
  /\ Skew[Client] \in Int /\ Offsets \subseteq Int
  /\ StartTime \in Nat /\ MaxTime \in Nat /\ StartTime <= MaxTime /\ MaxRuns \in Nat
  \* Others write and seal under secrets of their own; no sum of limits wraps.
  /\ \A set \in Settings :
       /\ IsFiniteSet(DOMAIN set.rows)
       /\ \A k \in DOMAIN set.rows :
            set.rows[k] # NoRow => /\ set.rows[k].ct.key[2] # ClientSecret
                                   /\ \A p \in Publishers : k[2][2] # SecretOf[p]
       /\ set.lim \in Limits
       /\ \A t \in StartTime..MaxTime : Sane(set.lim, t)

VARIABLES
  now,      \* the directory's clock
  lim,      \* its limits
  honest,   \* it answers by its table
  rows,     \* the table, by lookup_id
  wire,     \* PUTs under way
  built,    \* every envelope a publisher has built
  acked,    \* those answered with 204
  pub,      \* each publisher's current run
  ver       \* the client's

vars == <<now, lim, honest, rows, wire, built, acked, pub, ver>>

-----------------------------------------------------------------------------
\* internal/derive.  Division here is already floor.

Epoch(t) == t \div EpochSeconds
WriteKey(s, e)  == <<"write", s, e>>
RecordKey(s, e) == <<"record", s, e>>
LookupID(wk)    == <<"sha256", wk>>

\* internal/record: an envelope's signature covers its fields, pow excepted; the
\* payload is signed under the identity, then sealed under the RecordKey.
CanonicalEnvelope(id, wk, expires, ct) == <<Version, id, wk, expires, ct>>
Sign(wk, id, expires, ct) == [by |-> wk, over |-> CanonicalEnvelope(id, wk, expires, ct)]
Verify(e) ==
  /\ e.lookup_id = LookupID(e.wk_pub)
  /\ e.sig.by = e.wk_pub /\ e.sig.over = CanonicalEnvelope(e.lookup_id, e.wk_pub, e.expires, e.ct)

\* record.Open.
Opens(e, key) == e.ct.key = key

\* Variant: the inner signature not looked at.
VerifyPlaintextUnchecked(e, ik) == TRUE

\* VerifyPlaintext.
VerifyPlaintext(e, ik) == e.ct.ik = ik

\* Variant: the padded alphabet.
EncodePadded(n) == [chars |-> 4 * CeilDiv(n, 3), alphabet |-> n % 3 = 0, canonical |-> TRUE]

\* b64.Encode, of n bytes.
Encode(n) == [chars |-> CeilDiv(8 * n, 6), alphabet |-> TRUE, canonical |-> TRUE]

\* build: p's envelope by its clock t for epoch e, under a fresh nonce.
Envelope(p, t, e, ttl, luck, nonce) ==
  LET wk == WriteKey(SecretOf[p], e)
      id == LookupID(wk)
      ct == [key |-> RecordKey(SecretOf[p], e), nonce |-> nonce, ik |-> IkOf[p], ts |-> t]
  IN  [lookup_id |-> id, wk_pub |-> wk, expires |-> t + ttl, ct |-> ct, size |-> SizeOf[p],
       zeros |-> PowBits[p] + luck, sig |-> Sign(wk, id, t + ttl, ct)]

\* What json.Marshal makes of it.
BodyOf(e) ==
  [size |-> e.size, json |-> "object",
   members |-> <<"v", "lookup_id", "wk_pub", "expires_at", "ct", "nonce", "pow", "sig">>,
   nulls |-> {}, typed |-> TRUE, v |-> Version,
   text |-> [m \in TextMembers |-> Encode(IF m = "ct" THEN e.size + TagLen ELSE Width[m])],
   expires |-> e.expires, own |-> e.lookup_id = LookupID(e.wk_pub), zeros |-> e.zeros,
   signed |-> Verify(e)]

\* Every envelope that can be built, by clocks that differ from the directory's.
Buildable ==
  {Envelope(p, t + Skew[p], Epoch(t + Skew[p]) + off, ttl, luck, nonce) :
     p \in Publishers, t \in StartTime..MaxTime, off \in Offsets, ttl \in Ttls, luck \in Luck,
     nonce \in 0..(MaxRuns - 1)}

\* IdOf and the tables are about the lookup_ids that occur, which SHA-256 tells
\* apart: there are no more than IdBits bits can name.
ASSUME LookupAssumption ==
  /\ IsFiniteSet(DOMAIN IdOf) /\ Cardinality(DOMAIN IdOf) <= Pow(2, IdBits)
  /\ \A k \in DOMAIN IdOf : IdOf[k] \in Id
  /\ \A set \in Settings :
       /\ DOMAIN set.rows = DOMAIN IdOf
       /\ \A k \in DOMAIN set.rows : set.rows[k] # NoRow => set.rows[k].expires \in Int
  /\ \A e \in Buildable : e # NoRow /\ e.lookup_id \in DOMAIN IdOf
  /\ \A t \in StartTime..MaxTime, off \in Offsets :
       LookupID(WriteKey(ClientSecret, Epoch(t + Skew[Client]) + off)) \in DOMAIN IdOf

-----------------------------------------------------------------------------
ClientKey(e) == RecordKey(ClientSecret, e)

Init ==
  /\ now = StartTime
  /\ \E set \in Settings : lim = set.lim /\ honest = set.honest /\ rows = set.rows
  /\ wire = {} /\ built = {} /\ acked = {}
  /\ pub = [p \in Publishers |-> [state |-> "idle"]]
  /\ ver = [state |-> "idle"]

Tick ==
  /\ now < MaxTime /\ now' = now + 1
  /\ UNCHANGED <<lim, honest, rows, wire, built, acked, pub, ver>>

-----------------------------------------------------------------------------
\* runPublish.

\* The clock is read, and the payload signed and sealed.
Build(p) ==
  /\ pub[p].state \notin {"solving", "waiting"} /\ Cardinality(built) < MaxRuns
  /\ \E ttl \in Ttls, off \in Offsets, luck \in Luck :
       LET t == now + Skew[p]
           nonce == Cardinality(built)
           e == Envelope(p, t, Epoch(t) + off, ttl, luck, nonce)
       IN  /\ pub' = [pub EXCEPT ![p] = [state |-> "solving", e |-> e, ttl |-> ttl, from |-> now]]
           /\ built' = built \cup {e}
  /\ UNCHANGED <<now, lim, honest, rows, wire, acked, ver>>

\* The proof of work takes what it takes, and may be interrupted.  An envelope
\* over the cap is not sent.
Solved(p) ==
  LET e == pub[p].e
  IN  /\ pub[p].state = "solving"
      /\ \/ /\ e.size <= MaxEnvelopeBytes
            /\ pub' = [pub EXCEPT ![p].state = "waiting"]
            /\ wire' = wire \cup {[by |-> p, e |-> e]}
         \/ pub' = [pub EXCEPT ![p] = [state |-> "failed"]] /\ wire' = wire
      /\ UNCHANGED <<now, lim, honest, rows, built, acked, ver>>

\* What the publisher p of r hears of its PUT, if it still waits for that one.
Hears(r, answer) ==
  IF pub[r.by].state = "waiting" /\ pub[r.by].e = r.e
  THEN [pub EXCEPT ![r.by] = answer] ELSE pub

\* The PUT reaches the directory, perhaps after its publisher gave up.  204
\* alone is success.
Arrives(r) ==
  /\ r \in wire
  /\ wire' = wire \ {r}
  /\ \E limited \in BOOLEAN :
       LET h == HandlePut(rows, r.e.lookup_id, r.e, BodyOf(r.e), now, lim, limited)
       IN  /\ rows' = h.rows
           /\ pub' = Hears(r, IF h.status = 204 THEN [state |-> "acked"]
                              ELSE [state |-> "refused", reason |-> h.reason])
           /\ acked' = IF h.status = 204 /\ pub' # pub THEN acked \cup {r.e} ELSE acked
  /\ UNCHANGED <<now, lim, honest, built, ver>>

\* The PUT, or the answer to it, is lost, or the statement fails.
PutLost(r) ==
  /\ r \in wire
  /\ wire' = wire \ {r}
  /\ rows' \in {rows, HandlePut(rows, r.e.lookup_id, r.e, BodyOf(r.e), now, lim, FALSE).rows}
  /\ pub' = Hears(r, [state |-> "failed"])
  /\ UNCHANGED <<now, lim, honest, built, acked, ver>>

\* httpTimeout, or an interrupt: the PUT may still be under way.
GivesUp(p) ==
  /\ pub[p].state = "waiting"
  /\ pub' = [pub EXCEPT ![p] = [state |-> "failed"]]
  /\ UNCHANGED <<now, lim, honest, rows, wire, built, acked, ver>>

-----------------------------------------------------------------------------
\* runVerify.

Meta ==
  /\ ver.state \in {"idle", "done"}
  /\ \E n \in IF honest THEN {HandleMeta(rows, now).recordCount} ELSE 0..MaxCount :
       ver' = [state |-> "meta", count |-> n]
  /\ UNCHANGED <<now, lim, honest, rows, wire, built, acked, pub>>

\* The epoch is read off the clock after meta's answer.
Asks ==
  /\ ver.state = "meta"
  /\ \E off \in Offsets :
       ver' = [state |-> "asked", count |-> ver.count,
               epoch |-> Epoch(now + Skew[Client]) + off,
               bits |-> PrefixBits(ver.count, KClient)]
  /\ UNCHANGED <<now, lim, honest, rows, wire, built, acked, pub>>

\* Trial decryption over an answer ...
Opened(answer, key) == {i \in DOMAIN answer : Verify(answer[i]) /\ Opens(answer[i], key)}

\* ... where an envelope that opens and is not by the expected identity ends the
\* run with an error; otherwise one, and only one, has to open.
Verdict(answer, key) ==
  LET opened == Opened(answer, key)
  IN  IF \E i \in opened : ~VerifyPlaintext(answer[i], ClientIk) THEN "forged"
      ELSE IF opened = {} THEN "none"
      ELSE IF Cardinality(opened) > 1 THEN "many" ELSE "ok"

Concludes(verdict, answer) ==
  ver' = [state |-> "done", verdict |-> verdict, epoch |-> ver.epoch,
          shown |-> IF verdict = "ok"
                    THEN {answer[i] : i \in Opened(answer, ClientKey(ver.epoch))} ELSE {}]

\* The lookup at a directory that answers by its table ...
LooksUp ==
  /\ ver.state = "asked" /\ honest
  /\ \E limited \in BOOLEAN :
       LET id == IdOf[LookupID(WriteKey(ClientSecret, ver.epoch))]
           h == HandleGet(rows, IdOf, now, Hex(PrefixHex(id, ver.bits)), Decimal(ver.bits),
                          FALSE, limited)
           answer == [k \in h.found |-> rows[k]]
       IN  Concludes(IF h.status = 400 THEN "rejected"
                     ELSE IF h.status # 200 THEN "limited"
                     ELSE Verdict(answer, ClientKey(ver.epoch)), answer)
  /\ UNCHANGED <<now, lim, honest, rows, wire, built, acked, pub>>

\* ... and at one that sends back any envelopes it was sent, stale, repeated or
\* of another bucket.
IsAnswered ==
  /\ ver.state = "asked" /\ ~honest
  /\ \E n \in 0..MaxReplay : \E answer \in [1..n -> built] :
       Concludes(Verdict(answer, ClientKey(ver.epoch)), answer)
  /\ UNCHANGED <<now, lim, honest, rows, wire, built, acked, pub>>

\* A request fails, or an answer is cut short at a megabyte and does not parse.
VerifyFails ==
  /\ ver.state \in {"meta", "asked"}
  /\ ver' = [state |-> "idle"]
  /\ UNCHANGED <<now, lim, honest, rows, wire, built, acked, pub>>

Next ==
  \/ Tick
  \/ \E p \in Publishers : Build(p) \/ Solved(p) \/ GivesUp(p)
  \/ \E r \in wire : Arrives(r) \/ PutLost(r)
  \/ Meta \/ Asks \/ LooksUp \/ IsAnswered \/ VerifyFails

Spec == Init /\ [][Next]_vars

-----------------------------------------------------------------------------
\* Whichever envelopes ever published a directory answers a lookup with, old,
\* repeated and foreign ones included, a success shows the operator one
\* envelope, which a server with the identity asked for has sealed for the very
\* epoch asked about (runVerify, Decoded.Verify, Open, VerifyPlaintext).
VerifyIsAuthentic ==
  ver.state = "done" /\ ver.verdict = "ok" =>
    /\ Cardinality(ver.shown) = 1
    /\ \A e \in ver.shown :
         /\ e \in built /\ e.ct.ik = ClientIk
         /\ \E off \in Offsets : Epoch(e.ct.ts) + off = ver.epoch

\* What the verdict reached in this step says of the table, of what was counted
\* and of what was acknowledged.
VerdictExplained ==
  LET id == LookupID(WriteKey(ClientSecret, ver.epoch))
      current == {e \in acked : e.lookup_id = id /\ e.expires > now}
      verdict == ver'.verdict
  IN  /\ verdict = "none" => current = {}
      /\ verdict = "forged" => \E e \in built : e.lookup_id = id /\ e.ct.ik # ClientIk
      /\ verdict # "many"
      /\ verdict = "rejected" => RowCount(rows, now) * KClient < ver.count * KMin
      /\ verdict = "ok" => \A e \in ver'.shown :
           e.expires > now /\ \A a \in current : a.expires <= e.expires

\* Against a directory that answers by its table, with the publishes, their
\* delays and expiries falling anywhere between the steps of a check:
\* "no envelope" only if nothing acknowledged and unexpired is published under
\* that secret and epoch; a foreign identity only if one publishes under the
\* secret; never two; a refusal as too precise only if expiries have thinned
\* the table by more than the margin between the two ks; what is shown is
\* unexpired and no older than what was acknowledged (runVerify, handleGetRecord).
VerdictIsExplained ==
  [][ver.state = "asked" /\ honest /\ ver'.state = "done" => VerdictExplained]_vars

\* What the refusal p hears in this step says of the limits, the clocks and the table.
Explained(p) ==
  LET e == pub[p].e
      ttl == pub[p].ttl
      took == now - pub[p].from
      reason == pub'[p].reason
  IN  /\ reason \in {"RateLimited", "TooLarge", "TTLTooLong", "PoWInsufficient", "Expired",
                    "NotNewer"}
      /\ reason = "TooLarge" => lim.maxRecordBytes < MaxEnvelopeBytes
      /\ reason = "TTLTooLong" => ttl + Skew[p] > lim.maxTTL + lim.skewGrace + took
      /\ reason = "PoWInsufficient" => PowBits[p] < lim.powBits
      /\ reason = "Expired" => took >= ttl + Skew[p]
      /\ reason = "NotNewer" =>
           \E f \in built : /\ f # e /\ f.lookup_id = e.lookup_id
                            /\ f.expires >= e.expires /\ f.expires > now

\* A publish is refused only for a reason in its own configuration, the clocks
\* or the table: the directory's limits lower than the publisher's, a clock
\* ahead by more than the grace leaves, a proof of work or a network that took
\* longer than the record was to live, a record there that expires no sooner.
\* Nothing build makes is ever malformed or fails to verify (runPublish, build,
\* handlePutRecord, Check).
RefusalIsExplained ==
  [][\A p \in Publishers :
       pub[p].state = "waiting" /\ pub'[p].state = "refused" => Explained(p)]_vars

-----------------------------------------------------------------------------
\* The parts of an inductive invariant.

\* Only what a publisher has built is sent.
SentIsBuilt ==
  /\ \A p \in Publishers : pub[p].state \in {"solving", "waiting"} => pub[p].e \in built
  /\ \A r \in wire : r.e \in built

\* What opens under the client's key for an epoch was sealed in that epoch.
SealedInItsEpoch ==
  \A e \in built : e.ct.key[2] = ClientSecret =>
    \E off \in Offsets : e.ct.key = ClientKey(Epoch(e.ct.ts) + off)

\* The table holds what was built, and others' records.
TableIsBuilt ==
  /\ IsFiniteSet(DOMAIN rows)
  /\ \A k \in DOMAIN rows :
       rows[k] \in built \/ (rows[k] # NoRow => rows[k].ct.key[2] # ClientSecret)

IInv == SentIsBuilt /\ SealedInItsEpoch /\ TableIsBuilt /\ VerifyIsAuthentic

\* The clock is within its bounds, and the limits are an operator's.
LimitsAreSane ==
  /\ now \in Nat /\ StartTime <= now /\ now <= MaxTime
  /\ lim \in Limits /\ \A t \in StartTime..MaxTime : Sane(lim, t)

\* A run under way holds what build made of the clock it read.
RunsAreAsBuilt ==
  /\ DOMAIN pub = Publishers
  /\ \A p \in Publishers : pub[p].state \in {"solving", "waiting"} =>
       /\ pub[p] \in [state : {"solving", "waiting"}, e : built, ttl : Ttls, from : 0..now]
       /\ \E off \in Offsets, luck \in Luck :
            LET t == pub[p].from + Skew[p]
            IN  pub[p].e = Envelope(p, t, Epoch(t) + off, pub[p].ttl, luck, pub[p].e.ct.nonce)
       /\ pub[p].state = "waiting" => pub[p].e.size <= MaxEnvelopeBytes

\* Nonces tell the envelopes of different runs apart, and an envelope is in one
\* place on its way: with its publisher, on the wire, in the table.
InTable(e) ==
  e.lookup_id \in DOMAIN rows /\ rows[e.lookup_id] # NoRow /\ rows[e.lookup_id] = e

EnvelopesAreFresh ==
  /\ IsFiniteSet(built)
  /\ \A e \in built : e.expires \in Int /\ e.ct.nonce \in Nat /\ e.ct.nonce < Cardinality(built)
  /\ \A p, q \in Publishers :
       pub[p].state = "solving" /\ pub[q].state = "solving" /\ pub[p].e = pub[q].e => p = q
  /\ \A p \in Publishers : pub[p].state = "solving" =>
       ~InTable(pub[p].e) /\ \A r \in wire : r.e # pub[p].e
  /\ \A r \in wire : ~InTable(r.e) /\ \A s \in wire : r.e = s.e => r = s

\* A record is under its own lookup_id, or where no publisher writes.
RowsUnderTheirIds ==
  \A k \in DOMAIN rows : rows[k] # NoRow =>
    \/ rows[k] \in built /\ rows[k].lookup_id = k
    \/ \A p \in Publishers : k[2][2] # SecretOf[p]

PublishInv == LimitsAreSane /\ RunsAreAsBuilt /\ EnvelopesAreFresh /\ RowsUnderTheirIds

\* What is built can be, and the table has a place for every lookup_id.
BuiltIsBuildable == built \subseteq Buildable /\ DOMAIN rows = DOMAIN IdOf

\* A row is under its own lookup_id, or opens under no key of the client's.
RowsAreInPlace ==
  \A k \in DOMAIN rows : rows[k] # NoRow =>
    /\ rows[k].expires \in Int
    /\ \/ rows[k] \in built /\ rows[k].lookup_id = k
       \/ rows[k].ct.key[2] # ClientSecret

\* Until it expires, what was acknowledged is in the table, or a record that
\* expires no sooner is.
AckedIsKept ==
  \A a \in acked :
    /\ a \in built
    /\ a.expires > now => /\ rows[a.lookup_id] # NoRow
                          /\ rows[a.lookup_id].expires >= a.expires

\* What an honest directory counted is no more than it has room for, and the
\* prefix is sized by it.
CheckIsSized ==
  /\ honest /\ ver.state \in {"meta", "asked"} => ver.count \in 0..Cardinality(DOMAIN IdOf)
  /\ ver.state = "asked" =>
       /\ ver.bits = PrefixBits(ver.count, KClient)
       /\ LookupID(WriteKey(ClientSecret, ver.epoch)) \in DOMAIN IdOf

VerdictInv == BuiltIsBuildable /\ RowsAreInPlace /\ AckedIsKept /\ CheckIsSized
=============================================================================
