-------------------------- MODULE TrigcheckProofs ---------------------------
(***************************************************************************)
(* What the deployment checker reports is authentic, for any publishers,   *)
(* secrets, identities, clocks, lifetimes, directories and bounds.         *)
(***************************************************************************)
EXTENDS Trigcheck, DirectoryProofs, FiniteSetTheorems

-----------------------------------------------------------------------------
\* handleGetRecord returns rows that are there.
LEMMA GetReturnsRows ==
  ASSUME NEW t, NEW ids, NEW n, NEW prefix, NEW bits, NEW repeated, NEW limited
  PROVE  \A k \in HandleGet(t, ids, n, prefix, bits, repeated, limited).found :
           k \in DOMAIN t /\ t[k] # NoRow
<1> DEFINE q == ParseQuery(prefix, bits, CapFor(RowCount(t, n), KMin))
           h == HandleGet(t, ids, n, prefix, bits, repeated, limited)
<1>1. h.found = {} \/ h.found = {k \in Live(t, n) : Selects(q, ids[k])}
  BY Zenon DEF HandleGet
<1> QED
  BY <1>1 DEF Live

\* A row written with what was built keeps the table's part of the invariant.
LEMMA TableKeepsBuilt ==
  ASSUME TableIsBuilt, built' = built,
         NEW k, NEW e \in built, rows' = rows \/ rows' = [rows EXCEPT ![k] = e]
  PROVE  TableIsBuilt'
BY DEF TableIsBuilt

\* The verdict "ok" is about exactly one envelope, by the identity asked for.
LEMMA OkShowsOne ==
  ASSUME NEW answer, NEW key, IsFiniteSet(DOMAIN answer), Verdict(answer, key) = "ok"
  PROVE  \E i \in Opened(answer, key) :
           /\ Opened(answer, key) = {i}
           /\ Opens(answer[i], key) /\ VerifyPlaintext(answer[i], ClientIk)
<1> DEFINE opened == Opened(answer, key)
<1>1. IsFiniteSet(opened)
  BY FS_Subset, opened \subseteq DOMAIN answer DEF Opened
<1>2. opened # {} /\ ~(Cardinality(opened) > 1)
      /\ \A i \in opened : VerifyPlaintext(answer[i], ClientIk)
  BY DEF Verdict
<1>3. Cardinality(opened) \in Nat /\ Cardinality(opened) # 0
  BY <1>1, <1>2, FS_CardinalityType, FS_EmptySet
<1>4. Cardinality(opened) = 1
  BY <1>2, <1>3
<1>5. PICK i : opened = {i}
  BY <1>1, <1>4, FS_Singleton
<1> QED
  BY <1>2, <1>5 DEF Opened

\* A check that concludes from rows that were built or are others' keeps the
\* promise.
LEMMA ConclusionIsAuthentic ==
  ASSUME NEW answer, NEW verdict,
         SealedInItsEpoch, built' = built, Concludes(verdict, answer),
         verdict = "ok" =>
           IsFiniteSet(DOMAIN answer) /\ Verdict(answer, ClientKey(ver.epoch)) = "ok",
         \A i \in DOMAIN answer :
           answer[i] \in built \/ answer[i].ct.key[2] # ClientSecret
  PROVE  VerifyIsAuthentic'
<1> SUFFICES ASSUME verdict = "ok" PROVE VerifyIsAuthentic'
  BY DEF VerifyIsAuthentic, Concludes
<1> DEFINE key == ClientKey(ver.epoch)
<1>1. PICK i \in Opened(answer, key) :
        /\ Opened(answer, key) = {i}
        /\ Opens(answer[i], key) /\ VerifyPlaintext(answer[i], ClientIk)
  BY OkShowsOne
<1>2. ver'.shown = {answer[i]} /\ ver'.epoch = ver.epoch
  BY <1>1 DEF Concludes
<1>3. Cardinality(ver'.shown) = 1
  BY <1>2, FS_Singleton
<1>4. answer[i].ct.key = key /\ answer[i].ct.ik = ClientIk /\ key[2] = ClientSecret
  BY <1>1 DEF Opens, VerifyPlaintext, ClientKey, RecordKey
<1>5. answer[i] \in built
  BY <1>1, <1>4 DEF Opened
<1>6. \E off \in Offsets : key = ClientKey(Epoch(answer[i].ct.ts) + off)
  BY <1>4, <1>5 DEF SealedInItsEpoch
<1>7. \E off \in Offsets : Epoch(answer[i].ct.ts) + off = ver.epoch
  BY <1>6 DEF ClientKey, RecordKey
<1> QED
  BY <1>2, <1>3, <1>4, <1>5, <1>7 DEF VerifyIsAuthentic

-----------------------------------------------------------------------------
\* Nothing is built yet, and the records there are others'.
LEMMA InitEstablishes == Init => IInv
BY TrigcheckAssumption
   DEF Init, IInv, SentIsBuilt, SealedInItsEpoch, TableIsBuilt, VerifyIsAuthentic

\* build: the envelope is sealed under the key of the epoch it was sealed in.
LEMMA BuildPreserves ==
  ASSUME IInv, NEW p \in Publishers, Build(p)
  PROVE  IInv'
<1>1. PICK ttl \in Ttls, off \in Offsets, luck \in Luck :
        LET t == now + Skew[p]
            e == Envelope(p, t, Epoch(t) + off, ttl, luck, Cardinality(built))
        IN  /\ pub' = [pub EXCEPT ![p] = [state |-> "solving", e |-> e, ttl |-> ttl, from |-> now]]
            /\ built' = built \cup {e}
  BY DEF Build
<1> DEFINE t == now + Skew[p]
           e == Envelope(p, t, Epoch(t) + off, ttl, luck, Cardinality(built))
<1>2. e.ct.key = RecordKey(SecretOf[p], Epoch(t) + off) /\ e.ct.ts = t
  BY DEF Envelope
<1> HIDE DEF e, t
<1>3. built' = built \cup {e} /\ UNCHANGED <<rows, wire, ver>>
  BY <1>1 DEF Build, e, t
<1>4. \A q \in Publishers : pub'[q] = pub[q] \/ pub'[q].e = e
  BY <1>1 DEF e, t
<1>5. SentIsBuilt'
  BY <1>3, <1>4 DEF IInv, SentIsBuilt
<1>6. e.ct.key[2] = ClientSecret => e.ct.key = ClientKey(Epoch(e.ct.ts) + off)
  BY <1>2 DEF ClientKey, RecordKey
<1>7. SealedInItsEpoch'
  BY <1>3, <1>6 DEF IInv, SealedInItsEpoch
<1>8. TableIsBuilt' /\ VerifyIsAuthentic'
  BY <1>3 DEF IInv, TableIsBuilt, VerifyIsAuthentic
<1> QED
  BY <1>5, <1>7, <1>8 DEF IInv

\* The PUT carries the envelope that was built.
LEMMA SolvedPreserves ==
  ASSUME IInv, NEW p \in Publishers, Solved(p)
  PROVE  IInv'
<1>1. /\ pub[p].state = "solving" /\ UNCHANGED <<rows, built, ver>>
      /\ wire' = wire \cup {[by |-> p, e |-> pub[p].e]} \/ wire' = wire
  BY DEF Solved
<1>2. \/ pub' = [pub EXCEPT ![p].state = "waiting"]
      \/ pub' = [pub EXCEPT ![p] = [state |-> "failed"]]
  BY DEF Solved
<1>3. \A q \in Publishers : \/ pub'[q] = pub[q]
                            \/ pub'[q].e = pub[q].e /\ pub[q].state = "solving"
                            \/ pub'[q].state = "failed"
  <2>1. CASE pub' = [pub EXCEPT ![p].state = "waiting"]
    BY <1>1, <2>1
  <2>2. CASE pub' = [pub EXCEPT ![p] = [state |-> "failed"]]
    BY <2>2
  <2> QED
    BY <1>2, <2>1, <2>2
<1>4. SentIsBuilt'
  BY <1>1, <1>3 DEF IInv, SentIsBuilt
<1> QED
  BY <1>1, <1>4 DEF IInv, SealedInItsEpoch, TableIsBuilt, VerifyIsAuthentic

\* What a publisher hears ends its run, or leaves it as it was.
LEMMA HearingKeepsSent ==
  ASSUME SentIsBuilt, NEW r, NEW answer, pub' = Hears(r, answer), built' = built,
         wire' = wire \ {r}, answer.state \notin {"solving", "waiting"}
  PROVE  SentIsBuilt'
BY DEF SentIsBuilt, Hears

\* The directory stores the envelope, or nothing; the publisher's run is over.
LEMMA ArrivesPreserves ==
  ASSUME IInv, NEW r \in wire, Arrives(r)
  PROVE  IInv'
<1>1. PICK limited \in BOOLEAN :
        LET h == HandlePut(rows, r.e.lookup_id, r.e, BodyOf(r.e), now, lim, limited)
        IN  /\ rows' = h.rows
            /\ pub' = Hears(r, IF h.status = 204 THEN [state |-> "acked"]
                               ELSE [state |-> "refused", reason |-> h.reason])
  BY DEF Arrives
<1>2. wire' = wire \ {r} /\ UNCHANGED <<built, ver>> /\ r.e \in built
  BY DEF Arrives, IInv, SentIsBuilt
<1> DEFINE after == HandlePut(rows, r.e.lookup_id, r.e, BodyOf(r.e), now, lim, limited).rows
<1>3. after = rows \/ after = [rows EXCEPT ![r.e.lookup_id] = r.e]
  BY DEF HandlePut
<1>4. rows' = after
  BY <1>1, Zenon
<1> HIDE DEF after
<1>5. TableIsBuilt'
  <2>1. TableIsBuilt /\ built' = built /\ r.e \in built
    BY <1>2 DEF IInv
  <2> QED
    BY <2>1, <1>3, <1>4, TableKeepsBuilt
<1>6. \E answer : pub' = Hears(r, answer) /\ answer.state \notin {"solving", "waiting"}
  BY <1>1
<1>7. SentIsBuilt'
  BY <1>2, <1>6, HearingKeepsSent DEF IInv
<1> QED
  BY <1>2, <1>5, <1>7 DEF IInv, SealedInItsEpoch, VerifyIsAuthentic

\* The same where the answer, or the PUT, is lost.
LEMMA PutLostPreserves ==
  ASSUME IInv, NEW r \in wire, PutLost(r)
  PROVE  IInv'
<1>1. /\ rows' \in {rows, HandlePut(rows, r.e.lookup_id, r.e, BodyOf(r.e), now, lim, FALSE).rows}
      /\ pub' = Hears(r, [state |-> "failed"])
      /\ wire' = wire \ {r} /\ UNCHANGED <<built, ver>> /\ r.e \in built
  BY DEF PutLost, IInv, SentIsBuilt
<1> DEFINE after == HandlePut(rows, r.e.lookup_id, r.e, BodyOf(r.e), now, lim, FALSE).rows
<1>2. after = rows \/ after = [rows EXCEPT ![r.e.lookup_id] = r.e]
  BY DEF HandlePut
<1>3. rows' = rows \/ rows' = [rows EXCEPT ![r.e.lookup_id] = r.e]
  BY <1>1, <1>2
<1>4. TableIsBuilt'
  <2>1. TableIsBuilt /\ built' = built /\ r.e \in built
    BY <1>1 DEF IInv
  <2> QED
    BY <2>1, <1>3, TableKeepsBuilt
<1>5. SentIsBuilt'
  BY <1>1, HearingKeepsSent DEF IInv
<1> QED
  BY <1>1, <1>4, <1>5 DEF IInv, SealedInItsEpoch, VerifyIsAuthentic

\* An answer from the table.
LEMMA LooksUpPreserves ==
  ASSUME IInv, LooksUp
  PROVE  IInv'
<1>1. PICK limited \in BOOLEAN :
        LET id == IdOf[LookupID(WriteKey(ClientSecret, ver.epoch))]
            h == HandleGet(rows, IdOf, now, Hex(PrefixHex(id, ver.bits)), Decimal(ver.bits),
                           FALSE, limited)
            answer == [k \in h.found |-> rows[k]]
        IN  Concludes(IF h.status = 400 THEN "rejected"
                      ELSE IF h.status # 200 THEN "limited"
                      ELSE Verdict(answer, ClientKey(ver.epoch)), answer)
  BY DEF LooksUp
<1> DEFINE id == IdOf[LookupID(WriteKey(ClientSecret, ver.epoch))]
           h == HandleGet(rows, IdOf, now, Hex(PrefixHex(id, ver.bits)), Decimal(ver.bits),
                          FALSE, limited)
           answer == [k \in h.found |-> rows[k]]
           verdict == IF h.status = 400 THEN "rejected"
                      ELSE IF h.status # 200 THEN "limited"
                      ELSE Verdict(answer, ClientKey(ver.epoch))
<1>2. Concludes(verdict, answer)
  BY <1>1, Zenon
<1>3. \A k \in h.found : k \in DOMAIN rows /\ rows[k] # NoRow
  BY GetReturnsRows, Zenon
<1>4. verdict = "ok" => Verdict(answer, ClientKey(ver.epoch)) = "ok"
  OBVIOUS
<1> HIDE DEF h, verdict, id
<1>5. IsFiniteSet(DOMAIN answer)
  BY <1>3, FS_Subset, h.found \subseteq DOMAIN rows, DOMAIN answer = h.found
     DEF IInv, TableIsBuilt
<1>6. \A k \in DOMAIN answer : answer[k] \in built \/ answer[k].ct.key[2] # ClientSecret
  BY <1>3 DEF IInv, TableIsBuilt
<1>7. UNCHANGED <<built, rows, wire, pub>>
  BY DEF LooksUp
<1> HIDE DEF answer
<1>8. VerifyIsAuthentic'
  BY <1>2, <1>4, <1>5, <1>6, <1>7, ConclusionIsAuthentic DEF IInv
<1> QED
  BY <1>7, <1>8 DEF IInv, SentIsBuilt, SealedInItsEpoch, TableIsBuilt

\* An answer of the directory's choosing.
LEMMA IsAnsweredPreserves ==
  ASSUME IInv, IsAnswered
  PROVE  IInv'
<1>1. PICK n \in 0..MaxReplay : \E answer \in [1..n -> built] :
        Concludes(Verdict(answer, ClientKey(ver.epoch)), answer)
  BY DEF IsAnswered
<1>2. PICK answer \in [1..n -> built] : Concludes(Verdict(answer, ClientKey(ver.epoch)), answer)
  BY <1>1
<1>3. IsFiniteSet(DOMAIN answer)
  BY <1>2, FS_Interval, TrigcheckAssumption
<1>4. \A i \in DOMAIN answer : answer[i] \in built
  BY <1>2
<1>5. UNCHANGED <<built, rows, wire, pub>>
  BY DEF IsAnswered
<1>6. VerifyIsAuthentic'
  BY <1>2, <1>3, <1>4, <1>5, ConclusionIsAuthentic DEF IInv
<1> QED
  BY <1>5, <1>6 DEF IInv, SentIsBuilt, SealedInItsEpoch, TableIsBuilt

\* One case per action.
LEMMA NextPreserves == IInv /\ [Next]_vars => IInv'
<1> SUFFICES ASSUME IInv, [Next]_vars PROVE IInv'
  OBVIOUS
<1>1. CASE \E p \in Publishers : Build(p)
  BY <1>1, BuildPreserves
<1>2. CASE \E p \in Publishers : Solved(p)
  BY <1>2, SolvedPreserves
<1>3. CASE \E p \in Publishers : GivesUp(p)
  BY <1>3 DEF GivesUp, IInv, SentIsBuilt, SealedInItsEpoch, TableIsBuilt, VerifyIsAuthentic
<1>4. CASE \E r \in wire : Arrives(r)
  BY <1>4, ArrivesPreserves
<1>5. CASE \E r \in wire : PutLost(r)
  BY <1>5, PutLostPreserves
<1>6. CASE Tick \/ UNCHANGED vars
  BY <1>6 DEF Tick, vars, IInv, SentIsBuilt, SealedInItsEpoch, TableIsBuilt, VerifyIsAuthentic
<1>7. CASE Meta \/ Asks \/ VerifyFails
  <2>1. UNCHANGED <<built, rows, wire, pub>> /\ ver'.state # "done"
    BY <1>7 DEF Meta, Asks, VerifyFails
  <2> QED
    BY <2>1 DEF IInv, SentIsBuilt, SealedInItsEpoch, TableIsBuilt, VerifyIsAuthentic
<1>8. CASE LooksUp
  BY <1>8, LooksUpPreserves
<1>9. CASE IsAnswered
  BY <1>9, IsAnsweredPreserves
<1> QED
  BY <1>1, <1>2, <1>3, <1>4, <1>5, <1>6, <1>7, <1>8, <1>9 DEF Next

-----------------------------------------------------------------------------
\* What is sent was built, what was built opens only under the key of its own
\* epoch, and the table holds nothing else that the client's keys open.
THEOREM CheckerInvariant == Spec => []IInv
<1> QED
  BY InitEstablishes, NextPreserves, PTL DEF Spec

\* A successful check shows one envelope, sealed by a server with the identity
\* asked for, for the epoch asked about, whichever envelopes the directory
\* answers with (runVerify).
THEOREM SuccessIsAuthentic == Spec => []VerifyIsAuthentic
<1>1. IInv => VerifyIsAuthentic
  BY DEF IInv
<1> QED
  BY <1>1, CheckerInvariant, PTL

-----------------------------------------------------------------------------
(***************************************************************************)
(* Why a publish is refused.                                               *)
(***************************************************************************)

\* What b64.Encode spells, b64.Decode reads back, whatever the length.
LEMMA EncodeDecodes ==
  ASSUME NEW n \in Nat
  PROVE  /\ Encode(n) \in Spellings
         /\ Decodes(Encode(n)) /\ DecodedLen(Encode(n)) = n
<1> DEFINE c == (8 * n + 5) \div 6
<1>1. Encode(n) = [chars |-> c, alphabet |-> TRUE, canonical |-> TRUE]
  BY DEF Encode, CeilDiv
<1>2. c \in Nat /\ 6 * c >= 8 * n /\ 6 * c <= 8 * n + 5
  OBVIOUS
<1>3. (c * 6) \div 8 = n
  BY <1>2
<1>4. c % 4 # 1
  <2>1. SUFFICES ASSUME c % 4 = 1 PROVE FALSE
    OBVIOUS
  <2>2. PICK m \in Nat : c = 4 * m + 1
    BY <1>2, <2>1
  <2> QED BY <1>2, <2>2
<1> QED BY <1>1, <1>2, <1>3, <1>4 DEF Spellings, Decodes, DecodedLen

\* What build makes is well formed, owns its lookup_id and verifies.
LEMMA BuiltBody ==
  ASSUME NEW p \in Publishers, NEW t \in Int, NEW ep, NEW ttl \in Nat, NEW luck \in Nat, NEW nonce
  PROVE  LET b == BodyOf(Envelope(p, t, ep, ttl, luck, nonce))
         IN  /\ b \in BodyOver(RequiredMembers) /\ WellFormed(b)
             /\ b.v = Version /\ b.own /\ b.signed
             /\ b.size = SizeOf[p] /\ b.zeros = PowBits[p] + luck /\ b.expires = t + ttl
<1> DEFINE e == Envelope(p, t, ep, ttl, luck, nonce)
           b == BodyOf(e)
<1>1. /\ e.size = SizeOf[p] /\ e.zeros = PowBits[p] + luck /\ e.expires = t + ttl
      /\ Verify(e) /\ e.lookup_id = LookupID(e.wk_pub)
  BY DEF Envelope, Verify, Sign
<1>2. SizeOf[p] \in Nat /\ PowBits[p] + luck \in Nat /\ t + ttl \in Int
  BY TrigcheckAssumption
<1> HIDE DEF e
<1>3. \A m \in TextMembers : (IF m = "ct" THEN e.size + TagLen ELSE Width[m]) \in Nat
  BY <1>1, <1>2 DEF TextMembers, Width, TagLen
<1>4. \A m \in TextMembers :
        /\ b.text[m] \in Spellings /\ Decodes(b.text[m])
        /\ DecodedLen(b.text[m]) = IF m = "ct" THEN e.size + TagLen ELSE Width[m]
  BY <1>3, EncodeDecodes DEF BodyOf
<1>5. /\ b.size = e.size /\ b.json = "object" /\ b.nulls = {} /\ b.typed = TRUE /\ b.v = Version
      /\ b.members = <<"v", "lookup_id", "wk_pub", "expires_at", "ct", "nonce", "pow", "sig">>
      /\ b.expires = e.expires /\ b.zeros = e.zeros /\ b.own = TRUE /\ b.signed = TRUE
      /\ b.text = [m \in TextMembers |-> b.text[m]]
  BY <1>1 DEF BodyOf
<1>6. b.text \in [TextMembers -> Spellings]
  BY <1>4, <1>5
<1>7. b.members \in Seq(RequiredMembers)
  <2> HIDE DEF b
  <2> QED BY <1>5 DEF RequiredMembers, TextMembers
<1>8. b \in BodyOver(RequiredMembers)
  <2>1. b = [size |-> b.size, json |-> b.json, members |-> b.members, nulls |-> b.nulls,
             typed |-> b.typed, v |-> b.v, text |-> b.text, expires |-> b.expires,
             own |-> b.own, zeros |-> b.zeros, signed |-> b.signed]
    BY DEF BodyOf
  <2> HIDE DEF b
  <2>2. b.size \in Nat /\ b.zeros \in Nat /\ b.expires \in Int /\ b.v \in Int
    BY <1>1, <1>2, <1>5 DEF Version
  <2>3. b.typed \in BOOLEAN /\ b.own \in BOOLEAN /\ b.signed \in BOOLEAN
    BY <1>5
  <2>4. b.json \in {"broken", "other", "object"} /\ b.nulls \in SUBSET RequiredMembers
    BY <1>5
  <2> QED BY <1>6, <1>7, <2>1, <2>2, <2>3, <2>4 DEF BodyOver
<1> HIDE DEF b
<1>9. WellFormed(b)
  <2>1. \A m \in RequiredMembers : \E i \in DOMAIN b.members : b.members[i] = m /\ m \notin b.nulls
    BY <1>5 DEF RequiredMembers, TextMembers
  <2>2. \A i, j \in DOMAIN b.members : b.members[i] = b.members[j] => i = j
    BY <1>5
  <2>3. /\ \A m \in DOMAIN Width : DecodedLen(b.text[m]) = Width[m]
        /\ DecodedLen(b.text["ct"]) >= TagLen
    BY <1>1, <1>2, <1>4 DEF TextMembers, Width, TagLen
  <2> QED BY <1>4, <1>5, <2>1, <2>2, <2>3 DEF WellFormed
<1> QED BY <1>1, <1>5, <1>8, <1>9 DEF b, e

\* What is in the table under a publisher's lookup_id was built.
LEMMA OwnRows ==
  ASSUME RowsUnderTheirIds, NEW p \in Publishers, NEW ep, NEW k,
         k = LookupID(WriteKey(SecretOf[p], ep)), k \in DOMAIN rows, rows[k] # NoRow
  PROVE  rows[k] \in built /\ rows[k].lookup_id = k
<1>1. k[2][2] = SecretOf[p]
  BY DEF LookupID, WriteKey
<1> QED BY <1>1 DEF RowsUnderTheirIds

\* A run whose state changes from "waiting" to "refused" has heard of its own PUT.
LEMMA RefusedByItsPut ==
  ASSUME PublishInv, Next, NEW p \in Publishers, pub[p].state = "waiting", pub'[p].state = "refused"
  PROVE  \E r \in wire : Arrives(r) /\ r.by = p /\ r.e = pub[p].e
<1> USE DEF PublishInv, RunsAreAsBuilt
<1>1. ASSUME NEW q \in Publishers, Build(q) \/ Solved(q) \/ GivesUp(q) PROVE FALSE
  <2>1. q # p => pub'[p] = pub[p]
    BY <1>1 DEF Build, Solved, GivesUp
  <2>2. q = p => pub'[p].state # "refused"
    BY <1>1 DEF Build, Solved, GivesUp
  <2> QED BY <2>1, <2>2
<1>2. ASSUME NEW r \in wire, PutLost(r) PROVE FALSE
  BY <1>2 DEF PutLost, Hears
<1>3. ASSUME NEW r \in wire, Arrives(r) PROVE r.by = p /\ r.e = pub[p].e
  BY <1>3 DEF Arrives, Hears
<1>4. ASSUME Tick \/ Meta \/ Asks \/ LooksUp \/ IsAnswered \/ VerifyFails PROVE FALSE
  <2>1. pub' = pub
    BY <1>4 DEF Tick, Meta, Asks, LooksUp, IsAnswered, VerifyFails
  <2> QED BY <2>1
<1> QED BY <1>1, <1>2, <1>3, <1>4 DEF Next

\* A refusal says what section 5.2 lets it say of the envelope build made.
LEMMA RefusalStep ==
  ASSUME PublishInv, NEW p \in Publishers, NEW r \in wire, Arrives(r), r.by = p, r.e = pub[p].e,
         pub[p].state = "waiting", pub'[p].state = "refused"
  PROVE  Explained(p)
<1> DEFINE e == pub[p].e
           from == pub[p].from
           ttl == pub[p].ttl
           t == from + Skew[p]
           b == BodyOf(e)
<1>1. PICK limited \in BOOLEAN :
        LET h == HandlePut(rows, e.lookup_id, e, b, now, lim, limited)
        IN  pub' = Hears(r, IF h.status = 204 THEN [state |-> "acked"]
                            ELSE [state |-> "refused", reason |-> h.reason])
  BY DEF Arrives
<1> DEFINE stored == StoredExpiry(rows, e.lookup_id, now)
           reason == PutReason(b, TRUE, now, lim, limited, stored)
<1>2. reason # "Accepted" /\ pub'[p].reason = reason
  <2>1. RecordStatus("Accepted") = 204
    BY DEF RecordStatus
  <2> DEFINE h == HandlePut(rows, e.lookup_id, e, b, now, lim, limited)
  <2>2. h.status = RecordStatus(reason) /\ h.reason = reason
    BY DEF HandlePut
  <2>3. pub' = Hears(r, IF h.status = 204 THEN [state |-> "acked"]
                        ELSE [state |-> "refused", reason |-> h.reason])
    BY <1>1
  <2> HIDE DEF h, reason
  <2>4. pub' = [pub EXCEPT ![p] = IF h.status = 204 THEN [state |-> "acked"]
                                  ELSE [state |-> "refused", reason |-> h.reason]]
    BY <2>3 DEF Hears
  <2>5. pub'[p] = IF h.status = 204 THEN [state |-> "acked"]
                  ELSE [state |-> "refused", reason |-> h.reason]
    BY <2>4 DEF PublishInv, RunsAreAsBuilt
  <2>6. h.status # 204
    BY <2>5
  <2> QED BY <2>1, <2>2, <2>5, <2>6
<1>3. /\ ttl \in Nat /\ from \in Nat /\ Skew[p] \in Int /\ now \in Nat /\ t \in Int
      /\ e \in built /\ e.size <= MaxEnvelopeBytes
  <2>1. now \in Nat /\ Skew[p] \in Int /\ Ttls \subseteq Nat
    BY TrigcheckAssumption DEF PublishInv, LimitsAreSane
  <2>2. pub[p] \in [state : {"solving", "waiting"}, e : built, ttl : Ttls, from : 0..now]
    BY DEF PublishInv, RunsAreAsBuilt
  <2>3. e.size <= MaxEnvelopeBytes
    BY DEF PublishInv, RunsAreAsBuilt
  <2>4. ttl \in Ttls /\ from \in 0..now /\ e \in built
    BY <2>2
  <2> HIDE DEF e, ttl, from
  <2> QED BY <2>1, <2>3, <2>4
<1>4. PICK off \in Offsets, luck \in Luck : e = Envelope(p, t, Epoch(t) + off, ttl, luck, e.ct.nonce)
  BY DEF PublishInv, RunsAreAsBuilt
<1>5. /\ b \in BodyOver(RequiredMembers) /\ WellFormed(b)
      /\ b.v = Version /\ b.own /\ b.signed
      /\ b.size = SizeOf[p] /\ b.zeros = PowBits[p] + luck /\ b.expires = t + ttl
  <2>1. luck \in Nat
    BY <1>4, TrigcheckAssumption
  <2> HIDE DEF t, ttl, e
  <2> QED BY <1>3, <1>4, <2>1, BuiltBody DEF b
<1>6. /\ e.lookup_id = LookupID(WriteKey(SecretOf[p], Epoch(t) + off))
      /\ e.expires = t + ttl /\ e.size = SizeOf[p]
  <2> HIDE DEF t, ttl, e
  <2> QED BY <1>4 DEF Envelope
<1>7. lim \in Limits /\ Sane(lim, now)
  BY DEF PublishInv, LimitsAreSane
<1>8. stored \in Int /\ (t + ttl <= stored /\ t + ttl > now =>
        \E f \in built : f # e /\ f.lookup_id = e.lookup_id /\ f.expires >= e.expires /\ f.expires > now)
  <2> HIDE DEF t, ttl, e
  <2>1. CASE e.lookup_id \in Live(rows, now)
    <3> DEFINE f == rows[e.lookup_id]
    <3>1. e.lookup_id \in DOMAIN rows /\ f # NoRow /\ f.expires > now /\ stored = f.expires
      BY <2>1 DEF Live, StoredExpiry
    <3>2. f \in built /\ f.lookup_id = e.lookup_id
      BY <1>6, <3>1, OwnRows DEF PublishInv
    <3>3. f.expires \in Int
      BY <3>2 DEF PublishInv, EnvelopesAreFresh
    <3>4. f # e
      <4>1. ~InTable(r.e)
        BY DEF PublishInv, EnvelopesAreFresh
      <4> QED BY <4>1, <3>1 DEF InTable, e
    <3> HIDE DEF f, stored
    <3> QED BY <1>3, <1>6, <3>1, <3>2, <3>3, <3>4
  <2>2. CASE e.lookup_id \notin Live(rows, now)
    <3>1. stored = -Half /\ Half \in Nat
      BY <2>2, AcceptAssumption DEF StoredExpiry, NotStored
    <3> HIDE DEF stored
    <3> QED BY <1>3, <3>1
  <2> QED BY <2>1, <2>2
<1>9. reason = FirstFailure(b, now, lim, limited, stored)
  <2>1. now \in Int /\ stored \in Int
    BY <1>3, <1>8
  <2>2. b \in BodyOver(RequiredMembers) /\ limited \in BOOLEAN /\ lim \in Limits /\ Sane(lim, now)
    BY <1>5, <1>7
  <2> HIDE DEF stored, b
  <2> QED BY ONLY <2>1, <2>2, PutReasonUnfolds, Zenon DEF reason
<1>10. reason =
         IF limited THEN "RateLimited"
         ELSE IF SizeOf[p] > lim.maxRecordBytes THEN "TooLarge"
         ELSE IF t + ttl > now + lim.maxTTL + lim.skewGrace THEN "TTLTooLong"
         ELSE IF PowBits[p] + luck < lim.powBits THEN "PoWInsufficient"
         ELSE IF t + ttl <= now THEN "Expired"
         ELSE IF t + ttl <= stored THEN "NotNewer"
         ELSE "Accepted"
  <2> HIDE DEF stored, b, reason, t, ttl
  <2> QED BY <1>5, <1>9 DEF FirstFailure
<1>11. /\ lim.maxRecordBytes \in Int /\ lim.maxTTL \in Int /\ lim.skewGrace \in Nat
       /\ lim.powBits \in Int /\ SizeOf[p] \in Nat /\ PowBits[p] \in Nat /\ luck \in Nat
       /\ MaxEnvelopeBytes \in Nat
  BY <1>4, <1>7, TrigcheckAssumption DEF Limits
<1> HIDE DEF stored, b, reason
<1>12. /\ reason \in {"RateLimited", "TooLarge", "TTLTooLong", "PoWInsufficient", "Expired",
                      "NotNewer"}
       /\ reason = "TooLarge" => SizeOf[p] > lim.maxRecordBytes
       /\ reason = "TTLTooLong" => t + ttl > now + lim.maxTTL + lim.skewGrace
       /\ reason = "PoWInsufficient" => PowBits[p] + luck < lim.powBits
       /\ reason = "Expired" => t + ttl <= now
       /\ reason = "NotNewer" => t + ttl <= stored /\ ~(t + ttl <= now)
  <2> HIDE DEF t, ttl
  <2> QED BY <1>2, <1>10
<1>13. /\ reason = "TooLarge" => lim.maxRecordBytes < MaxEnvelopeBytes
       /\ reason = "TTLTooLong" => ttl + Skew[p] > lim.maxTTL + lim.skewGrace + (now - from)
       /\ reason = "PoWInsufficient" => PowBits[p] < lim.powBits
       /\ reason = "Expired" => now - from >= ttl + Skew[p]
  <2> HIDE DEF ttl, from, e
  <2> QED BY <1>3, <1>6, <1>11, <1>12
<1>14. reason = "NotNewer" =>
         \E f \in built : f # e /\ f.lookup_id = e.lookup_id /\ f.expires >= e.expires /\ f.expires > now
  BY <1>3, <1>8, <1>12
<1> QED BY <1>2, <1>12, <1>13, <1>14 DEF Explained

-----------------------------------------------------------------------------
\* No run is under way, and what the table holds is others'.
LEMMA InitPublishes == Init => PublishInv
<1> SUFFICES ASSUME Init PROVE PublishInv
  OBVIOUS
<1>1. PICK set \in Settings : lim = set.lim /\ rows = set.rows
  BY DEF Init
<1>2. now = StartTime /\ wire = {} /\ built = {} /\ pub = [p \in Publishers |-> [state |-> "idle"]]
  BY DEF Init
<1>3. StartTime \in Nat /\ MaxTime \in Nat /\ StartTime <= MaxTime
  BY TrigcheckAssumption
<1>4. LimitsAreSane
  BY <1>1, <1>2, <1>3, TrigcheckAssumption DEF LimitsAreSane
<1>5. RunsAreAsBuilt
  BY <1>2 DEF RunsAreAsBuilt
<1>6. EnvelopesAreFresh
  BY <1>2, FS_EmptySet DEF EnvelopesAreFresh
<1>7. RowsUnderTheirIds
  BY <1>1, TrigcheckAssumption DEF RowsUnderTheirIds
<1> QED BY <1>4, <1>5, <1>6, <1>7 DEF PublishInv

\* The limits stay, and the clock only advances, within its bound.
LEMMA LimitsStay ==
  ASSUME LimitsAreSane, lim' = lim, now' = now \/ (now < MaxTime /\ now' = now + 1)
  PROVE  LimitsAreSane' /\ now' \in Nat /\ now <= now'
<1>1. now' \in Nat /\ StartTime <= now' /\ now' <= MaxTime /\ now <= now'
  BY TrigcheckAssumption DEF LimitsAreSane
<1>2. lim' \in Limits /\ \A t \in StartTime..MaxTime : Sane(lim, t)
  BY DEF LimitsAreSane
<1>3. \A t \in StartTime..MaxTime : Sane(lim', t)
  BY <1>2
<1> QED BY <1>1, <1>2, <1>3 DEF LimitsAreSane

\* A run that is left alone stays as it was built, as time passes and more is built.
LEMMA RunsStay ==
  ASSUME LimitsAreSane, RunsAreAsBuilt, now' \in Nat, now <= now', built \subseteq built',
         DOMAIN pub' = Publishers,
         \A p \in Publishers :
           pub'[p] = pub[p] \/ pub'[p].state \notin {"solving", "waiting"}
  PROVE  RunsAreAsBuilt'
<1>1. ASSUME NEW p \in Publishers, pub'[p].state \in {"solving", "waiting"}
      PROVE  /\ pub'[p] \in [state : {"solving", "waiting"}, e : built', ttl : Ttls, from : 0..now']
             /\ \E off \in Offsets, luck \in Luck :
                  LET t == pub'[p].from + Skew[p]
                  IN  pub'[p].e = Envelope(p, t, Epoch(t) + off, pub'[p].ttl, luck, pub'[p].e.ct.nonce)
             /\ pub'[p].state = "waiting" => pub'[p].e.size <= MaxEnvelopeBytes
  <2>1. pub'[p] = pub[p]
    BY <1>1
  <2>2. pub[p] \in [state : {"solving", "waiting"}, e : built, ttl : Ttls, from : 0..now]
    BY <1>1, <2>1 DEF RunsAreAsBuilt
  <2>3. built \subseteq built' /\ 0..now \subseteq 0..now'
    BY DEF LimitsAreSane
  <2>4. pub[p] \in [state : {"solving", "waiting"}, e : built', ttl : Ttls, from : 0..now']
    BY <2>2, <2>3
  <2>5. /\ \E off \in Offsets, luck \in Luck :
             LET t == pub[p].from + Skew[p]
             IN  pub[p].e = Envelope(p, t, Epoch(t) + off, pub[p].ttl, luck, pub[p].e.ct.nonce)
        /\ pub[p].state = "waiting" => pub[p].e.size <= MaxEnvelopeBytes
    BY <1>1, <2>1 DEF RunsAreAsBuilt
  <2> QED BY <2>1, <2>4, <2>5
<1> QED BY <1>1, Zenon DEF RunsAreAsBuilt

\* The clock, the client's steps and a publisher that gives up move no envelope.
LEMMA FramePublishes ==
  ASSUME PublishInv, lim' = lim, now' = now \/ (now < MaxTime /\ now' = now + 1),
         UNCHANGED <<rows, wire, built>>, DOMAIN pub' = Publishers,
         \A p \in Publishers :
           pub'[p] = pub[p] \/ pub'[p].state \notin {"solving", "waiting"}
  PROVE  PublishInv'
<1>1. LimitsAreSane /\ RunsAreAsBuilt /\ EnvelopesAreFresh /\ RowsUnderTheirIds
  BY DEF PublishInv
<1>2. LimitsAreSane' /\ now' \in Nat /\ now <= now'
  BY <1>1, LimitsStay
<1>3. RunsAreAsBuilt'
  BY <1>1, <1>2, RunsStay
<1>4. EnvelopesAreFresh'
  BY <1>1 DEF EnvelopesAreFresh, InTable
<1>5. RowsUnderTheirIds'
  BY <1>1 DEF RowsUnderTheirIds
<1> QED BY <1>2, <1>3, <1>4, <1>5 DEF PublishInv

\* build: the nonce is one no envelope has, so the envelope is nowhere else yet.
LEMMA BuildPublishes ==
  ASSUME IInv, PublishInv, NEW p \in Publishers, Build(p)
  PROVE  PublishInv'
<1>1. PICK ttl \in Ttls, off \in Offsets, luck \in Luck :
        LET t == now + Skew[p]
            e == Envelope(p, t, Epoch(t) + off, ttl, luck, Cardinality(built))
        IN  /\ pub' = [pub EXCEPT ![p] = [state |-> "solving", e |-> e, ttl |-> ttl, from |-> now]]
            /\ built' = built \cup {e}
  BY DEF Build
<1> DEFINE t == now + Skew[p]
           e == Envelope(p, t, Epoch(t) + off, ttl, luck, Cardinality(built))
           run == [state |-> "solving", e |-> e, ttl |-> ttl, from |-> now]
<1>2. /\ LimitsAreSane /\ RunsAreAsBuilt /\ EnvelopesAreFresh /\ RowsUnderTheirIds
      /\ SentIsBuilt
  BY DEF PublishInv, IInv
<1>3. ttl \in Nat /\ Skew[p] \in Int /\ now \in Nat /\ t \in Int
  <2>1. Ttls \subseteq Nat /\ Skew[p] \in Int
    BY TrigcheckAssumption
  <2>2. now \in Nat
    BY <1>2 DEF LimitsAreSane
  <2>3. ttl \in Nat
    BY <2>1
  <2> QED BY <2>1, <2>2, <2>3
<1>4. /\ e.ct.nonce = Cardinality(built) /\ e.expires = t + ttl
      /\ e.lookup_id = LookupID(WriteKey(SecretOf[p], Epoch(t) + off))
  BY DEF Envelope
<1>5. IsFiniteSet(built) /\ Cardinality(built) \in Nat
  BY <1>2, FS_CardinalityType DEF EnvelopesAreFresh
<1>6. e \notin built
  <2> SUFFICES ASSUME e \in built PROVE FALSE
    OBVIOUS
  <2>1. e.ct.nonce < Cardinality(built)
    BY <1>2 DEF EnvelopesAreFresh
  <2> HIDE DEF e
  <2> QED BY <1>4, <1>5, <2>1
<1>7. pub' = [pub EXCEPT ![p] = run] /\ built' = built \cup {e} /\ DOMAIN pub = Publishers
  BY <1>1, <1>2 DEF RunsAreAsBuilt
<1>8. UNCHANGED <<now, lim, rows, wire>>
  BY DEF Build
<1>9. e = Envelope(p, t, Epoch(t) + off, ttl, luck, e.ct.nonce)
  BY <1>4, Zenon
<1>10. e.expires \in Int
  <2> HIDE DEF e, t
  <2> QED BY <1>3, <1>4
<1> HIDE DEF e
<1>11. /\ DOMAIN pub' = Publishers /\ pub'[p] = run
       /\ \A q \in Publishers : q # p => pub'[q] = pub[q]
  BY <1>7
<1>12. LimitsAreSane'
  <2>1. LimitsAreSane /\ lim' = lim
    BY <1>2, <1>8
  <2>2. now' = now \/ (now < MaxTime /\ now' = now + 1)
    BY <1>8
  <2> QED BY <2>1, <2>2, LimitsStay
<1>13. RunsAreAsBuilt'
  <2>1. run \in [state : {"solving", "waiting"}, e : built', ttl : Ttls, from : 0..now']
    BY <1>3, <1>7, <1>8
  <2>2. run.state = "solving" /\ run.e = e /\ run.ttl = ttl /\ run.from = now
    OBVIOUS
  <2>3. \E o \in Offsets, l \in Luck :
          LET tt == run.from + Skew[p]
          IN  run.e = Envelope(p, tt, Epoch(tt) + o, run.ttl, l, run.e.ct.nonce)
    <3>1. run.e = Envelope(p, run.from + Skew[p], Epoch(run.from + Skew[p]) + off, run.ttl, luck,
                           run.e.ct.nonce)
      BY <1>9, <2>2
    <3> QED BY <3>1, Zenon
  <2>4. ASSUME NEW q \in Publishers, q # p, pub'[q].state \in {"solving", "waiting"}
        PROVE  /\ pub'[q] \in [state : {"solving", "waiting"}, e : built', ttl : Ttls, from : 0..now']
               /\ \E o \in Offsets, l \in Luck :
                    LET tt == pub'[q].from + Skew[q]
                    IN  pub'[q].e = Envelope(q, tt, Epoch(tt) + o, pub'[q].ttl, l, pub'[q].e.ct.nonce)
               /\ pub'[q].state = "waiting" => pub'[q].e.size <= MaxEnvelopeBytes
    <3>1. pub'[q] = pub[q]
      BY <1>11, <2>4
    <3>2. pub[q] \in [state : {"solving", "waiting"}, e : built, ttl : Ttls, from : 0..now]
      BY <1>2, <2>4, <3>1 DEF RunsAreAsBuilt
    <3>3. pub[q] \in [state : {"solving", "waiting"}, e : built', ttl : Ttls, from : 0..now']
      BY <1>7, <1>8, <3>2
    <3>4. /\ \E o \in Offsets, l \in Luck :
               LET tt == pub[q].from + Skew[q]
               IN  pub[q].e = Envelope(q, tt, Epoch(tt) + o, pub[q].ttl, l, pub[q].e.ct.nonce)
          /\ pub[q].state = "waiting" => pub[q].e.size <= MaxEnvelopeBytes
      BY <1>2, <2>4, <3>1 DEF RunsAreAsBuilt
    <3> QED BY <3>1, <3>3, <3>4
  <2>5. ASSUME NEW q \in Publishers, q = p
        PROVE  /\ pub'[q] \in [state : {"solving", "waiting"}, e : built', ttl : Ttls, from : 0..now']
               /\ \E o \in Offsets, l \in Luck :
                    LET tt == pub'[q].from + Skew[q]
                    IN  pub'[q].e = Envelope(q, tt, Epoch(tt) + o, pub'[q].ttl, l, pub'[q].e.ct.nonce)
               /\ pub'[q].state = "waiting" => pub'[q].e.size <= MaxEnvelopeBytes
    <3>1. pub'[p] = run /\ run.state # "waiting"
      BY <1>11
    <3> HIDE DEF run
    <3> QED BY <2>1, <2>3, <2>5, <3>1
  <2> QED BY <1>11, <2>4, <2>5, Zenon DEF RunsAreAsBuilt
<1>14. EnvelopesAreFresh'
  <2>1. IsFiniteSet(built') /\ Cardinality(built') = Cardinality(built) + 1
    BY <1>5, <1>6, <1>7, FS_AddElement
  <2>2. \A f \in built' : f.expires \in Int /\ f.ct.nonce \in Nat /\ f.ct.nonce < Cardinality(built')
    <3>1. \A f \in built : f.expires \in Int /\ f.ct.nonce \in Nat /\ f.ct.nonce < Cardinality(built)
      BY <1>2 DEF EnvelopesAreFresh
    <3> QED BY <1>4, <1>5, <1>7, <1>10, <2>1, <3>1
  <2>3. /\ \A q \in Publishers : pub[q].state = "solving" => pub[q].e # e
        /\ \A r \in wire : r.e # e
    BY <1>2, <1>6 DEF SentIsBuilt
  <2>4. run.e = e
    OBVIOUS
  <2> HIDE DEF run
  <2>5. \A q, o \in Publishers :
          pub'[q].state = "solving" /\ pub'[o].state = "solving" /\ pub'[q].e = pub'[o].e => q = o
    BY <1>2, <1>11, <2>3, <2>4 DEF EnvelopesAreFresh
  <2>6. ~InTable(e)
    BY <1>2, <1>4, <1>6, OwnRows DEF InTable
  <2>7. \A q \in Publishers : pub'[q].state = "solving" =>
          ~InTable(pub'[q].e) /\ \A r \in wire : r.e # pub'[q].e
    BY <1>2, <1>11, <2>3, <2>4, <2>6 DEF EnvelopesAreFresh
  <2>8. \A r \in wire : ~InTable(r.e) /\ \A s \in wire : r.e = s.e => r = s
    BY <1>2 DEF EnvelopesAreFresh
  <2> QED BY <1>8, <2>1, <2>2, <2>5, <2>7, <2>8 DEF EnvelopesAreFresh, InTable
<1>15. RowsUnderTheirIds'
  BY <1>2, <1>7, <1>8 DEF RowsUnderTheirIds
<1> QED BY <1>12, <1>13, <1>14, <1>15 DEF PublishInv

\* The envelope goes from its publisher to the wire, and only one under the cap.
LEMMA SolvedPublishes ==
  ASSUME IInv, PublishInv, NEW p \in Publishers, Solved(p)
  PROVE  PublishInv'
<1> DEFINE e == pub[p].e
           sent == [by |-> p, e |-> e]
<1>1. /\ LimitsAreSane /\ RunsAreAsBuilt /\ EnvelopesAreFresh /\ RowsUnderTheirIds
      /\ DOMAIN pub = Publishers
  BY DEF PublishInv, RunsAreAsBuilt
<1>2. UNCHANGED <<now, lim, rows, built>> /\ pub[p].state = "solving"
  BY DEF Solved
<1>3. CASE pub' = [pub EXCEPT ![p] = [state |-> "failed"]] /\ wire' = wire
  <2>1. DOMAIN pub' = Publishers
    BY <1>1, <1>3
  <2>2. \A q \in Publishers : pub'[q] = pub[q] \/ pub'[q].state \notin {"solving", "waiting"}
    BY <1>1, <1>3
  <2> QED BY <1>2, <1>3, <2>1, <2>2, FramePublishes
<1>4. CASE /\ e.size <= MaxEnvelopeBytes
           /\ pub' = [pub EXCEPT ![p].state = "waiting"]
           /\ wire' = wire \cup {sent}
  <2>1. /\ DOMAIN pub' = Publishers
        /\ \A q \in Publishers : q # p => pub'[q] = pub[q]
        /\ pub'[p] = [pub[p] EXCEPT !.state = "waiting"]
    BY <1>1, <1>4
  <2>2. pub[p] \in [state : {"solving", "waiting"}, e : built, ttl : Ttls, from : 0..now]
    BY <1>1, <1>2 DEF RunsAreAsBuilt
  <2>3. /\ pub'[p] \in [state : {"solving", "waiting"}, e : built, ttl : Ttls, from : 0..now]
        /\ pub'[p].state = "waiting" /\ pub'[p].e = e
        /\ pub'[p].ttl = pub[p].ttl /\ pub'[p].from = pub[p].from
    BY <2>1, <2>2
  <2>4. \A q \in Publishers :
          /\ pub'[q].state = "solving" => q # p /\ pub'[q] = pub[q]
    BY <2>1, <2>3
  <2>5. LimitsAreSane'
    BY <1>1, <1>2 DEF LimitsAreSane
  <2>6. RunsAreAsBuilt'
    <3> DEFINE Good(r, q) ==
                 /\ r \in [state : {"solving", "waiting"}, e : built, ttl : Ttls, from : 0..now]
                 /\ \E off \in Offsets, luck \in Luck :
                      LET t == r.from + Skew[q]
                      IN  r.e = Envelope(q, t, Epoch(t) + off, r.ttl, luck, r.e.ct.nonce)
                 /\ r.state = "waiting" => r.e.size <= MaxEnvelopeBytes
    <3>1. \A q \in Publishers : pub[q].state \in {"solving", "waiting"} => Good(pub[q], q)
      BY <1>1, Zenon DEF RunsAreAsBuilt
    <3>2. Good(pub[p], p)
      BY <1>2, <3>1
    <3>3. Good(pub'[p], p)
      <4>1. PICK off \in Offsets, luck \in Luck :
              LET t == pub[p].from + Skew[p]
              IN  e = Envelope(p, t, Epoch(t) + off, pub[p].ttl, luck, e.ct.nonce)
        BY <3>2
      <4>2. LET t == pub'[p].from + Skew[p]
            IN  pub'[p].e = Envelope(p, t, Epoch(t) + off, pub'[p].ttl, luck, pub'[p].e.ct.nonce)
        BY <2>3, <4>1
      <4> QED BY <1>4, <2>3, <4>2
    <3>4. \A q \in Publishers : pub'[q].state \in {"solving", "waiting"} => Good(pub'[q], q)
      <4> HIDE DEF Good
      <4> QED BY <2>1, <3>1, <3>3
    <3> QED BY <1>2, <2>1, <3>4, Zenon DEF RunsAreAsBuilt
  <2>7. EnvelopesAreFresh'
    <3>1. \A q, o \in Publishers :
            pub'[q].state = "solving" /\ pub'[o].state = "solving" /\ pub'[q].e = pub'[o].e => q = o
      BY <1>1, <2>4 DEF EnvelopesAreFresh
    <3>2. \A q \in Publishers : pub'[q].state = "solving" => pub'[q].e # e
      BY <1>1, <1>2, <2>4 DEF EnvelopesAreFresh
    <3>3. sent.e = e /\ ~InTable(e) /\ \A r \in wire : r.e # e
      BY <1>1, <1>2 DEF EnvelopesAreFresh
    <3> HIDE DEF sent, e
    <3>4. \A q \in Publishers : pub'[q].state = "solving" =>
            ~InTable(pub'[q].e) /\ \A r \in wire' : r.e # pub'[q].e
      BY <1>1, <1>4, <2>4, <3>2, <3>3 DEF EnvelopesAreFresh
    <3>5. \A r \in wire' : ~InTable(r.e) /\ \A s \in wire' : r.e = s.e => r = s
      BY <1>1, <1>4, <3>3 DEF EnvelopesAreFresh
    <3>6. /\ IsFiniteSet(built)
          /\ \A f \in built : f.expires \in Int /\ f.ct.nonce \in Nat /\ f.ct.nonce < Cardinality(built)
      BY <1>1 DEF EnvelopesAreFresh
    <3> QED BY <1>2, <3>1, <3>4, <3>5, <3>6 DEF EnvelopesAreFresh, InTable
  <2>8. RowsUnderTheirIds'
    BY <1>1, <1>2 DEF RowsUnderTheirIds
  <2> QED BY <2>5, <2>6, <2>7, <2>8 DEF PublishInv
<1> QED BY <1>3, <1>4 DEF Solved

\* A PUT that has arrived, or is lost, is off the wire; its envelope may be in
\* the table, under its own lookup_id, and nowhere else.
LEMMA HeardPublishes ==
  ASSUME IInv, PublishInv, NEW r \in wire, wire' = wire \ {r},
         rows' = rows \/ rows' = [rows EXCEPT ![r.e.lookup_id] = r.e],
         NEW answer, answer.state \notin {"solving", "waiting"}, pub' = Hears(r, answer),
         UNCHANGED <<now, lim, built>>
  PROVE  PublishInv'
<1>1. /\ LimitsAreSane /\ RunsAreAsBuilt /\ EnvelopesAreFresh /\ RowsUnderTheirIds
      /\ DOMAIN pub = Publishers /\ r.e \in built
  BY DEF PublishInv, RunsAreAsBuilt, IInv, SentIsBuilt
<1>2. /\ DOMAIN pub' = Publishers
      /\ \A q \in Publishers : pub'[q] = pub[q] \/ pub'[q].state \notin {"solving", "waiting"}
  BY <1>1 DEF Hears
<1>3. LimitsAreSane'
  BY <1>1 DEF LimitsAreSane
<1>4. RunsAreAsBuilt'
  <2>1. now' \in Nat /\ now <= now' /\ built \subseteq built'
    BY <1>1 DEF LimitsAreSane
  <2> QED BY <1>1, <1>2, <2>1, RunsStay
<1>5. \A k \in DOMAIN rows' : k \in DOMAIN rows /\ (rows'[k] = rows[k] \/ (k = r.e.lookup_id /\ rows'[k] = r.e))
  OBVIOUS
<1>6. ASSUME NEW f, f # r.e, ~InTable(f)
      PROVE  ~(f.lookup_id \in DOMAIN rows' /\ rows'[f.lookup_id] # NoRow /\ rows'[f.lookup_id] = f)
  BY <1>5, <1>6 DEF InTable
<1>7. EnvelopesAreFresh'
  <2>1. \A q \in Publishers : pub'[q].state = "solving" => pub'[q] = pub[q] /\ pub[q].state = "solving"
    BY <1>2
  <2>2. \A q, o \in Publishers :
          pub'[q].state = "solving" /\ pub'[o].state = "solving" /\ pub'[q].e = pub'[o].e => q = o
    BY <1>1, <2>1 DEF EnvelopesAreFresh
  <2>3. \A q \in Publishers : pub'[q].state = "solving" =>
          ~InTable(pub'[q].e) /\ pub'[q].e # r.e /\ \A s \in wire' : s.e # pub'[q].e
    BY <1>1, <2>1 DEF EnvelopesAreFresh
  <2>4. \A s \in wire' : ~InTable(s.e) /\ s.e # r.e /\ \A w \in wire' : s.e = w.e => s = w
    BY <1>1 DEF EnvelopesAreFresh
  <2>5. /\ IsFiniteSet(built)
        /\ \A f \in built : f.expires \in Int /\ f.ct.nonce \in Nat /\ f.ct.nonce < Cardinality(built)
    BY <1>1 DEF EnvelopesAreFresh
  <2>6. \A q \in Publishers : pub'[q].state = "solving" => ~InTable(pub[q].e)'
    BY <1>6, <2>1, <2>3 DEF InTable
  <2>7. \A s \in wire' :
          ~(s.e.lookup_id \in DOMAIN rows' /\ rows'[s.e.lookup_id] # NoRow /\ rows'[s.e.lookup_id] = s.e)
    BY <1>6, <2>4
  <2> QED BY <2>2, <2>3, <2>4, <2>5, <2>6, <2>7 DEF EnvelopesAreFresh, InTable
<1>8. RowsUnderTheirIds'
  BY <1>1, <1>5 DEF RowsUnderTheirIds
<1> QED BY <1>3, <1>4, <1>7, <1>8 DEF PublishInv

\* One case per action.
LEMMA NextPublishes == IInv /\ PublishInv /\ [Next]_vars => PublishInv'
<1> SUFFICES ASSUME IInv, PublishInv, [Next]_vars PROVE PublishInv'
  OBVIOUS
<1>1. DOMAIN pub = Publishers
  BY DEF PublishInv, RunsAreAsBuilt
<1>2. ASSUME NEW p \in Publishers, Build(p) PROVE PublishInv'
  BY <1>2, BuildPublishes
<1>3. ASSUME NEW p \in Publishers, Solved(p) PROVE PublishInv'
  BY <1>3, SolvedPublishes
<1>4. ASSUME NEW p \in Publishers, GivesUp(p) PROVE PublishInv'
  <2>1. /\ DOMAIN pub' = Publishers /\ UNCHANGED <<now, lim, rows, wire, built>>
        /\ \A q \in Publishers : pub'[q] = pub[q] \/ pub'[q].state \notin {"solving", "waiting"}
    BY <1>1, <1>4 DEF GivesUp
  <2> QED BY <2>1, FramePublishes
<1>5. ASSUME NEW r \in wire, Arrives(r) PROVE PublishInv'
  <2>1. PICK limited \in BOOLEAN :
          LET h == HandlePut(rows, r.e.lookup_id, r.e, BodyOf(r.e), now, lim, limited)
          IN  /\ rows' = h.rows
              /\ pub' = Hears(r, IF h.status = 204 THEN [state |-> "acked"]
                                 ELSE [state |-> "refused", reason |-> h.reason])
    BY <1>5 DEF Arrives
  <2> DEFINE h == HandlePut(rows, r.e.lookup_id, r.e, BodyOf(r.e), now, lim, limited)
             answer == IF h.status = 204 THEN [state |-> "acked"]
                       ELSE [state |-> "refused", reason |-> h.reason]
  <2>2. h.rows = rows \/ h.rows = [rows EXCEPT ![r.e.lookup_id] = r.e]
    BY DEF HandlePut
  <2>3. rows' = h.rows /\ pub' = Hears(r, answer)
    BY <2>1, Zenon
  <2>4. answer.state \notin {"solving", "waiting"}
    <3> HIDE DEF h
    <3> QED OBVIOUS
  <2>5. wire' = wire \ {r} /\ UNCHANGED <<now, lim, built>>
    BY <1>5 DEF Arrives
  <2> HIDE DEF answer, h
  <2>6. rows' = rows \/ rows' = [rows EXCEPT ![r.e.lookup_id] = r.e]
    BY <2>2, <2>3
  <2> QED BY <2>3, <2>4, <2>5, <2>6, HeardPublishes
<1>6. ASSUME NEW r \in wire, PutLost(r) PROVE PublishInv'
  <2> DEFINE after == HandlePut(rows, r.e.lookup_id, r.e, BodyOf(r.e), now, lim, FALSE).rows
             answer == [state |-> "failed"]
  <2>1. after = rows \/ after = [rows EXCEPT ![r.e.lookup_id] = r.e]
    BY DEF HandlePut
  <2>2. /\ rows' \in {rows, after} /\ pub' = Hears(r, answer)
        /\ wire' = wire \ {r} /\ UNCHANGED <<now, lim, built>>
    BY <1>6 DEF PutLost
  <2> HIDE DEF after
  <2>3. rows' = rows \/ rows' = [rows EXCEPT ![r.e.lookup_id] = r.e]
    BY <2>1, <2>2
  <2>4. answer.state \notin {"solving", "waiting"}
    OBVIOUS
  <2> HIDE DEF answer
  <2> QED BY <2>2, <2>3, <2>4, HeardPublishes
<1>7. ASSUME Tick \/ Meta \/ Asks \/ LooksUp \/ IsAnswered \/ VerifyFails \/ UNCHANGED vars
      PROVE  PublishInv'
  <2>1. UNCHANGED <<lim, rows, wire, built, pub>>
    BY <1>7 DEF Tick, Meta, Asks, LooksUp, IsAnswered, VerifyFails, vars
  <2>2. now' = now \/ (now < MaxTime /\ now' = now + 1)
    BY <1>7 DEF Tick, Meta, Asks, LooksUp, IsAnswered, VerifyFails, vars
  <2> QED BY <1>1, <2>1, <2>2, FramePublishes
<1> QED BY <1>2, <1>3, <1>4, <1>5, <1>6, <1>7 DEF Next

\* What is under way is as build made it, in one place, and told apart by its nonce.
THEOREM PublishInvariant == Spec => []PublishInv
<1> QED BY InitEstablishes, NextPreserves, InitPublishes, NextPublishes, PTL DEF Spec

\* A publish is refused only for a reason in its own configuration, the clocks or
\* the table, and what build makes is never malformed (runPublish, handlePutRecord).
THEOREM RefusalsAreExplained == Spec => RefusalIsExplained
<1>1. PublishInv /\ [Next]_vars =>
        [\A p \in Publishers :
           pub[p].state = "waiting" /\ pub'[p].state = "refused" => Explained(p)]_vars
  <2> SUFFICES ASSUME PublishInv, Next, NEW p \in Publishers,
                      pub[p].state = "waiting", pub'[p].state = "refused"
               PROVE  Explained(p)
    OBVIOUS
  <2>1. PICK r \in wire : Arrives(r) /\ r.by = p /\ r.e = pub[p].e
    BY RefusedByItsPut
  <2> QED BY <2>1, RefusalStep
<1> QED BY <1>1, PublishInvariant, PTL DEF Spec, RefusalIsExplained

-----------------------------------------------------------------------------
(***************************************************************************)
(* Why a check ends as it does.                                            *)
(***************************************************************************)

\* What build makes: sealed and signed under its publisher's keys of one epoch,
\* and under the lookup_id of that epoch.
LEMMA BuildableIs ==
  ASSUME NEW e \in Buildable
  PROVE  /\ e # NoRow /\ e.expires \in Int /\ Verify(e) /\ e.lookup_id \in DOMAIN IdOf
         /\ \E p \in Publishers, ep \in {e.wk_pub[3]} :
              /\ e.lookup_id = LookupID(WriteKey(SecretOf[p], ep))
              /\ e.ct.key = RecordKey(SecretOf[p], ep)
<1>1. e # NoRow /\ e.lookup_id \in DOMAIN IdOf
  BY LookupAssumption
<1>2. PICK p \in Publishers, t \in StartTime..MaxTime, off \in Offsets, ttl \in Ttls,
           luck \in Luck, nonce \in 0..(MaxRuns - 1) :
        e = Envelope(p, t + Skew[p], Epoch(t + Skew[p]) + off, ttl, luck, nonce)
  BY DEF Buildable
<1> DEFINE u == t + Skew[p]
           ep == Epoch(u) + off
           wk == WriteKey(SecretOf[p], ep)
<1>3. u \in Int /\ ttl \in Int
  BY TrigcheckAssumption
<1> HIDE DEF u, ep
<1>4. e = Envelope(p, u, ep, ttl, luck, nonce)
  BY <1>2 DEF u, ep
<1>5. /\ e.lookup_id = LookupID(wk) /\ e.wk_pub = wk /\ e.expires = u + ttl
      /\ e.ct.key = RecordKey(SecretOf[p], ep)
      /\ e.sig = Sign(wk, LookupID(wk), u + ttl, e.ct)
  BY <1>4 DEF Envelope
<1>6. Verify(e)
  BY <1>5 DEF Verify, Sign
<1>7. wk[3] = ep
  BY DEF WriteKey
<1> QED BY <1>1, <1>3, <1>5, <1>6, <1>7

\* What is built opens under the client's key for an epoch exactly if it stands
\* under the client's lookup_id for it.
LEMMA OpensUnderItsId ==
  ASSUME NEW e \in Buildable, NEW ep
  PROVE  e.ct.key = ClientKey(ep) <=> e.lookup_id = LookupID(WriteKey(ClientSecret, ep))
<1>1. PICK p \in Publishers, f \in {e.wk_pub[3]} :
        /\ e.lookup_id = LookupID(WriteKey(SecretOf[p], f))
        /\ e.ct.key = RecordKey(SecretOf[p], f)
  BY BuildableIs
<1>2. RecordKey(SecretOf[p], f) = RecordKey(ClientSecret, ep) <=> SecretOf[p] = ClientSecret /\ f = ep
  BY DEF RecordKey
<1>3. LookupID(WriteKey(SecretOf[p], f)) = LookupID(WriteKey(ClientSecret, ep))
        <=> SecretOf[p] = ClientSecret /\ f = ep
  BY DEF LookupID, WriteKey
<1> QED BY <1>1, <1>2, <1>3 DEF ClientKey

\* What the directory makes of a PUT of e under k.
Put(k, e, limited) == HandlePut(rows, k, e, BodyOf(e), now, lim, limited)

StoresTheNewer(k, e, limited) ==
  \/ Put(k, e, limited).rows = rows /\ Put(k, e, limited).status # 204
  \/ /\ Put(k, e, limited).rows = [rows EXCEPT ![k] = e] /\ Put(k, e, limited).status = 204
     /\ ~(e.expires <= StoredExpiry(rows, k, now))

\* A PUT answered with 204 was stored, over nothing that expires as late; any
\* other left the table as it was.
LEMMA PutStoresTheNewer == \A k, e, limited : StoresTheNewer(k, e, limited)
<1> SUFFICES ASSUME NEW k, NEW e, NEW limited PROVE StoresTheNewer(k, e, limited)
  OBVIOUS
<1> DEFINE b == BodyOf(e)
           stored == StoredExpiry(rows, k, now)
           reason == PutReason(b, TRUE, now, lim, limited, stored)
           h == Put(k, e, limited)
           Others == {"RateLimited", "TooLarge", "Malformed", "BadVersion", "TTLTooLong",
                      "LookupMismatch", "PoWInsufficient", "SigInvalid", "Expired", "NotNewer"}
<1>1. b.expires = e.expires
  BY DEF BodyOf
<1>2. /\ h.status = RecordStatus(reason)
      /\ h.rows = IF reason = "Accepted" THEN [rows EXCEPT ![k] = e] ELSE rows
  BY DEF Put, HandlePut
<1> HIDE DEF h, b, stored
<1>3. reason = "Accepted" => ~(e.expires <= stored)
  BY <1>1 DEF PutReason
<1>4. reason \in {"Accepted"} \cup Others
  <2> DEFINE checked == Check(ReadLimited(b, Wrap(lim.maxRecordBytes + 1)), now, lim, FALSE)
  <2>1. checked \in {"Accepted"} \cup Others
    BY DEF Check
  <2>2. reason \in {checked, "RateLimited", "NotNewer"}
    BY Zenon DEF PutReason
  <2> HIDE DEF checked, reason
  <2> QED BY <2>1, <2>2
<1> HIDE DEF reason
<1>5. RecordStatus("Accepted") = 204 /\ \A r \in Others : RecordStatus(r) # 204
  BY DEF RecordStatus
<1>6. CASE reason = "Accepted"
  BY <1>2, <1>3, <1>5, <1>6 DEF StoresTheNewer, h, b, stored
<1>7. CASE reason \in Others
  <2>1. reason # "Accepted" BY <1>7
  <2> QED BY <1>2, <1>5, <1>7, <2>1 DEF StoresTheNewer, h, b
<1> QED BY <1>4, <1>6, <1>7


\* Nothing is built or acknowledged, and the records there are others'.
LEMMA InitReaches == Init => VerdictInv
<1> SUFFICES ASSUME Init PROVE VerdictInv
  OBVIOUS
<1>1. PICK set \in Settings : rows = set.rows
  BY DEF Init
<1>2. built = {} /\ acked = {} /\ ver.state = "idle"
  BY DEF Init
<1>3. BuiltIsBuildable
  BY <1>1, <1>2, LookupAssumption DEF BuiltIsBuildable
<1>4. RowsAreInPlace
  BY <1>1, LookupAssumption, TrigcheckAssumption DEF RowsAreInPlace
<1> QED BY <1>2, <1>3, <1>4 DEF VerdictInv, AckedIsKept, CheckIsSized

\* A step of the clock, or of the checker, keeps what is about the table.
LEMMA TableStands ==
  ASSUME LimitsAreSane, BuiltIsBuildable, RowsAreInPlace, AckedIsKept,
         now' = now \/ now' = now + 1, UNCHANGED <<rows, built, acked>>
  PROVE  BuiltIsBuildable' /\ RowsAreInPlace' /\ AckedIsKept'
<1>1. BuiltIsBuildable' /\ RowsAreInPlace'
  BY DEF BuiltIsBuildable, RowsAreInPlace
<1>2. AckedIsKept'
  <2> SUFFICES ASSUME NEW a \in acked
               PROVE  /\ a \in built
                      /\ a.expires > now' => /\ rows[a.lookup_id] # NoRow
                                             /\ rows[a.lookup_id].expires >= a.expires
    BY DEF AckedIsKept
  <2>1. a \in built /\ a \in Buildable
    BY DEF AckedIsKept, BuiltIsBuildable
  <2>2. a.expires \in Int /\ now \in Nat
    BY <2>1, BuildableIs DEF LimitsAreSane
  <2>3. a.expires > now' => a.expires > now
    BY <2>2
  <2> QED BY <2>1, <2>3 DEF AckedIsKept
<1> QED BY <1>1, <1>2

\* build makes what can be made.
LEMMA BuildReaches ==
  ASSUME PublishInv, VerdictInv, NEW p \in Publishers, Build(p)
  PROVE  VerdictInv'
<1>1. PICK ttl \in Ttls, off \in Offsets, luck \in Luck :
        built' = built \cup {Envelope(p, now + Skew[p], Epoch(now + Skew[p]) + off, ttl, luck,
                                      Cardinality(built))}
  BY DEF Build
<1>2. now \in StartTime..MaxTime
  BY TrigcheckAssumption DEF PublishInv, LimitsAreSane
<1>3. Cardinality(built) \in 0..(MaxRuns - 1)
  <2>1. Cardinality(built) \in Nat
    BY FS_CardinalityType DEF PublishInv, EnvelopesAreFresh
  <2> QED BY <2>1, TrigcheckAssumption DEF Build
<1> DEFINE e == Envelope(p, now + Skew[p], Epoch(now + Skew[p]) + off, ttl, luck,
                         Cardinality(built))
<1>4. e \in Buildable
  BY <1>2, <1>3 DEF Buildable
<1>5. built' = built \cup {e} /\ UNCHANGED <<now, honest, rows, acked, ver>>
  BY <1>1 DEF Build
<1> HIDE DEF e
<1>6. BuiltIsBuildable'
  BY <1>4, <1>5 DEF VerdictInv, BuiltIsBuildable
<1>7. RowsAreInPlace'
  BY <1>5 DEF VerdictInv, RowsAreInPlace
<1>8. AckedIsKept'
  BY <1>5 DEF VerdictInv, AckedIsKept
<1>9. CheckIsSized'
  BY <1>5 DEF VerdictInv, CheckIsSized
<1> QED BY <1>6, <1>7, <1>8, <1>9 DEF VerdictInv

\* A PUT displaces nothing that expires as late, and what is acknowledged is stored.
LEMMA PutReaches ==
  ASSUME IInv, PublishInv, VerdictInv, NEW r \in wire,
         \/ rows' = rows /\ acked' = acked
         \/ /\ rows' = [rows EXCEPT ![r.e.lookup_id] = r.e]
            /\ ~(r.e.expires <= StoredExpiry(rows, r.e.lookup_id, now))
            /\ acked' = acked \/ acked' = acked \cup {r.e},
         UNCHANGED <<now, lim, honest, built, ver>>
  PROVE  VerdictInv'
<1> DEFINE e == r.e
           k == e.lookup_id
<1>1. e \in built /\ e \in Buildable /\ built \subseteq Buildable /\ DOMAIN rows = DOMAIN IdOf
  BY DEF IInv, SentIsBuilt, VerdictInv, BuiltIsBuildable
<1> HIDE DEF e
<1>2. /\ LimitsAreSane /\ BuiltIsBuildable /\ RowsAreInPlace /\ AckedIsKept /\ CheckIsSized
      /\ now \in Nat
  BY DEF PublishInv, VerdictInv, LimitsAreSane
<1>3. CheckIsSized'
  BY <1>2 DEF CheckIsSized
<1>4. CASE rows' = rows /\ acked' = acked
  <2>1. BuiltIsBuildable' /\ RowsAreInPlace' /\ AckedIsKept'
    BY <1>2, <1>4, TableStands
  <2> QED BY <1>3, <2>1 DEF VerdictInv
<1>5. CASE /\ rows' = [rows EXCEPT ![k] = e] /\ ~(e.expires <= StoredExpiry(rows, k, now))
           /\ acked' = acked \/ acked' = acked \cup {e}
  <2>1. e # NoRow /\ e.expires \in Int /\ k \in DOMAIN rows
    BY <1>1, BuildableIs
  <2>2. DOMAIN rows' = DOMAIN rows /\ rows'[k] = e
        /\ \A j \in DOMAIN rows : j # k => rows'[j] = rows[j]
    BY <1>5, <2>1
  <2>3. BuiltIsBuildable'
    BY <1>2, <2>2 DEF BuiltIsBuildable
  <2>4. RowsAreInPlace'
    BY <1>1, <1>2, <2>1, <2>2 DEF RowsAreInPlace
  <2>5. ASSUME NEW a \in acked, a.expires > now
        PROVE  rows'[a.lookup_id] # NoRow /\ rows'[a.lookup_id].expires >= a.expires
    <3>1. a \in built /\ a \in Buildable
          /\ rows[a.lookup_id] # NoRow /\ rows[a.lookup_id].expires >= a.expires
      BY <1>1, <1>2, <2>5 DEF AckedIsKept
    <3>2. a.expires \in Int /\ a.lookup_id \in DOMAIN rows
      BY <1>1, <3>1, BuildableIs
    <3>3. CASE a.lookup_id # k
      BY <2>2, <3>1, <3>2, <3>3
    <3>4. CASE a.lookup_id = k
      <4>1. rows[k].expires \in Int
        BY <1>2, <3>1, <3>2, <3>4 DEF RowsAreInPlace
      <4>2. k \in Live(rows, now)
        BY <1>2, <2>1, <2>5, <3>1, <3>2, <3>4, <4>1 DEF Live
      <4>3. StoredExpiry(rows, k, now) = rows[k].expires
        BY <4>2 DEF StoredExpiry
      <4> QED BY <1>5, <2>1, <2>2, <3>1, <3>2, <3>4, <4>1, <4>3
    <3> QED BY <3>3, <3>4
  <2>6. AckedIsKept'
    <3>1. e.expires >= e.expires
      BY <2>1
    <3>2. \A a \in acked : a \in built
      BY <1>2 DEF AckedIsKept
    <3> QED BY <1>1, <1>5, <2>1, <2>2, <2>5, <3>1, <3>2 DEF AckedIsKept
  <2> QED BY <1>3, <2>3, <2>4, <2>6 DEF VerdictInv
<1> QED BY <1>4, <1>5 DEF e

\* The count a client is told is no more than the table holds, and it asks for
\* the bits and the epoch its clock and that count give.
LEMMA MetaReaches ==
  ASSUME PublishInv, VerdictInv, Meta
  PROVE  CheckIsSized'
<1> SUFFICES ASSUME honest PROVE ver'.count \in 0..Cardinality(DOMAIN IdOf)
  BY DEF Meta, CheckIsSized
<1>1. ver'.count = Understated(RowCount(rows, now))
  BY DEF Meta, HandleMeta
<1>2. IsFiniteSet(DOMAIN rows) /\ DOMAIN rows = DOMAIN IdOf /\ Live(rows, now) \subseteq DOMAIN rows
  BY LookupAssumption DEF VerdictInv, BuiltIsBuildable, Live
<1>3. /\ RowCount(rows, now) \in Nat /\ RowCount(rows, now) <= Cardinality(DOMAIN IdOf)
      /\ Cardinality(DOMAIN IdOf) \in Nat
  BY <1>2, FS_Subset, FS_CardinalityType DEF RowCount
<1>4. /\ Understated(RowCount(rows, now)) \in Nat
      /\ Understated(RowCount(rows, now)) <= RowCount(rows, now)
  BY <1>3, UnderstatedIs
<1> QED BY <1>1, <1>3, <1>4

\* The question is about an epoch some clock can name.
LEMMA AsksReaches ==
  ASSUME PublishInv, VerdictInv, Asks
  PROVE  CheckIsSized'
<1>1. PICK off \in Offsets :
        ver' = [state |-> "asked", count |-> ver.count,
                epoch |-> Epoch(now + Skew[Client]) + off,
                bits |-> PrefixBits(ver.count, KClient)]
  BY DEF Asks
<1>2. now \in StartTime..MaxTime
  BY TrigcheckAssumption DEF PublishInv, LimitsAreSane
<1>3. LookupID(WriteKey(ClientSecret, ver'.epoch)) \in DOMAIN IdOf
  BY <1>1, <1>2, LookupAssumption
<1>4. ver'.count = ver.count /\ ver'.bits = PrefixBits(ver'.count, KClient) /\ ver'.state = "asked"
  BY <1>1
<1>5. honest' = honest /\ ver.state = "meta"
  BY DEF Asks
<1> QED BY <1>3, <1>4, <1>5 DEF VerdictInv, CheckIsSized

\* A lookup by its parts: the answer, the rows in it, the verdict.
Answered(limited) ==
  HandleGet(rows, IdOf, now,
            Hex(PrefixHex(IdOf[LookupID(WriteKey(ClientSecret, ver.epoch))], ver.bits)),
            Decimal(ver.bits), FALSE, limited)
Found(limited) == [k \in Answered(limited).found |-> rows[k]]
Concluded(limited) ==
  IF Answered(limited).status = 400 THEN "rejected"
  ELSE IF Answered(limited).status # 200 THEN "limited"
  ELSE Verdict(Found(limited), ClientKey(ver.epoch))

\* What a lookup concludes it concludes from what it found.
LEMMA LookupConcludes ==
  ASSUME LooksUp
  PROVE  \E limited \in BOOLEAN : Concludes(Concluded(limited), Found(limited))
<1>1. PICK limited \in BOOLEAN :
        LET id == IdOf[LookupID(WriteKey(ClientSecret, ver.epoch))]
            h == HandleGet(rows, IdOf, now, Hex(PrefixHex(id, ver.bits)), Decimal(ver.bits),
                           FALSE, limited)
            answer == [k \in h.found |-> rows[k]]
        IN  Concludes(IF h.status = 400 THEN "rejected"
                      ELSE IF h.status # 200 THEN "limited"
                      ELSE Verdict(answer, ClientKey(ver.epoch)), answer)
  BY DEF LooksUp
<1>2. Concludes(Concluded(limited), Found(limited))
  BY <1>1, Zenon DEF Concluded, Found, Answered
<1> QED BY <1>2

\* One case per action.
LEMMA NextReaches == IInv /\ PublishInv /\ VerdictInv /\ [Next]_vars => VerdictInv'
<1> SUFFICES ASSUME IInv, PublishInv, VerdictInv, [Next]_vars PROVE VerdictInv'
  OBVIOUS
<1>1. LimitsAreSane /\ BuiltIsBuildable /\ RowsAreInPlace /\ AckedIsKept /\ CheckIsSized
  BY DEF PublishInv, VerdictInv
<1>2. ASSUME NEW p \in Publishers, Build(p) PROVE VerdictInv'
  BY <1>2, BuildReaches
<1>3. ASSUME NEW p \in Publishers, Solved(p) \/ GivesUp(p) PROVE VerdictInv'
  <2>1. UNCHANGED <<now, honest, rows, built, acked, ver>>
    BY <1>3 DEF Solved, GivesUp
  <2>2. CheckIsSized'
    BY <1>1, <2>1 DEF CheckIsSized
  <2> QED BY <1>1, <2>1, <2>2, TableStands DEF VerdictInv
<1>4. ASSUME NEW r \in wire, Arrives(r) PROVE VerdictInv'
  <2>1. PICK limited \in BOOLEAN :
          LET h == HandlePut(rows, r.e.lookup_id, r.e, BodyOf(r.e), now, lim, limited)
          IN  /\ rows' = h.rows
              /\ acked' = IF h.status = 204 /\ pub' # pub THEN acked \cup {r.e} ELSE acked
    BY <1>4 DEF Arrives
  <2> DEFINE h == Put(r.e.lookup_id, r.e, limited)
             late == r.e.expires <= StoredExpiry(rows, r.e.lookup_id, now)
  <2>2. rows' = h.rows /\ acked' = IF h.status = 204 /\ pub' # pub THEN acked \cup {r.e} ELSE acked
    BY <2>1, Zenon DEF Put
  <2>3. \/ h.rows = rows /\ h.status # 204
        \/ h.rows = [rows EXCEPT ![r.e.lookup_id] = r.e] /\ h.status = 204 /\ ~late
    <3>1. StoresTheNewer(r.e.lookup_id, r.e, limited) BY ONLY PutStoresTheNewer
    <3> QED BY ONLY <3>1 DEF StoresTheNewer, h, late
  <2> HIDE DEF h, late
  <2>4. \/ rows' = rows /\ acked' = acked
        \/ /\ rows' = [rows EXCEPT ![r.e.lookup_id] = r.e] /\ ~late
           /\ acked' = acked \/ acked' = acked \cup {r.e}
    BY <2>2, <2>3
  <2>5. UNCHANGED <<now, lim, honest, built, ver>>
    BY <1>4 DEF Arrives
  <2> QED BY <2>4, <2>5, PutReaches DEF late
<1>5. ASSUME NEW r \in wire, PutLost(r) PROVE VerdictInv'
  <2> DEFINE h == Put(r.e.lookup_id, r.e, FALSE)
             late == r.e.expires <= StoredExpiry(rows, r.e.lookup_id, now)
  <2>1. rows' \in {rows, h.rows} /\ UNCHANGED <<now, lim, honest, built, acked, ver>>
    BY <1>5 DEF PutLost, Put
  <2>2. \/ h.rows = rows /\ h.status # 204
        \/ h.rows = [rows EXCEPT ![r.e.lookup_id] = r.e] /\ h.status = 204 /\ ~late
    <3>1. StoresTheNewer(r.e.lookup_id, r.e, FALSE) BY ONLY PutStoresTheNewer
    <3> QED BY ONLY <3>1 DEF StoresTheNewer, h, late
  <2> HIDE DEF h, late
  <2>3. \/ rows' = rows /\ acked' = acked
        \/ rows' = [rows EXCEPT ![r.e.lookup_id] = r.e] /\ ~late /\ acked' = acked
    BY <2>1, <2>2
  <2> QED BY <2>1, <2>3, PutReaches DEF late
<1>6. ASSUME Meta PROVE VerdictInv'
  <2>1. UNCHANGED <<now, rows, built, acked>>
    BY <1>6 DEF Meta
  <2> QED BY <1>1, <1>6, <2>1, TableStands, MetaReaches DEF VerdictInv
<1>7. ASSUME Asks PROVE VerdictInv'
  <2>1. UNCHANGED <<now, rows, built, acked>>
    BY <1>7 DEF Asks
  <2> QED BY <1>1, <1>7, <2>1, TableStands, AsksReaches DEF VerdictInv
<1>8. ASSUME LooksUp \/ IsAnswered \/ VerifyFails PROVE VerdictInv'
  <2>1. UNCHANGED <<now, rows, built, acked>>
    BY <1>8 DEF LooksUp, IsAnswered, VerifyFails
  <2>2. ver'.state \in {"idle", "done"}
    <3>1. ASSUME NEW verdict, NEW answer, Concludes(verdict, answer) PROVE ver'.state = "done"
      BY <3>1 DEF Concludes
    <3>2. ASSUME LooksUp PROVE ver'.state = "done"
      BY <3>1, <3>2, LookupConcludes
    <3>3. IsAnswered => \E verdict, answer : Concludes(verdict, answer)
      BY Zenon DEF IsAnswered
    <3>4. VerifyFails => ver'.state = "idle"
      BY DEF VerifyFails
    <3> QED BY <1>8, <3>1, <3>2, <3>3, <3>4
  <2>3. CheckIsSized'
    BY <2>2 DEF CheckIsSized
  <2> QED BY <1>1, <2>1, <2>3, TableStands DEF VerdictInv
<1>9. ASSUME Tick \/ UNCHANGED vars PROVE VerdictInv'
  <2>1. UNCHANGED <<honest, rows, built, acked, ver>> /\ (now' = now \/ now' = now + 1)
    BY <1>9 DEF Tick, vars
  <2>2. CheckIsSized'
    BY <1>1, <2>1 DEF CheckIsSized
  <2> QED BY <1>1, <2>1, <2>2, TableStands DEF VerdictInv
<1> QED BY <1>2, <1>3, <1>4, <1>5, <1>6, <1>7, <1>8, <1>9 DEF Next

\* The steps by which a check at an honest directory concludes: what the table
\* held, what it was sized by and what was acknowledged explain the verdict.
LEMMA LookupExplains ==
  ASSUME IInv, PublishInv, VerdictInv, LooksUp
  PROVE  VerdictExplained
<1> DEFINE id == LookupID(WriteKey(ClientSecret, ver.epoch))
           key == ClientKey(ver.epoch)
           current == {e \in acked : e.lookup_id = id /\ e.expires > now}
           hex == Hex(PrefixHex(IdOf[id], ver.bits))
           cap == CapFor(RowCount(rows, now), KMin)
           whole == ParseQuery(hex, Decimal(ver.bits), IdBits)
           count == RowCount(rows, now)
<1>1. PICK limited \in BOOLEAN : Concludes(Concluded(limited), Found(limited))
  BY LookupConcludes
<1> DEFINE h == Answered(limited)
           answer == Found(limited)
           verdict == Concluded(limited)
<1>2. /\ ver'.verdict = verdict
      /\ verdict = "ok" => ver'.shown = {answer[i] : i \in Opened(answer, key)}
  BY <1>1 DEF Concludes
<1>3. /\ BuiltIsBuildable /\ RowsAreInPlace /\ AckedIsKept /\ RowsUnderTheirIds
      /\ now \in Nat /\ DOMAIN rows = DOMAIN IdOf
  BY DEF PublishInv, VerdictInv, LimitsAreSane, BuiltIsBuildable
<1>4. /\ id \in DOMAIN IdOf /\ ver.bits = PrefixBits(ver.count, KClient)
      /\ ver.count \in 0..Cardinality(DOMAIN IdOf)
  BY DEF VerdictInv, CheckIsSized, LooksUp
<1>5. KClient \in Nat \ {0} /\ KMin \in Nat \ {0} /\ IdBits \in Nat
  BY TrigcheckAssumption, PrefixWidths
<1>6. ver.count \in Nat /\ ver.count <= Pow(2, IdBits)
  <2>1. Cardinality(DOMAIN IdOf) \in Nat /\ Cardinality(DOMAIN IdOf) <= Pow(2, IdBits)
    BY LookupAssumption, FS_CardinalityType
  <2>2. Pow(2, IdBits) \in Nat
    BY <1>5, TwoPowers
  <2> QED BY <1>4, <2>1, <2>2
<1>7. count \in Nat
  <2>1. IsFiniteSet(DOMAIN rows) /\ Live(rows, now) \subseteq DOMAIN rows
    BY <1>3, LookupAssumption DEF Live
  <2> QED BY <2>1, FS_Subset, FS_CardinalityType DEF RowCount
<1> HIDE DEF count
<1>8. ver.bits \in 0..IdBits
  BY <1>4, <1>5, <1>6, PrefixBitsWithin
<1>9. whole.reason = "none" /\ Selects(whole, IdOf[id])
  <2>1. IdOf[id] \in Id
    BY <1>4, LookupAssumption
  <2> QED BY <1>8, <2>1, DigitsFindTheirId DEF FindsItself
<1>10. cap \in Nat
  BY <1>5, <1>7, CapForIs DEF count
<1>11. ~(ver.bits <= cap) => count * KClient < ver.count * KMin
  <2>1. ver.count * KMin <= count * KClient => PrefixBits(ver.count, KClient) <= CapFor(count, KMin)
    BY <1>5, <1>6, <1>7, SizedPrefixFits
  <2>2. ver.count * KMin \in Nat /\ count * KClient \in Nat
    BY <1>5, <1>6, <1>7
  <2> QED BY <1>4, <2>1, <2>2 DEF count
<1>12. /\ limited => h.status = 429 /\ h.found = {}
       /\ ~limited /\ ver.bits <= cap =>
            h.status = 200 /\ h.found = {k \in Live(rows, now) : Selects(whole, IdOf[k])}
       /\ ~limited /\ ~(ver.bits <= cap) => h.status = 400 /\ h.found = {}
  <2> DEFINE q == ParseQuery(hex, Decimal(ver.bits), cap)
  <2>1. h = IF limited THEN [status |-> RecordStatus("RateLimited"), found |-> {}]
            ELSE IF q.reason # "none" THEN [status |-> QueryStatus(q.reason), found |-> {}]
            ELSE [status |-> 200, found |-> {k \in Live(rows, now) : Selects(q, IdOf[k])}]
    BY Zenon DEF HandleGet, Answered
  <2>2. RecordStatus("RateLimited") = 429
    BY DEF RecordStatus
  <2>3. QueryStatus(q.reason) = 400
    BY DEF QueryStatus
  <2>4. ver.bits <= cap => q = whole
    BY <1>5, <1>8, <1>10, CapDecidesNothingElse
  <2>5. ~(ver.bits <= cap) => q.reason # "none"
    <3>1. Decimal(ver.bits).form = "decimal" /\ Decimal(ver.bits).n = ver.bits
      BY DEF Decimal
    <3>2. ~(ver.bits <= cap) => ver.bits > cap
      BY <1>8, <1>10
    <3>3. ver.bits > cap => q = Reject("BitsTooPrecise")
      BY <3>1 DEF ParseQuery
    <3> QED BY <3>2, <3>3 DEF Reject
  <2> HIDE DEF q, hex, cap, whole
  <2> QED BY <1>9, <2>1, <2>2, <2>3, <2>4, <2>5
<1>13. /\ verdict = IF h.status = 400 THEN "rejected"
                     ELSE IF h.status # 200 THEN "limited" ELSE Verdict(answer, key)
       /\ answer = [k \in h.found |-> rows[k]]
  BY Zenon DEF Concluded, Found
<1> HIDE DEF cap, whole, hex, h, answer, verdict, id, key
<1>14. \A k \in h.found : k \in Live(rows, now)
  BY <1>12
\* What opens is the row under the lookup_id that was asked about.
<1>15. DOMAIN answer = h.found /\ \A k \in h.found : answer[k] = rows[k]
  BY <1>13
<1>16. \A k \in Live(rows, now) : k \in DOMAIN rows /\ rows[k] # NoRow /\ rows[k].expires > now
  BY DEF Live
<1>17. \A k \in Opened(answer, key) :
         /\ k = id /\ id \in Live(rows, now) /\ answer[k] = rows[id]
         /\ rows[id] \in built /\ rows[id].lookup_id = id
  <2> SUFFICES ASSUME NEW k \in Opened(answer, key)
               PROVE  /\ k = id /\ id \in Live(rows, now) /\ answer[k] = rows[id]
                      /\ rows[id] \in built /\ rows[id].lookup_id = id
    OBVIOUS
  <2>1. k \in h.found /\ answer[k] = rows[k] /\ rows[k].ct.key = key
    BY <1>15 DEF Opened, Opens
  <2>2. k \in Live(rows, now) /\ k \in DOMAIN rows /\ rows[k] # NoRow
    BY <1>14, <1>16, <2>1
  <2>3. key[2] = ClientSecret
    BY DEF key, ClientKey, RecordKey
  <2>4. rows[k] \in built /\ rows[k].lookup_id = k
    BY <1>3, <2>1, <2>2, <2>3 DEF RowsAreInPlace
  <2>5. rows[k] \in Buildable
    BY <1>3, <2>4 DEF BuiltIsBuildable
  <2>6. rows[k].lookup_id = id
    BY <2>1, <2>5, OpensUnderItsId DEF id, key
  <2> QED BY <2>1, <2>2, <2>4, <2>6
\* What was acknowledged and has not expired is found, or what took its place.
<1>18. ASSUME NEW a \in current
       PROVE  /\ id \in Live(rows, now) /\ rows[id].expires >= a.expires
              /\ Verify(rows[id]) /\ Opens(rows[id], key)
  <2>1. a \in acked /\ a.lookup_id = id /\ a.expires > now
    OBVIOUS
  <2> HIDE DEF current
  <2>2. a \in built /\ a \in Buildable /\ rows[id] # NoRow /\ rows[id].expires >= a.expires
    BY <1>3, <2>1 DEF AckedIsKept, BuiltIsBuildable
  <2>3. id \in DOMAIN rows /\ rows[id].expires \in Int /\ a.expires \in Int
    BY <1>3, <1>4, <2>2, BuildableIs DEF RowsAreInPlace
  <2>4. id \in Live(rows, now)
    BY <1>3, <2>1, <2>2, <2>3 DEF Live
  <2>5. PICK p \in Publishers, ep \in {a.wk_pub[3]} : id = LookupID(WriteKey(SecretOf[p], ep))
    BY <2>1, <2>2, BuildableIs
  <2>6. rows[id] \in built /\ rows[id].lookup_id = id
    BY <1>3, <2>2, <2>3, <2>5, OwnRows
  <2>7. rows[id] \in Buildable
    BY <1>3, <2>6 DEF BuiltIsBuildable
  <2>8. rows[id].ct.key = key
    BY <2>6, <2>7, OpensUnderItsId DEF id, key
  <2> QED BY <2>2, <2>4, <2>7, <2>8, BuildableIs DEF Opens
<1>19. verdict = "none" => current = {}
  <2> SUFFICES ASSUME verdict = "none", NEW a \in current PROVE FALSE
    OBVIOUS
  <2> HIDE DEF current
  <2>1. h.status = 200 /\ Verdict(answer, key) = "none"
    BY <1>13
  <2>2. id \in h.found
    BY <1>9, <1>12, <1>18, <2>1
  <2>3. id \in Opened(answer, key)
    BY <1>15, <1>18, <2>2 DEF Opened
  <2> QED BY <2>1, <2>3 DEF Verdict
<1>20. verdict = "forged" => \E e \in built : e.lookup_id = id /\ e.ct.ik # ClientIk
  <2> SUFFICES ASSUME verdict = "forged"
               PROVE  \E e \in built : e.lookup_id = id /\ e.ct.ik # ClientIk
    OBVIOUS
  <2>1. Verdict(answer, key) = "forged"
    BY <1>13
  <2>2. PICK i \in Opened(answer, key) : ~VerifyPlaintext(answer[i], ClientIk)
    BY <2>1 DEF Verdict
  <2> QED BY <1>17, <2>2 DEF VerifyPlaintext
<1>21. verdict # "many"
  <2>1. Opened(answer, key) = {} \/ Opened(answer, key) = {id}
    BY <1>17
  <2>2. Cardinality(Opened(answer, key)) \in {0, 1}
    BY <2>1, FS_EmptySet, FS_Singleton
  <2>3. Verdict(answer, key) # "many"
    BY <2>2 DEF Verdict
  <2> QED BY <1>13, <2>3
<1>22. verdict = "rejected" => count * KClient < ver.count * KMin
  <2> SUFFICES ASSUME verdict = "rejected" PROVE count * KClient < ver.count * KMin
    OBVIOUS
  <2>1. Verdict(answer, key) # "rejected"
    BY DEF Verdict
  <2>2. h.status = 400
    BY <1>13, <2>1
  <2>3. ~limited /\ ~(ver.bits <= cap)
    BY <1>12, <2>2
  <2> QED BY <1>11, <2>3
<1>23. verdict = "ok" => \A e \in ver'.shown :
         e.expires > now /\ \A a \in current : a.expires <= e.expires
  <2> SUFFICES ASSUME verdict = "ok", NEW e \in ver'.shown
               PROVE  e.expires > now /\ \A a \in current : a.expires <= e.expires
    OBVIOUS
  <2> HIDE DEF current
  <2>1. e = rows[id] /\ id \in Live(rows, now)
    BY <1>2, <1>17
  <2>2. \A a \in current : rows[id].expires >= a.expires
    BY <1>18
  <2>3. rows[id].expires \in Int /\ \A a \in current : a.expires \in Int
    <3>1. \A a \in current : a \in Buildable
      BY <1>3 DEF current, AckedIsKept, BuiltIsBuildable
    <3> QED BY <1>3, <1>16, <2>1, <3>1, BuildableIs DEF RowsAreInPlace
  <2> QED BY <1>16, <2>1, <2>2, <2>3
<1> HIDE DEF current
<1> QED BY <1>2, <1>19, <1>20, <1>21, <1>22, <1>23 DEF VerdictExplained, id, current, count

\* What is built can be, stands where it belongs, and is kept while it is
\* acknowledged and unexpired; a check is sized by what was counted.
THEOREM VerdictInvariant == Spec => []VerdictInv
<1> QED BY InitEstablishes, NextPreserves, InitPublishes, NextPublishes, InitReaches, NextReaches,
           PTL DEF Spec

\* Against a directory that answers by its table, a check fails only for a reason
\* in what was published, acknowledged and has expired, and succeeds with nothing
\* older than what was acknowledged (runVerify, handleGetRecord, handleMeta).
THEOREM VerdictsAreTrue == Spec => VerdictIsExplained
<1> DEFINE Honest == ver.state = "asked" /\ honest /\ ver'.state = "done"
<1>1. ASSUME Next, Honest PROVE LooksUp
  <2>1. ASSUME NEW p \in Publishers, Build(p) \/ Solved(p) \/ GivesUp(p) PROVE FALSE
    BY <1>1, <2>1 DEF Build, Solved, GivesUp
  <2>2. ASSUME NEW r \in wire, Arrives(r) \/ PutLost(r) PROVE FALSE
    BY <1>1, <2>2 DEF Arrives, PutLost
  <2>3. ~Tick /\ ~Meta /\ ~Asks
    BY <1>1 DEF Tick, Meta, Asks
  <2>4. ~IsAnswered
    BY <1>1, Zenon DEF IsAnswered
  <2>5. ASSUME VerifyFails PROVE FALSE
    <3>1. ver' = [state |-> "idle"] BY <2>5 DEF VerifyFails
    <3>2. ver'.state = "done" BY <1>1
    <3> QED BY <3>1, <3>2
  <2> QED BY <1>1, <2>1, <2>2, <2>3, <2>4, <2>5 DEF Next
<1> HIDE DEF Honest
<1>2. IInv /\ PublishInv /\ VerdictInv /\ [Next]_vars => [Honest => VerdictExplained]_vars
  BY <1>1, LookupExplains
<1> QED BY <1>2, CheckerInvariant, PublishInvariant, VerdictInvariant, PTL
        DEF Spec, VerdictIsExplained, Honest
=============================================================================
