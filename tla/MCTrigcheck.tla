----------------------------- MODULE MCTrigcheck ----------------------------
(***************************************************************************)
(* Two servers that share a secret, the second with an identity of its own *)
(* and a fast clock, and a client that knows the first; among four records *)
(* of others.                                                              *)
(***************************************************************************)
EXTENDS Trigcheck, TLC

CONSTANTS p1, p2, client, s, ik1, ik2

MCPublishers == {p1, p2}
MCSecretOf == [p \in MCPublishers |-> s]
MCIkOf == (p1 :> ik1) @@ (p2 :> ik2)
MCPowBits == (p1 :> 0) @@ (p2 :> 0)
MCSizeOf == (p1 :> 1) @@ (p2 :> 2)
MCSkew == (p1 :> 0) @@ (p2 :> 1) @@ (client :> 0)

\* The epochs the clocks and the offsets can name, and SHA-256 of their keys:
\* identifiers of two bytes of two bits.
Epochs == 0..4
Others == {LookupID(WriteKey(n, 0)) : n \in 1..4}
NumberOf(k) == k[2][2]
MCIdOf ==
  [k \in {LookupID(WriteKey(s, e)) : e \in Epochs} \cup Others |->
     IF k \in Others THEN <<NumberOf(k) - 1, 1>> ELSE <<k[2][3] % 4, 2>>]

Foreign(n, expires) ==
  LET wk == WriteKey(n, 0)
      ct == [key |-> RecordKey(n, 0), nonce |-> 0, ik |-> client, ts |-> 0]
  IN  [lookup_id |-> LookupID(wk), wk_pub |-> wk, expires |-> expires, ct |-> ct, size |-> 1,
       zeros |-> 9, sig |-> Sign(wk, LookupID(wk), expires, ct)]

\* Others' records: none, or four of which three lapse on the way.
NoRecords == [k \in DOMAIN MCIdOf |-> NoRow]
FourRecords ==
  LET expires == <<3, 3, 4, 9>>
  IN  [k \in DOMAIN MCIdOf |-> IF k \in Others THEN Foreign(NumberOf(k), expires[NumberOf(k)]) ELSE NoRow]

Plain  == [maxRecordBytes |-> 3, maxTTL |-> 2, powBits |-> 0, skewGrace |-> 0]
Strict == [maxRecordBytes |-> 1, maxTTL |-> 1, powBits |-> 1, skewGrace |-> 1]
MCLimitSets == {Plain, Strict}

MCSettings ==
  {[lim |-> Plain,  honest |-> TRUE,  rows |-> NoRecords],
   [lim |-> Plain,  honest |-> TRUE,  rows |-> FourRecords],
   [lim |-> Strict, honest |-> TRUE,  rows |-> NoRecords],
   [lim |-> Plain,  honest |-> FALSE, rows |-> NoRecords]}
=============================================================================
