----------------------------- MODULE ClientAddr -----------------------------
(***************************************************************************)
(* internal/clientaddr/clientaddr.go: which address a rate limit counts    *)
(* against.  Pure functions, over words of W4 and W6 bits where netip has  *)
(* 32 and 128; Tag is what the high W6-W4 bits of an IPv4-in-IPv6 address  *)
(* say.                                                                    *)
(*                                                                         *)
(* An address is its family, its number and whether it carries a zone.  An *)
(* X-Forwarded-For value is the sequence of its comma-separated entries,   *)
(* several field-lines joined; an entry has the form it is spelled in.  A  *)
(* list for -trusted-proxies is the sequence of its fields.                *)
(*                                                                         *)
(* A definition headed "Variant" is a plausible slip in the definition     *)
(* that follows it; nothing uses it.                                       *)
(***************************************************************************)
EXTENDS Integers, Sequences, FiniteSets, Powers

CONSTANTS
  W4, W6, Tag,
  ProxyLists,    \* values of -trusted-proxies
  Peers,         \* transport peers
  Entries,       \* entries of a header
  MaxEntries     \* bound on a header's length

ASSUME ClientAddrAssumption ==
  /\ W4 \in Nat /\ W6 \in Nat /\ W4 < W6
  /\ Tag \in 0..(Pow(2, W6 - W4) - 1)
  /\ MaxEntries \in Nat

-----------------------------------------------------------------------------
\* netip, as far as it is used.

V4(n) == [fam |-> 4, n |-> n, zone |-> FALSE]
V6(n) == [fam |-> 6, n |-> n, zone |-> FALSE]
NoAddr == [fam |-> 0, n |-> 0, zone |-> FALSE]     \* netip.Addr{}

\* What netip parses to; an IPv4 address carries no zone.
Hosts ==
  [fam : {4}, n : 0..(Pow(2, W4) - 1), zone : {FALSE}]
    \cup [fam : {6}, n : 0..(Pow(2, W6) - 1), zone : BOOLEAN]

BitLen(a) == IF a.fam = 4 THEN W4 ELSE W6
Is4In6(a) == a.fam = 6 /\ a.n \div Pow(2, W4) = Tag
Unmap(a)  == IF Is4In6(a) THEN V4(a.n % Pow(2, W4)) ELSE a

\* The number without its lowest BitLen - bits bits.
Network(a, bits) == a.n \div Pow(2, BitLen(a) - bits)

\* Prefix.Contains: never across families, never with a zone.
Contains(p, a) ==
  /\ a.fam = p.addr.fam /\ ~a.zone
  /\ Network(a, p.bits) = Network(p.addr, p.bits)

Masked(p) ==
  LET n == Network(p.addr, p.bits) * Pow(2, BitLen(p.addr) - p.bits)
  IN  [addr |-> IF p.addr.fam = 4 THEN V4(n) ELSE V6(n), bits |-> p.bits]

\* A CIDR block: netip parses none with a zone, or longer than its address.
Blocks ==
  {p \in [addr : Hosts, bits : 0..W6] : ~p.addr.zone /\ p.bits <= BitLen(p.addr)}

\* The fields of a list, by their form.
Fields ==
  {[form |-> "cidr", addr |-> p.addr, bits |-> p.bits] : p \in Blocks}
    \cup [form : {"bare"}, addr : Hosts] \cup [form : {"blank", "junk"}]

ASSUME ForwardAssumption ==
  /\ Peers \subseteq Hosts \cup {NoAddr}
  /\ ProxyLists \subseteq Seq(Fields)

-----------------------------------------------------------------------------
\* Variant: a mapped prefix kept as it was written.
NormaliseMaskOnly(p) == Masked(p)

\* An IPv4-in-IPv6 prefix becomes the IPv4 prefix of the same hosts, if it has
\* one; then the host bits go.
Normalise(p) ==
  Masked(IF Is4In6(p.addr) /\ p.bits >= W6 - W4
         THEN [addr |-> Unmap(p.addr), bits |-> p.bits - (W6 - W4)]
         ELSE p)

\* What one field stands for before it is normalised: a CIDR block itself, a
\* bare address its host.
FieldPrefix(f) ==
  IF f.form = "cidr" THEN [addr |-> f.addr, bits |-> f.bits]
  ELSE [addr |-> Unmap(f.addr), bits |-> BitLen(Unmap(f.addr))]

Refused(f) == f.form = "junk" \/ (f.form = "bare" /\ f.addr.zone)

\* Blank fields are skipped; the first refused one decides the error.
ParsePrefixes(fs) ==
  LET bad == {i \in DOMAIN fs : Refused(fs[i])}
  IN  IF bad # {}
      THEN LET i == CHOOSE i \in bad : \A j \in bad : i <= j
           IN  [err |-> IF fs[i].form = "junk" THEN "ErrInvalidProxy" ELSE "ErrZonedProxy",
                trusted |-> {}]
      ELSE [err |-> "none",
            trusted |-> {Normalise(FieldPrefix(fs[i])) :
                           i \in {j \in DOMAIN fs : fs[j].form # "blank"}}]

\* New normalises again; the order of the list never matters.
New(ps) == {Normalise(p) : p \in ps}

Trusts(trusted, a) == \E p \in trusted : Contains(p, a)

\* An entry that is an address, bare, in brackets or with a port.
Understood(e) == e.form \in {"bare", "bracketed", "port"}

ParseEntry(e) == IF Understood(e) THEN Unmap(e.addr) ELSE NoAddr

\* Variant: an entry that is not understood is stepped over.
WalkOverJunk(trusted, peer, xff) ==
  LET walk[n \in 0..Len(xff)] ==
        IF n = 0 THEN peer
        ELSE IF Understood(xff[n]) /\ ~Trusts(trusted, ParseEntry(xff[n]))
             THEN ParseEntry(xff[n])
             ELSE walk[n - 1]
  IN  walk[Len(xff)]

\* From the right, over trusted proxies, to the first entry that is not one.
\* An entry that is not understood, an empty one included, ends it at the peer.
Walk(trusted, peer, xff) ==
  LET walk[n \in 0..Len(xff)] ==
        IF n = 0 \/ ~Understood(xff[n]) THEN peer
        ELSE IF Trusts(trusted, ParseEntry(xff[n])) THEN walk[n - 1]
        ELSE ParseEntry(xff[n])
  IN  walk[Len(xff)]

\* With nothing trusted, or a peer that is not, the header is not read.
Addr(trusted, peer, xff) ==
  LET p == Unmap(peer)
  IN  IF p = NoAddr \/ ~Trusts(trusted, p) THEN p ELSE Walk(trusted, p, xff)

-----------------------------------------------------------------------------
Headers == UNION {[1..n -> Entries] : n \in 0..MaxEntries}

TrustedBy(list) == New(ParsePrefixes(list).trusted)

\* The mapped spelling of an IPv4 address.
Mapped(a) == IF a.fam = 4 THEN V6(Tag * Pow(2, W4) + a.n) ELSE a

\* Whether a field, as the operator wrote it, covers an address.  A block of
\* IPv6 wider than the mapped range says nothing of IPv4 hosts.
Covers(f, a) ==
  LET p == FieldPrefix(f)
  IN  /\ f.form # "blank"
      /\ \/ Contains(p, a)
         \/ p.addr.fam = 6 /\ p.bits >= W6 - W4 /\ Contains(p, Mapped(a))

\* Whether a walk from the right ends at an entry.
Ends(trusted, e) == ~Understood(e) \/ ~Trusts(trusted, ParseEntry(e))

\* What is written to the left of the rightmost entry where a walk ends makes
\* no difference to the answer.
LeftIsIgnored(list, peer, xff) ==
  LET trusted == TrustedBy(list)
  IN  (\E i \in DOMAIN xff : Ends(trusted, xff[i]))
        => \A left \in Headers : Addr(trusted, peer, left \o xff) = Addr(trusted, peer, xff)

\* A block of which the repository says what the code does not do: a default
\* route, also one written as the whole mapped range, and a mapped prefix broader
\* than that range.
Wide(f) ==
  /\ f.form = "cidr"
  /\ Normalise(FieldPrefix(f)).bits = 0 \/ (Is4In6(f.addr) /\ f.bits < W6 - W4)

\* An address is trusted exactly where the list is good and a field covers it.
TrustedAsWritten(list, a) ==
  Trusts(TrustedBy(list), Unmap(a)) <=>
    /\ ParsePrefixes(list).err = "none"
    /\ \E i \in DOMAIN list : Covers(list[i], Unmap(a))
=============================================================================
