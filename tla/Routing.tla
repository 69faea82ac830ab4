------------------------------ MODULE Routing ------------------------------
(***************************************************************************)
(* gateway/src/router.cpp: how the gateway turns an upstream's tool and    *)
(* prompt names, resource URIs and URI templates into identifiers of its   *)
(* own, and how it finds the upstream and the upstream's identifier again  *)
(* in what a client sends.  A behaviour follows one identifier: published  *)
(* by an upstream, exposed in a catalog, used by a client, routed, and     *)
(* exposed again in the reply to a read.                                   *)
(*                                                                         *)
(* Strings are sequences of bytes.  The prefix cxxmcp-gateway-resource://  *)
(* is one symbol.                                                          *)
(***************************************************************************)
EXTENDS Integers, SequencesExt, FiniteSetsExt

CONSTANTS
  Enabled,      \* the ids of the enabled upstreams
  Alphabet,     \* bound: the bytes that identifiers are made of
  MaxLength,    \* bound: the length of an identifier
  Values        \* bound: what clients expand a template variable to

Percent   == 37
Dot       == 46
Slash     == 47
Backslash == 92
Open      == 123
Close     == 125

Bytes   == 0 .. 255
Scheme  == 256      \* cxxmcp-gateway-resource://
Invalid == 257      \* in a decoded string: the encoding was invalid

ASSUME AlphabetAssumption == /\ Alphabet \subseteq Bytes /\ MaxLength \in Nat
                             /\ Values \subseteq Seq(Bytes)

Kinds == {"name", "resource", "template"}

-----------------------------------------------------------------------------
(* The percent codec.                                                      *)

Unreserved(b) == b \in 65 .. 90 \cup 97 .. 122 \cup 48 .. 57 \cup {45, Dot, 95, 126}

HexDigit(v) == IF v < 10 THEN 48 + v ELSE 55 + v

IsHex(c) == c \in 48 .. 57 \cup 65 .. 70 \cup 97 .. 102

FromHex(c) == IF c <= 57 THEN c - 48 ELSE IF c <= 70 THEN c - 55 ELSE c - 87

EncodeByte(b) ==
  IF Unreserved(b) THEN <<b>> ELSE <<Percent, HexDigit(b \div 16), HexDigit(b % 16)>>

\* The loops over a text: at position i a loop appends chunk[i] to its result
\* and goes on at next[i].
Scan(chunk, next) ==
  LET from[i \in DOMAIN chunk] ==
        IF next[i] \in DOMAIN chunk THEN chunk[i] \o from[next[i]] ELSE chunk[i]
  IN  IF chunk = <<>> THEN <<>> ELSE from[1]

\* Mutant of Encode: a percent sign is taken to be encoded already.
EncodeOnce(s) ==
  Scan([i \in 1..Len(s) |-> IF s[i] = Percent THEN <<s[i]>> ELSE EncodeByte(s[i])],
       [i \in 1..Len(s) |-> i + 1])

Encode(s) == Scan([i \in 1..Len(s) |-> EncodeByte(s[i])], [i \in 1..Len(s) |-> i + 1])

\* The end of the variable that begins at i, or 0.
VariableEnd(s, i) ==
  LET closes == {j \in i..Len(s) : s[j] = Close} IN
  IF s[i] = Open /\ closes # {} THEN Min(closes) ELSE 0

AfterVariable(s, i) == IF VariableEnd(s, i) # 0 THEN VariableEnd(s, i) + 1 ELSE i + 1

\* Mutant of EncodeTemplate: variables are encoded like the rest.
EncodeTemplateAll(s) == Encode(s)

\* Variables are copied, the rest is encoded.
EncodeTemplate(s) ==
  Scan([i \in 1..Len(s) |-> IF VariableEnd(s, i) # 0 THEN SubSeq(s, i, VariableEnd(s, i))
                             ELSE EncodeByte(s[i])],
       [i \in 1..Len(s) |-> AfterVariable(s, i)])

\* Mutant of Truncated: an escape at the very end is refused.
TruncatedEarly(s, i) == i + 2 >= Len(s)

\* A percent sign without two characters after it.
Truncated(s, i) == i + 2 > Len(s)

IsEscape(s, i) == ~Truncated(s, i) /\ IsHex(s[i + 1]) /\ IsHex(s[i + 2])

DecodeAt(s, i) ==
  IF s[i] # Percent THEN s[i]
  ELSE IF IsEscape(s, i) THEN 16 * FromHex(s[i + 1]) + FromHex(s[i + 2])
  ELSE Invalid

AfterByte(s, i) ==
  IF s[i] # Percent THEN i + 1
  ELSE IF IsEscape(s, i) THEN i + 3
  ELSE Len(s) + 1

Decode(s) == Scan([i \in 1..Len(s) |-> <<DecodeAt(s, i)>>], [i \in 1..Len(s) |-> AfterByte(s, i)])

-----------------------------------------------------------------------------
(* Exposing and resolving.                                                 *)

ValidId(id) == /\ id # <<>>
               /\ Len(id) <= 128
               /\ ToSet(id) \subseteq (33 .. 126) \ {Dot, Slash, Backslash}

ASSUME EnabledAssumption == \A id \in Enabled : id \in Seq(Bytes) /\ ValidId(id)

Expose(kind, id, raw) ==
  IF kind = "name" THEN id \o <<Dot>> \o raw
  ELSE <<Scheme>> \o Encode(id) \o <<Slash>> \o
       (IF kind = "template" THEN EncodeTemplate(raw) ELSE Encode(raw))

Rejected == [id |-> <<>>, raw |-> <<>>]

Accept(id, raw) ==
  IF ValidId(id) /\ raw # <<>> /\ ~Contains(raw, Invalid)
  THEN [id |-> id, raw |-> raw] ELSE Rejected

From(s, i) == SubSeq(s, i, Len(s))

\* The first dot, or the first slash, separates the upstream from the rest.
Separator(s, c) == SelectInSeq(s, LAMBDA x : x = c)

ResolveName(public) ==
  LET dot == Separator(public, Dot) IN
  IF dot = 0 THEN Rejected
  ELSE Accept(SubSeq(public, 1, dot - 1), From(public, dot + 1))

ResolveUri(public) ==
  LET body == Tail(public)
      slash == Separator(body, Slash) IN
  IF public[1] # Scheme \/ slash = 0 THEN Rejected
  ELSE Accept(Decode(SubSeq(body, 1, slash - 1)), Decode(From(body, slash + 1)))

\* resolve_*_route: the upstream must be configured and enabled.
Route(kind, public) ==
  LET resolved == IF kind = "name" THEN ResolveName(public) ELSE ResolveUri(public) IN
  IF resolved.id \in Enabled THEN resolved ELSE Rejected

-----------------------------------------------------------------------------
(* The life of an identifier.                                              *)

VARIABLES
  stage,    \* where the identifier is
  origin,   \* "gateway" exposed it, or the client made it up
  kind, owner, raw,   \* what was published, and by whom
  public,   \* what the client sees, then what it sends
  value,    \* what the client expanded the variables to; empty: it did not
  result    \* what the gateway routed it to

routingVars == <<stage, origin, kind, owner, raw, public, value, result>>

Texts == SeqOf(Alphabet, MaxLength)

RoutingInit ==
  /\ value = {}
  /\ result = Rejected
  /\ \/ /\ stage = "published" /\ origin = "gateway"
        /\ kind \in Kinds
        /\ owner \in Enabled
        /\ raw \in Texts \ {<<>>}         \* the merge refuses empty ones
        /\ public = <<>>
     \/ /\ stage = "requested" /\ origin = "client"
        /\ kind \in {"name", "resource"}
        /\ owner = <<>> /\ raw = <<>>
        /\ \E text \in Texts :
             public = IF kind = "name" THEN text ELSE <<Scheme>> \o text

\* merge_*_catalogs.
Publish ==
  /\ stage = "published"
  /\ stage' = "exposed"
  /\ public' = Expose(kind, owner, raw)
  /\ UNCHANGED <<origin, kind, owner, raw, value, result>>

\* The client sends the identifier as it is (a call, a read, a completion).
Use ==
  /\ stage = "exposed"
  /\ stage' = "requested"
  /\ UNCHANGED <<origin, kind, owner, raw, public, value, result>>

\* A client's expansion of a template: every variable by an encoded value.
Expand(s, v) ==
  Scan([i \in 1..Len(s) |-> IF VariableEnd(s, i) # 0 THEN v ELSE <<s[i]>>],
       [i \in 1..Len(s) |-> AfterVariable(s, i)])

UseExpanded ==
  /\ stage = "exposed"
  /\ kind = "template"
  /\ \E v \in Values : value' = {v} /\ public' = Expand(public, Encode(v))
  /\ stage' = "requested"
  /\ UNCHANGED <<origin, kind, owner, raw, result>>

Resolve ==
  /\ stage = "requested"
  /\ result' = Route(kind, public)
  /\ stage' = IF result' = Rejected THEN "rejected" ELSE "routed"
  /\ UNCHANGED <<origin, kind, owner, raw, public, value>>

\* The reply to a read names the resource again: read_resource exposes it.
Reply ==
  /\ stage = "routed"
  /\ kind = "resource" \/ value # {}
  /\ stage' = "exposed"
  /\ origin' = "gateway"
  /\ kind' = "resource"
  /\ owner' = result.id
  /\ raw' = result.raw
  /\ public' = Expose("resource", result.id, result.raw)
  /\ value' = {}
  /\ result' = Rejected

RoutingNext == Publish \/ Use \/ UseExpanded \/ Resolve \/ Reply

RoutingSpec == RoutingInit /\ [][RoutingNext]_routingVars

-----------------------------------------------------------------------------
\* No variable of the template has a percent sign in its name.
PlainVariables(s) ==
  \A i, j, k \in DOMAIN s :
    /\ i < j /\ j < k
    /\ s[i] = Open /\ s[j] = Percent /\ s[k] = Close
    => \E m \in i .. j : s[m] = Close

Published == [id |-> owner, raw |-> raw]

\* What the gateway exposes is routed to the upstream that published it, under
\* the very identifier it published, dots, slashes, percent signs and braces
\* included; so is what a reply says of a resource the client asked for under
\* an identifier of its own making, and a template the client did not expand.
RoutedToPublisher ==
  /\ stage = "routed"
  /\ origin = "gateway"
  /\ value = {}
  /\ kind = "template" => PlainVariables(raw)
  => result = Published

\* Nothing the gateway exposes is rejected when a client sends it back, expanded
\* or not, unless nothing is left of it.
ExposedIsAccepted ==
  stage = "rejected" /\ origin = "gateway" =>
    /\ kind = "template"
    /\ IF value = {} THEN ~PlainVariables(raw)
       ELSE \A v \in value : Expand(raw, v) = <<>>

\* A client-expanded template reaches the upstream as the upstream's own
\* template with the values in it (docs/gateway_scope.md:427-430; the values
\* arrive decoded, tests/router_tests.cpp:174-187).
ExpandedReachesPublisher ==
  stage = "routed" =>
    \A v \in value : result = [id |-> owner, raw |-> Expand(raw, v)]
=============================================================================
