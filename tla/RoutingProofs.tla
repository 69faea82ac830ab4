---------------------------- MODULE RoutingProofs ----------------------------
(***************************************************************************)
(* Theorems about Routing, for every set of upstream ids, every text of    *)
(* bytes that an upstream may publish or a client send, and every value a  *)
(* client may expand a template with.                                      *)
(***************************************************************************)
EXTENDS Routing, Foundations

-----------------------------------------------------------------------------
(* Scanning.                                                               *)

\* A loop that always goes forward, with what it appends at each position.
IsScan(S, n, chunk, next) ==
  /\ n \in Nat
  /\ chunk \in [1..n -> Seq(S)]
  /\ next \in [1..n -> Nat]
  /\ \A i \in 1..n : next[i] > i

\* What remains to be appended from a position on.
IsRest(S, n, chunk, next, rest) ==
  /\ rest \in [1..n -> Seq(S)]
  /\ rest = [i \in DOMAIN chunk |->
               IF next[i] \in DOMAIN chunk THEN chunk[i] \o rest[next[i]] ELSE chunk[i]]

\* The recursion of a scan has a value at every position.
LEMMA RestExists ==
  ASSUME NEW S, NEW n, NEW chunk, NEW next, IsScan(S, n, chunk, next)
  PROVE  \E rest : IsRest(S, n, chunk, next, rest)
<1> DEFINE D == 1..n
           X == Seq(S)
           G == [p \in D \X [D -> X] |->
                   IF next[p[1]] \in D THEN chunk[p[1]] \o p[2][next[p[1]]] ELSE chunk[p[1]]]
           rank == [i \in D |-> n - i]
<1>1. /\ n \in Nat /\ chunk \in [D -> X] /\ next \in [D -> Nat]
      /\ \A i \in D : next[i] > i
  BY DEF IsScan
<1>2. <<>> \in X
  OBVIOUS
<1>3. G \in [D \X [D -> X] -> X]
  <2>1. ASSUME NEW i \in D, NEW g \in [D -> X]
        PROVE  (IF next[i] \in D THEN chunk[i] \o g[next[i]] ELSE chunk[i]) \in X
    <3>1. CASE next[i] \in D
      <4>1. chunk[i] \in Seq(S) /\ g[next[i]] \in Seq(S)
        BY <1>1, <3>1
      <4> QED
        BY <3>1, <4>1, ConcatProperties
    <3> QED
      BY <1>1, <3>1
  <2> QED
    BY <2>1
<1>4. /\ rank \in [D -> Nat] /\ \A i \in D : rank[i] < n
      /\ \A i \in D : \A j \in D : j > i => rank[j] < rank[i]
  BY <1>1
<1>5. \A i \in D : \A g, h \in [D -> X] :
        (\A j \in D : rank[j] < rank[i] => g[j] = h[j]) => G[<<i, g>>] = G[<<i, h>>]
  <2> SUFFICES ASSUME NEW i \in D, NEW g \in [D -> X], NEW h \in [D -> X],
                      \A j \in D : rank[j] < rank[i] => g[j] = h[j]
               PROVE  G[<<i, g>>] = G[<<i, h>>]
    OBVIOUS
  <2>1. next[i] \in D => g[next[i]] = h[next[i]]
    BY <1>1, <1>4
  <2> QED
    BY <2>1
<1>6. \E f \in [D -> X] : \A i \in D : f[i] = G[<<i, f>>]
  <2> HIDE DEF D, X, G, rank
  <2>1. Descends(D, X, G, rank, n)
    BY <1>1, <1>2, <1>3, <1>4, <1>5 DEF Descends
  <2> QED
    BY <2>1, RecursiveFunction
<1>7. PICK f \in [D -> X] : \A i \in D : f[i] = G[<<i, f>>]
  BY <1>6
<1>8. \A i \in D : f[i] = IF next[i] \in D THEN chunk[i] \o f[next[i]] ELSE chunk[i]
  BY <1>7
<1>9. DOMAIN chunk = D
  BY <1>1
<1>10. f = [i \in DOMAIN chunk |->
              IF next[i] \in DOMAIN chunk THEN chunk[i] \o f[next[i]] ELSE chunk[i]]
  BY <1>8, <1>9
<1> QED
  BY <1>10 DEF IsRest

Unwinds(f, chunk, next) ==
  f = [i \in DOMAIN chunk |->
         IF next[i] \in DOMAIN chunk THEN chunk[i] \o f[next[i]] ELSE chunk[i]]

\* Two of them are the same: downwards from the end.
LEMMA RestUnique ==
  ASSUME NEW S, NEW n, NEW chunk, NEW next, IsScan(S, n, chunk, next),
         NEW f, NEW g, Unwinds(f, chunk, next), Unwinds(g, chunk, next)
  PROVE  f = g
<1> DEFINE M == {m \in Nat : \A i \in 1..n : n - i = m => f[i] = g[i]}
<1>1. /\ n \in Nat /\ DOMAIN chunk = 1..n /\ next \in [1..n -> Nat]
      /\ \A i \in 1..n : next[i] > i
  BY DEF IsScan
<1>2. \A i \in 1..n :
        /\ f[i] = IF next[i] \in 1..n THEN chunk[i] \o f[next[i]] ELSE chunk[i]
        /\ g[i] = IF next[i] \in 1..n THEN chunk[i] \o g[next[i]] ELSE chunk[i]
  BY <1>1 DEF Unwinds
<1>3. ASSUME NEW m \in Nat, \A k \in 0..(m - 1) : k \in M PROVE m \in M
  <2> SUFFICES ASSUME NEW i \in 1..n, n - i = m PROVE f[i] = g[i]
    OBVIOUS
  <2>1. next[i] \in 1..n => f[next[i]] = g[next[i]]
    <3> SUFFICES ASSUME next[i] \in 1..n PROVE f[next[i]] = g[next[i]]
      OBVIOUS
    <3>1. n - next[i] \in 0..(m - 1)
      BY <1>1
    <3> QED
      BY <1>3, <3>1
  <2> QED
    BY <1>2, <2>1
<1>4. Nat \subseteq M
  <2> HIDE DEF M
  <2> QED
    BY <1>3, StrongInduction
<1>5. \A i \in 1..n : f[i] = g[i]
  <2> SUFFICES ASSUME NEW i \in 1..n PROVE f[i] = g[i]
    OBVIOUS
  <2>1. n - i \in Nat
    BY <1>1
  <2>2. n - i \in M
    BY <1>4, <2>1
  <2> QED
    BY <2>2
<1>6. f = [i \in 1..n |-> f[i]] /\ g = [i \in 1..n |-> g[i]]
  BY <1>1 DEF Unwinds
<1> QED
  BY <1>5, <1>6

LEMMA ScanIsRest ==
  ASSUME NEW S, NEW n, NEW chunk, NEW next, IsScan(S, n, chunk, next)
  PROVE  \E rest : /\ IsRest(S, n, chunk, next, rest)
                   /\ Scan(chunk, next) = IF n = 0 THEN <<>> ELSE rest[1]
<1> DEFINE from == CHOOSE f : Unwinds(f, chunk, next)
<1>1. PICK rest : IsRest(S, n, chunk, next, rest)
  BY RestExists
<1>2. Unwinds(rest, chunk, next)
  BY <1>1 DEF IsRest, Unwinds
<1>3. Unwinds(from, chunk, next)
  BY <1>2
<1>4. Scan(chunk, next) = IF chunk = <<>> THEN <<>> ELSE from[1]
  BY DEF Scan, Unwinds
<1>5. chunk \in [1..n -> Seq(S)] /\ n \in Nat /\ (chunk = <<>> <=> n = 0)
  BY DEF IsScan
<1>6. from = rest
  <2> HIDE DEF from
  <2> QED
    BY <1>2, <1>3, RestUnique
<1> QED
  BY <1>1, <1>4, <1>5, <1>6

LEMMA ScanEmpty ==
  ASSUME NEW next PROVE Scan(<<>>, next) = <<>>
BY DEF Scan

LEMMA ScanType ==
  ASSUME NEW S, NEW n, NEW chunk, NEW next, IsScan(S, n, chunk, next)
  PROVE  Scan(chunk, next) \in Seq(S)
<1>1. PICK rest : /\ IsRest(S, n, chunk, next, rest)
                  /\ Scan(chunk, next) = IF n = 0 THEN <<>> ELSE rest[1]
  BY ScanIsRest
<1>2. n \in Nat /\ rest \in [1..n -> Seq(S)]
  BY <1>1 DEF IsScan, IsRest
<1> QED
  BY <1>1, <1>2

\* The second loop does what the first does from position k + 1 on.
IsShift(S, n, chunk, next, k, chunk2, next2) ==
  /\ IsScan(S, n, chunk, next)
  /\ IsScan(S, n - k, chunk2, next2)
  /\ k \in 1..n
  /\ next[1] = k + 1
  /\ \A i \in 1..(n - k) : chunk2[i] = chunk[i + k] /\ next2[i] + k = next[i + k]

LEMMA ShiftedPosition ==
  ASSUME NEW n \in Nat, NEW k \in 1..n, NEW i \in 1..(n - k), NEW a \in Nat, a > i
  PROVE  /\ a \in 1..(n - k) <=> a + k \in 1..n
         /\ a \in 1..(n - k) => n - k - a \in 0..(n - k - i - 1)
OBVIOUS

\* A scan is what its first step appends, and the scan of the rest.
LEMMA ScanShift ==
  ASSUME NEW S, NEW n, NEW chunk, NEW next, NEW k, NEW chunk2, NEW next2,
         IsShift(S, n, chunk, next, k, chunk2, next2)
  PROVE  Scan(chunk, next) = chunk[1] \o Scan(chunk2, next2)
<1>a. /\ IsScan(S, n, chunk, next) /\ IsScan(S, n - k, chunk2, next2)
      /\ k \in 1..n /\ next[1] = k + 1
      /\ \A i \in 1..(n - k) : chunk2[i] = chunk[i + k] /\ next2[i] + k = next[i + k]
  BY DEF IsShift
<1>1. PICK rest : /\ IsRest(S, n, chunk, next, rest)
                  /\ Scan(chunk, next) = IF n = 0 THEN <<>> ELSE rest[1]
  BY <1>a, ScanIsRest
<1>2. PICK rest2 : /\ IsRest(S, n - k, chunk2, next2, rest2)
                   /\ Scan(chunk2, next2) = IF n - k = 0 THEN <<>> ELSE rest2[1]
  BY <1>a, ScanIsRest
<1>3. /\ n \in Nat /\ DOMAIN chunk = 1..n /\ chunk \in [1..n -> Seq(S)]
      /\ next \in [1..n -> Nat] /\ \A i \in 1..n : next[i] > i
      /\ n - k \in Nat /\ DOMAIN chunk2 = 1..(n - k)
      /\ next2 \in [1..(n - k) -> Nat] /\ \A i \in 1..(n - k) : next2[i] > i
  BY <1>a DEF IsScan
<1>4. \A i \in 1..n :
        rest[i] = IF next[i] \in 1..n THEN chunk[i] \o rest[next[i]] ELSE chunk[i]
  BY <1>1, <1>3 DEF IsRest
<1>5. \A i \in 1..(n - k) :
        rest2[i] = IF next2[i] \in 1..(n - k) THEN chunk2[i] \o rest2[next2[i]]
                   ELSE chunk2[i]
  BY <1>2, <1>3 DEF IsRest
<1> DEFINE M == {m \in Nat : \A i \in 1..(n - k) : n - k - i = m => rest2[i] = rest[i + k]}
<1>6. ASSUME NEW m \in Nat, \A l \in 0..(m - 1) : l \in M PROVE m \in M
  <2> SUFFICES ASSUME NEW i \in 1..(n - k), n - k - i = m PROVE rest2[i] = rest[i + k]
    OBVIOUS
  <2>1. i + k \in 1..n /\ next2[i] + k = next[i + k] /\ chunk2[i] = chunk[i + k]
    BY <1>a, <1>3
  <2>a. next2[i] \in Nat /\ next2[i] > i /\ i \in Nat /\ k \in 1..n
    BY <1>a, <1>3
  <2>2. next2[i] \in 1..(n - k) <=> next[i + k] \in 1..n
    <3>1. next[i + k] = next2[i] + k
      BY <2>1
    <3>2. next2[i] \in 1..(n - k) <=> next2[i] + k \in 1..n
      BY <1>3, <2>a, ShiftedPosition
    <3> QED
      BY <3>1, <3>2
  <2>3. ASSUME next2[i] \in 1..(n - k) PROVE rest2[next2[i]] = rest[next[i + k]]
    <3>1. n - k - next2[i] \in 0..(m - 1)
      <4>1. n - k - next2[i] \in 0..(n - k - i - 1)
        BY <1>3, <2>3, <2>a, ShiftedPosition
      <4> QED
        BY <4>1
    <3>2. n - k - next2[i] \in M
      BY <1>6, <3>1
    <3> QED
      BY <2>1, <2>3, <3>2
  <2> QED
    BY <1>4, <1>5, <2>1, <2>2, <2>3
<1>7. Nat \subseteq M
  <2> HIDE DEF M
  <2> QED
    BY <1>6, StrongInduction
<1>8. ASSUME n - k # 0 PROVE rest2[1] = rest[k + 1]
  <2>1. n - k - 1 \in Nat /\ 1 \in 1..(n - k)
    BY <1>3, <1>8
  <2>2. n - k - 1 \in M
    BY <1>7, <2>1
  <2>3. 1 + k = k + 1
    BY <1>a
  <2> QED
    BY <2>1, <2>2, <2>3
<1>9. CASE n - k = 0
  <2>1. rest[1] = chunk[1] /\ chunk[1] \in Seq(S)
    BY <1>a, <1>3, <1>4, <1>9
  <2>2. chunk[1] \o <<>> = chunk[1]
    BY <2>1, ConcatEmptySeq
  <2> QED
    BY <1>a, <1>1, <1>2, <1>3, <1>9, <2>1, <2>2
<1>10. CASE n - k # 0
  <2>1. k + 1 \in 1..n /\ 1 \in 1..n
    BY <1>a, <1>3, <1>10
  <2>2. rest[1] = chunk[1] \o rest[k + 1]
    BY <1>a, <1>4, <2>1
  <2>3. Scan(chunk2, next2) = rest[k + 1]
    BY <1>2, <1>8, <1>10
  <2>4. Scan(chunk, next) = rest[1]
    BY <1>1, <1>3, <2>1
  <2> QED
    BY <2>2, <2>3, <2>4
<1> QED
  BY <1>9, <1>10

-----------------------------------------------------------------------------
(* The codec, step by step.                                                *)

\* What travels: bytes, and the symbols for the scheme and for a failure.
Codes == 0 .. Invalid

\* The bytes that encoded text is made of: no slash and no brace.
Plain == Bytes \ {Slash, Open, Close}

\* t is what is left of s after k symbols.
IsRemainder(s, k, t) ==
  /\ s \in Seq(Codes) /\ t \in Seq(Codes)
  /\ k \in 1..Len(s) /\ Len(t) = Len(s) - k
  /\ \A i \in 1..Len(t) : t[i] = s[i + k]

LEMMA CodesOf ==
  /\ Bytes \subseteq Codes
  /\ \A s \in Seq(Bytes) : s \in Seq(Codes)
  /\ Scheme \in Codes /\ Invalid \in Codes /\ Percent \in Bytes /\ Slash \in Bytes
BY DEF Codes, Bytes, Scheme, Invalid, Percent, Slash

LEMMA TailRemainder ==
  ASSUME NEW s \in Seq(Codes), s # <<>> PROVE IsRemainder(s, 1, Tail(s))
BY DEF IsRemainder

LEMMA ConcatRemainder ==
  ASSUME NEW a \in Seq(Codes), a # <<>>, NEW t \in Seq(Codes)
  PROVE  IsRemainder(a \o t, Len(a), t) /\ \A i \in 1..Len(a) : (a \o t)[i] = a[i]
<1>1. Len(a) \in Nat /\ Len(t) \in Nat /\ Len(a) # 0
  OBVIOUS
<1>2. /\ a \o t \in Seq(Codes)
      /\ Len(a \o t) = Len(a) + Len(t)
      /\ \A i \in 1 .. Len(a) + Len(t) : (a \o t)[i] = IF i <= Len(a) THEN a[i]
                                                      ELSE t[i - Len(a)]
  BY ConcatProperties
<1>3. \A i \in 1..Len(t) : t[i] = (a \o t)[i + Len(a)]
  BY <1>1, <1>2
<1> QED
  BY <1>1, <1>2, <1>3 DEF IsRemainder

\* A byte is encoded as itself, or as a percent sign and two digits that
\* stand for it.
LEMMA EncodeByteType ==
  ASSUME NEW b \in Bytes
  PROVE  /\ EncodeByte(b) \in Seq(Plain) /\ EncodeByte(b) # <<>>
         /\ \/ EncodeByte(b) = <<b>> /\ b # Percent /\ b # Slash
            \/ /\ EncodeByte(b) = <<Percent, HexDigit(b \div 16), HexDigit(b % 16)>>
               /\ IsHex(HexDigit(b \div 16)) /\ IsHex(HexDigit(b % 16))
               /\ 16 * FromHex(HexDigit(b \div 16)) + FromHex(HexDigit(b % 16)) = b
<1>1. /\ b \div 16 \in 0..15 /\ b % 16 \in 0..15 /\ 16 * (b \div 16) + (b % 16) = b
  BY DEF Bytes
<1>2. ASSUME NEW v \in 0..15
      PROVE  IsHex(HexDigit(v)) /\ FromHex(HexDigit(v)) = v /\ HexDigit(v) \in Plain
  BY <1>2 DEF IsHex, HexDigit, FromHex, Bytes, Plain, Slash, Open, Close
<1>3. CASE Unreserved(b)
  <2>1. EncodeByte(b) = <<b>>
    BY <1>3 DEF EncodeByte
  <2>2. b \notin {Percent, Slash, Open, Close}
    BY <1>3 DEF Unreserved, Percent, Slash, Dot, Open, Close
  <2>3. b \in Plain
    BY <2>2 DEF Plain
  <2>4. <<b>> \in Seq(Plain) /\ <<b>> # <<>>
    BY <2>3
  <2> QED
    BY <2>1, <2>2, <2>4
<1>4. CASE ~Unreserved(b)
  <2> DEFINE h == HexDigit(b \div 16)
             l == HexDigit(b % 16)
  <2>1. h \in Plain /\ l \in Plain /\ Percent \in Plain
    BY <1>1, <1>2 DEF Percent, Slash, Open, Close, Bytes, Plain
  <2>2. EncodeByte(b) = <<Percent, h, l>>
    BY <1>4 DEF EncodeByte
  <2>3. /\ IsHex(h) /\ IsHex(l) /\ 16 * FromHex(h) + FromHex(l) = b
    BY <1>1, <1>2
  <2> HIDE DEF h, l
  <2>4. <<Percent, h, l>> \in Seq(Plain) /\ <<Percent, h, l>> # <<>>
    BY <2>1
  <2> QED
    BY <2>2, <2>3, <2>4 DEF h, l
<1> QED
  BY <1>3, <1>4

LEMMA EmptyTexts ==
  /\ Encode(<<>>) = <<>> /\ EncodeTemplate(<<>>) = <<>> /\ Decode(<<>>) = <<>>
  /\ \A v : Expand(<<>>, v) = <<>>
<1>1. /\ [i \in 1..Len(<<>>) |-> EncodeByte(<<>>[i])] = <<>>
      /\ [i \in 1..Len(<<>>) |-> <<DecodeAt(<<>>, i)>>] = <<>>
      /\ [i \in 1..Len(<<>>) |-> IF VariableEnd(<<>>, i) # 0
                                 THEN SubSeq(<<>>, i, VariableEnd(<<>>, i))
                                 ELSE EncodeByte(<<>>[i])] = <<>>
  OBVIOUS
<1>2. ASSUME NEW v
      PROVE  [i \in 1..Len(<<>>) |-> IF VariableEnd(<<>>, i) # 0 THEN v ELSE <<<<>>[i]>>] = <<>>
  OBVIOUS
<1>3. Encode(<<>>) = <<>>
  BY <1>1, ScanEmpty DEF Encode
<1>4. EncodeTemplate(<<>>) = <<>>
  BY <1>1, ScanEmpty DEF EncodeTemplate
<1>5. Decode(<<>>) = <<>>
  BY <1>1, ScanEmpty DEF Decode
<1>6. \A v : Expand(<<>>, v) = <<>>
  BY <1>2, ScanEmpty DEF Expand
<1> QED
  BY <1>3, <1>4, <1>5, <1>6

\* Encode is a loop over bytes, and so are the others.
LEMMA EncodeScans ==
  ASSUME NEW s \in Seq(Bytes)
  PROVE  IsScan(Plain, Len(s), [i \in 1..Len(s) |-> EncodeByte(s[i])],
                [i \in 1..Len(s) |-> i + 1])
<1>1. \A i \in 1..Len(s) : s[i] \in Bytes
  OBVIOUS
<1>2. \A i \in 1..Len(s) : EncodeByte(s[i]) \in Seq(Plain)
  BY <1>1, EncodeByteType
<1>3. Len(s) \in Nat
  OBVIOUS
<1> QED
  BY <1>2, <1>3 DEF IsScan

LEMMA EncodeStep ==
  ASSUME NEW s \in Seq(Bytes), s # <<>>
  PROVE  /\ Encode(s) = EncodeByte(s[1]) \o Encode(Tail(s))
         /\ s[1] \in Bytes /\ Tail(s) \in Seq(Bytes) /\ Len(Tail(s)) = Len(s) - 1
<1> DEFINE t == Tail(s)
           n == Len(s)
           chunk == [i \in 1..n |-> EncodeByte(s[i])]
           next == [i \in 1..n |-> i + 1]
           chunk2 == [i \in 1..Len(t) |-> EncodeByte(t[i])]
           next2 == [i \in 1..Len(t) |-> i + 1]
<1>1. /\ s[1] \in Bytes /\ t \in Seq(Bytes) /\ Len(t) = n - 1 /\ n \in Nat /\ 1 \in 1..n
      /\ \A i \in 1..Len(t) : t[i] = s[i + 1]
  OBVIOUS
<1>2. IsScan(Plain, n, chunk, next) /\ IsScan(Plain, n - 1, chunk2, next2)
  BY <1>1, EncodeScans
<1>3. \A i \in 1..(n - 1) : chunk2[i] = chunk[i + 1] /\ next2[i] + 1 = next[i + 1]
  BY <1>1
<1>4. next[1] = 1 + 1 /\ chunk[1] = EncodeByte(s[1])
  BY <1>1
<1>5. Scan(chunk, next) = chunk[1] \o Scan(chunk2, next2)
  <2> HIDE DEF chunk, next, chunk2, next2, n
  <2>1. IsShift(Plain, n, chunk, next, 1, chunk2, next2)
    BY <1>1, <1>2, <1>3, <1>4 DEF IsShift
  <2> QED
    BY <2>1, ScanShift
<1> QED
  BY <1>1, <1>4, <1>5 DEF Encode

LEMMA EncodeType ==
  ASSUME NEW s \in Seq(Bytes) PROVE Encode(s) \in Seq(Plain)
BY EncodeScans, ScanType DEF Encode

LEMMA PlainSequences ==
  \A s \in Seq(Plain) : s \in Seq(Bytes) /\ s \in Seq(Codes) /\ s \in Seq(Codes \ {Open})
                        /\ s \in Seq(Codes \ {Slash})
BY DEF Plain, Bytes, Codes, Invalid, Open, Slash

-----------------------------------------------------------------------------
(* Decoding.                                                               *)

\* What decoding makes of bytes: bytes, or the mark of a failure.
Decoded == Bytes \cup {Invalid}

LEMMA EscapeValue ==
  ASSUME NEW h, NEW l, IsHex(h), IsHex(l)
  PROVE  16 * FromHex(h) + FromHex(l) \in Bytes
<1>1. ASSUME NEW c, IsHex(c) PROVE FromHex(c) \in 0..15
  <2>1. CASE c \in 48..57
    BY <2>1 DEF FromHex
  <2>2. CASE c \in 65..70
    BY <2>2 DEF FromHex
  <2>3. CASE c \in 97..102
    BY <2>3 DEF FromHex
  <2> QED
    BY <1>1, <2>1, <2>2, <2>3 DEF IsHex
<1>2. ASSUME NEW x \in 0..15, NEW y \in 0..15 PROVE 16 * x + y \in Bytes
  BY DEF Bytes
<1> QED
  BY <1>1, <1>2

LEMMA DecodeScans ==
  ASSUME NEW s \in Seq(Codes)
  PROVE  IsScan(Codes, Len(s), [i \in 1..Len(s) |-> <<DecodeAt(s, i)>>],
                [i \in 1..Len(s) |-> AfterByte(s, i)])
<1>1. Len(s) \in Nat
  OBVIOUS
<1>2. ASSUME NEW i \in 1..Len(s)
      PROVE  /\ DecodeAt(s, i) \in Codes
             /\ AfterByte(s, i) \in Nat /\ AfterByte(s, i) > i
  <2>1. s[i] \in Codes /\ Invalid \in Codes
    BY CodesOf
  <2>2. CASE IsEscape(s, i)
    <3>1. /\ i + 2 <= Len(s) /\ IsHex(s[i + 1]) /\ IsHex(s[i + 2])
      BY <2>2 DEF IsEscape, Truncated
    <3>3. 16 * FromHex(s[i + 1]) + FromHex(s[i + 2]) \in Codes
      BY <3>1, EscapeValue, CodesOf
    <3> QED
      BY <2>1, <2>2, <3>3 DEF DecodeAt, AfterByte
  <2>3. CASE ~IsEscape(s, i)
    BY <2>1, <2>3 DEF DecodeAt, AfterByte
  <2> QED
    BY <2>2, <2>3
<1>3. \A i \in 1..Len(s) : <<DecodeAt(s, i)>> \in Seq(Codes)
  BY <1>2
<1> QED
  BY <1>1, <1>2, <1>3 DEF IsScan

LEMMA DecodeType ==
  ASSUME NEW s \in Seq(Codes) PROVE Decode(s) \in Seq(Codes)
BY DecodeScans, ScanType DEF Decode

\* The bytes of a text of bytes decode to bytes.
LEMMA DecodedBytes ==
  ASSUME NEW s \in Seq(Bytes) PROVE Decode(s) \in Seq(Decoded)
<1>1. s \in Seq(Codes) /\ Len(s) \in Nat
  BY CodesOf
<1>2. ASSUME NEW i \in 1..Len(s) PROVE <<DecodeAt(s, i)>> \in Seq(Decoded)
  <2>1. s[i] \in Decoded /\ Invalid \in Decoded
    BY DEF Decoded
  <2>2. CASE IsEscape(s, i)
    <3>1. IsHex(s[i + 1]) /\ IsHex(s[i + 2])
      BY <2>2 DEF IsEscape
    <3>3. 16 * FromHex(s[i + 1]) + FromHex(s[i + 2]) \in Decoded
      BY <3>1, EscapeValue DEF Decoded
    <3>4. DecodeAt(s, i) \in Decoded
      BY <2>1, <2>2, <3>3 DEF DecodeAt
    <3> QED
      BY <3>4
  <2>3. CASE ~IsEscape(s, i)
    <3>1. DecodeAt(s, i) \in Decoded
      BY <2>1, <2>3 DEF DecodeAt
    <3> QED
      BY <3>1
  <2> QED
    BY <2>2, <2>3
<1>3. IsScan(Decoded, Len(s), [i \in 1..Len(s) |-> <<DecodeAt(s, i)>>],
             [i \in 1..Len(s) |-> AfterByte(s, i)])
  <2>1. IsScan(Codes, Len(s), [i \in 1..Len(s) |-> <<DecodeAt(s, i)>>],
               [i \in 1..Len(s) |-> AfterByte(s, i)])
    BY <1>1, DecodeScans
  <2> QED
    BY <1>2, <2>1 DEF IsScan
<1> QED
  BY <1>3, ScanType DEF Decode

\* Decoding looks at no more of a text than what is left of it.
LEMMA DecodeSuffix ==
  ASSUME NEW s, NEW k, NEW t, IsRemainder(s, k, t), NEW i \in 1..Len(t)
  PROVE  DecodeAt(t, i) = DecodeAt(s, i + k) /\ AfterByte(t, i) + k = AfterByte(s, i + k)
<1>1. /\ k \in Nat /\ Len(s) \in Nat /\ Len(t) \in Nat /\ Len(t) = Len(s) - k
      /\ t[i] = s[i + k] /\ i \in Nat
  BY DEF IsRemainder
<1>2. i + 2 <= Len(t) => t[i + 1] = s[i + k + 1] /\ t[i + 2] = s[i + k + 2]
  <2> SUFFICES ASSUME i + 2 <= Len(t)
               PROVE  t[i + 1] = s[i + k + 1] /\ t[i + 2] = s[i + k + 2]
    OBVIOUS
  <2>1. i + 1 \in 1..Len(t) /\ i + 2 \in 1..Len(t)
    BY <1>1
  <2>2. i + 1 + k = i + k + 1 /\ i + 2 + k = i + k + 2
    BY <1>1
  <2>3. t[i + 1] = s[i + 1 + k] /\ t[i + 2] = s[i + 2 + k]
    BY <2>1 DEF IsRemainder
  <2> QED
    BY <2>2, <2>3
<1>3. Truncated(t, i) <=> Truncated(s, i + k)
  BY <1>1 DEF Truncated
<1>4. IsEscape(t, i) <=> IsEscape(s, i + k)
  BY <1>1, <1>2, <1>3 DEF IsEscape, Truncated
<1>5. DecodeAt(t, i) = DecodeAt(s, i + k)
  <2>1. IsEscape(t, i) => i + 2 <= Len(t)
    BY <1>1 DEF IsEscape, Truncated
  <2> QED
    BY <1>1, <1>2, <1>4, <2>1 DEF DecodeAt
<1>6. AfterByte(t, i) + k = AfterByte(s, i + k)
  BY <1>1, <1>4 DEF AfterByte
<1> QED
  BY <1>5, <1>6

LEMMA DecodeStep ==
  ASSUME NEW s, NEW k, NEW t, IsRemainder(s, k, t), AfterByte(s, 1) = k + 1
  PROVE  Decode(s) = <<DecodeAt(s, 1)>> \o Decode(t)
<1> DEFINE n == Len(s)
           chunk == [i \in 1..n |-> <<DecodeAt(s, i)>>]
           next == [i \in 1..n |-> AfterByte(s, i)]
           chunk2 == [i \in 1..Len(t) |-> <<DecodeAt(t, i)>>]
           next2 == [i \in 1..Len(t) |-> AfterByte(t, i)]
<1>1. /\ s \in Seq(Codes) /\ t \in Seq(Codes) /\ Len(t) = n - k /\ n \in Nat /\ k \in 1..n
      /\ 1 \in 1..n
  BY DEF IsRemainder
<1>2. IsScan(Codes, n, chunk, next) /\ IsScan(Codes, n - k, chunk2, next2)
  <2>1. IsScan(Codes, Len(t), chunk2, next2)
    BY <1>1, DecodeScans
  <2> QED
    BY <1>1, <2>1, DecodeScans
<1>3. \A i \in 1..(n - k) : chunk2[i] = chunk[i + k] /\ next2[i] + k = next[i + k]
  <2> SUFFICES ASSUME NEW i \in 1..Len(t)
               PROVE  chunk2[i] = chunk[i + k] /\ next2[i] + k = next[i + k]
    BY <1>1
  <2>1. i + k \in 1..n
    BY <1>1
  <2>2. DecodeAt(t, i) = DecodeAt(s, i + k) /\ AfterByte(t, i) + k = AfterByte(s, i + k)
    BY DecodeSuffix
  <2> QED
    BY <2>1, <2>2
<1>4. next[1] = k + 1 /\ chunk[1] = <<DecodeAt(s, 1)>>
  BY <1>1
<1>5. Scan(chunk, next) = chunk[1] \o Scan(chunk2, next2)
  <2> HIDE DEF chunk, next, chunk2, next2, n
  <2>1. IsShift(Codes, n, chunk, next, k, chunk2, next2)
    BY <1>1, <1>2, <1>3, <1>4 DEF IsShift
  <2> QED
    BY <2>1, ScanShift
<1> QED
  BY <1>4, <1>5 DEF Decode

-----------------------------------------------------------------------------
(* Templates.                                                              *)

LEMMA VariableEndFacts ==
  ASSUME NEW s \in Seq(Codes), NEW i \in 1..Len(s)
  PROVE  /\ VariableEnd(s, i) \in Nat
         /\ VariableEnd(s, i) # 0 =>
              /\ s[i] = Open /\ VariableEnd(s, i) \in (i + 1)..Len(s)
              /\ s[VariableEnd(s, i)] = Close
              /\ \A j \in i..(VariableEnd(s, i) - 1) : s[j] # Close
         /\ VariableEnd(s, i) = 0 => s[i] # Open \/ \A j \in i..Len(s) : s[j] # Close
<1> DEFINE closes == {j \in i..Len(s) : s[j] = Close}
<1>1. Len(s) \in Nat /\ i \in Nat /\ i # 0
  OBVIOUS
<1>2. CASE s[i] = Open /\ closes # {}
  <2>1. closes \in SUBSET Nat
    BY <1>1
  <2>2. Min(closes) \in closes /\ \A j \in closes : Min(closes) <= j
    BY <1>2, <2>1, MinOfNaturals
  <2>3. VariableEnd(s, i) = Min(closes)
    BY <1>2 DEF VariableEnd
  <2> DEFINE e == Min(closes)
  <2>4. e \in i..Len(s) /\ s[e] = Close
    BY <2>2
  <2>5. e # i
    BY <1>2, <2>4 DEF Open, Close
  <2>6. \A j \in i..(e - 1) : s[j] # Close
    <3> SUFFICES ASSUME NEW j \in i..(e - 1), s[j] = Close PROVE FALSE
      OBVIOUS
    <3>1. j \in i..Len(s) /\ ~(e <= j)
      BY <1>1, <2>4
    <3>2. j \in closes
      BY <3>1
    <3> QED
      BY <2>2, <3>1, <3>2
  <2>7. e \in (i + 1)..Len(s) /\ e \in Nat /\ e # 0
    BY <1>1, <2>4, <2>5
  <2> HIDE DEF e
  <2> QED
    BY <1>2, <2>3, <2>4, <2>6, <2>7 DEF e
<1>3. CASE ~(s[i] = Open /\ closes # {})
  <2>1. VariableEnd(s, i) = 0
    BY <1>3 DEF VariableEnd
  <2>2. s[i] # Open \/ \A j \in i..Len(s) : s[j] # Close
    BY <1>3
  <2> QED
    BY <2>1, <2>2
<1> QED
  BY <1>2, <1>3

\* A variable begins at i, and its first closing brace is at e.
IsVariable(s, i, e) ==
  /\ s \in Seq(Codes) /\ i \in 1..Len(s) /\ e \in i..Len(s)
  /\ s[i] = Open /\ s[e] = Close
  /\ \A j \in i..(e - 1) : s[j] # Close

LEMMA VariableEndIs ==
  ASSUME NEW s, NEW i, NEW e, IsVariable(s, i, e)
  PROVE  VariableEnd(s, i) = e
<1>a. /\ s \in Seq(Codes) /\ i \in 1..Len(s) /\ e \in i..Len(s)
      /\ s[e] = Close /\ s[i] = Open
      /\ \A j \in i..(e - 1) : s[j] # Close
  BY DEF IsVariable
<1> DEFINE v == VariableEnd(s, i)
<1>1. /\ v \in Nat
      /\ v # 0 => /\ v \in (i + 1)..Len(s) /\ s[v] = Close
                  /\ \A j \in i..(v - 1) : s[j] # Close
      /\ v = 0 => \A j \in i..Len(s) : s[j] # Close
  BY <1>a, VariableEndFacts
<1>2. v # 0
  BY <1>a, <1>1
<1>3. ~(v < e)
  <2> SUFFICES ASSUME v < e PROVE FALSE
    OBVIOUS
  <2>1. v \in i..(e - 1)
    BY <1>a, <1>1, <1>2
  <2> QED
    BY <1>a, <1>1, <1>2, <2>1
<1>4. ~(e < v)
  <2> SUFFICES ASSUME e < v PROVE FALSE
    OBVIOUS
  <2>1. e \in i..(v - 1)
    BY <1>a, <1>1, <1>2
  <2> QED
    BY <1>a, <1>1, <1>2, <2>1
<1> QED
  BY <1>a, <1>1, <1>2, <1>3, <1>4

\* Variables are where they are in what is left of a text.
LEMMA VariableEndSuffix ==
  ASSUME NEW s, NEW k, NEW t, IsRemainder(s, k, t), NEW i \in 1..Len(t)
  PROVE  VariableEnd(s, i + k) = IF VariableEnd(t, i) = 0 THEN 0 ELSE VariableEnd(t, i) + k
<1>1. /\ s \in Seq(Codes) /\ t \in Seq(Codes)
      /\ k \in 1..Len(s) /\ Len(s) \in Nat /\ Len(t) \in Nat /\ Len(t) = Len(s) - k
      /\ \A j \in 1..Len(t) : t[j] = s[j + k]
  BY DEF IsRemainder
<1>2. i + k \in 1..Len(s) /\ t[i] = s[i + k] /\ i \in Nat /\ k \in Nat
  BY <1>1
<1>3. CASE VariableEnd(t, i) # 0
  <2> DEFINE e == VariableEnd(t, i)
  <2>1. /\ t[i] = Open /\ e \in (i + 1)..Len(t) /\ t[e] = Close
        /\ \A j \in i..(e - 1) : t[j] # Close
    BY <1>1, <1>3, VariableEndFacts
  <2> HIDE DEF e
  <2>2. e \in 1..Len(t) /\ e + k \in (i + k)..Len(s)
    BY <1>1, <1>2, <2>1
  <2>3. s[e + k] = Close /\ s[i + k] = Open
    BY <1>1, <1>2, <2>1, <2>2
  <2>4. \A j \in (i + k)..(e + k - 1) : s[j] # Close
    <3> SUFFICES ASSUME NEW j \in (i + k)..(e + k - 1) PROVE s[j] # Close
      OBVIOUS
    <3>1. j - k \in i..(e - 1) /\ j - k \in 1..Len(t) /\ j - k + k = j
      BY <1>1, <1>2, <2>1
    <3>2. t[j - k] = s[j - k + k]
      BY <1>1, <3>1
    <3> QED
      BY <2>1, <3>1, <3>2
  <2>5. IsVariable(s, i + k, e + k)
    BY <1>1, <1>2, <2>2, <2>3, <2>4 DEF IsVariable
  <2>6. VariableEnd(s, i + k) = e + k
    BY <2>5, VariableEndIs
  <2> QED
    BY <1>3, <2>6 DEF e
<1>4. CASE VariableEnd(t, i) = 0
  <2>1. t[i] # Open \/ \A j \in i..Len(t) : t[j] # Close
    BY <1>1, <1>4, VariableEndFacts
  <2>2. s[i + k] # Open \/ \A j \in (i + k)..Len(s) : s[j] # Close
    <3> SUFFICES ASSUME \A j \in i..Len(t) : t[j] # Close, NEW j \in (i + k)..Len(s)
                 PROVE  s[j] # Close
      BY <1>2, <2>1
    <3>1. j - k \in i..Len(t) /\ j - k \in 1..Len(t) /\ j - k + k = j
      BY <1>1, <1>2
    <3>2. t[j - k] = s[j - k + k]
      BY <1>1, <3>1
    <3> QED
      BY <3>1, <3>2
  <2>3. ASSUME VariableEnd(s, i + k) # 0 PROVE FALSE
    <3>1. /\ s[i + k] = Open /\ VariableEnd(s, i + k) \in (i + k + 1)..Len(s)
          /\ s[VariableEnd(s, i + k)] = Close
      BY <1>1, <1>2, <2>3, VariableEndFacts
    <3>2. VariableEnd(s, i + k) \in (i + k)..Len(s)
      BY <1>1, <1>2, <3>1
    <3> QED
      BY <2>2, <3>1, <3>2
  <2> QED
    BY <1>4, <2>3
<1> QED
  BY <1>3, <1>4

LEMMA AfterVariableFacts ==
  ASSUME NEW s \in Seq(Codes), NEW i \in 1..Len(s)
  PROVE  /\ AfterVariable(s, i) \in Nat /\ AfterVariable(s, i) > i
         /\ AfterVariable(s, i) - 1 \in 1..Len(s)
<1>1. /\ VariableEnd(s, i) \in Nat /\ i \in Nat /\ Len(s) \in Nat
      /\ VariableEnd(s, i) # 0 => VariableEnd(s, i) \in (i + 1)..Len(s)
  BY VariableEndFacts
<1> QED
  BY <1>1 DEF AfterVariable

LEMMA AfterVariableSuffix ==
  ASSUME NEW s, NEW k, NEW t, IsRemainder(s, k, t), NEW i \in 1..Len(t)
  PROVE  AfterVariable(t, i) + k = AfterVariable(s, i + k)
<1>1. t \in Seq(Codes) /\ k \in Nat /\ i \in Nat
  BY DEF IsRemainder
<1>2. VariableEnd(t, i) \in Nat
  BY <1>1, VariableEndFacts
<1>3. VariableEnd(s, i + k) = IF VariableEnd(t, i) = 0 THEN 0 ELSE VariableEnd(t, i) + k
  BY VariableEndSuffix
<1>4. CASE VariableEnd(t, i) = 0
  BY <1>1, <1>3, <1>4 DEF AfterVariable
<1>5. CASE VariableEnd(t, i) # 0
  <2>1. VariableEnd(t, i) + k # 0
    BY <1>1, <1>2, <1>5
  <2> QED
    BY <1>1, <1>2, <1>3, <1>5, <2>1 DEF AfterVariable
<1> QED
  BY <1>4, <1>5
\* What EncodeTemplate and Expand append at a position of a template.
EncodedAt(s, i) ==
  IF VariableEnd(s, i) # 0 THEN SubSeq(s, i, VariableEnd(s, i)) ELSE EncodeByte(s[i])

ExpandedAt(s, v, i) == IF VariableEnd(s, i) # 0 THEN v ELSE <<s[i]>>

LEMMA EncodeTemplateScans ==
  ASSUME NEW s \in Seq(Bytes)
  PROVE  IsScan(Bytes, Len(s), [i \in 1..Len(s) |-> EncodedAt(s, i)],
                [i \in 1..Len(s) |-> AfterVariable(s, i)])
<1>1. s \in Seq(Codes) /\ Len(s) \in Nat
  BY CodesOf
<1>2. ASSUME NEW i \in 1..Len(s) PROVE EncodedAt(s, i) \in Seq(Bytes)
  <2>1. CASE VariableEnd(s, i) # 0
    <3>1. VariableEnd(s, i) \in (i + 1)..Len(s)
      BY <1>1, <2>1, VariableEndFacts
    <3>2. SubSeq(s, i, VariableEnd(s, i)) \in Seq(Bytes)
      BY <3>1
    <3> QED
      BY <2>1, <3>2 DEF EncodedAt
  <2>2. CASE VariableEnd(s, i) = 0
    <3>1. EncodeByte(s[i]) \in Seq(Bytes)
      BY EncodeByteType, PlainSequences
    <3> QED
      BY <2>2, <3>1 DEF EncodedAt
  <2> QED
    BY <2>1, <2>2
<1>3. \A i \in 1..Len(s) : AfterVariable(s, i) \in Nat /\ AfterVariable(s, i) > i
  BY <1>1, AfterVariableFacts
<1> QED
  BY <1>1, <1>2, <1>3 DEF IsScan

LEMMA ExpandScans ==
  ASSUME NEW S \in SUBSET Codes, NEW s \in Seq(S), NEW v \in Seq(S)
  PROVE  IsScan(S, Len(s), [i \in 1..Len(s) |-> ExpandedAt(s, v, i)],
                [i \in 1..Len(s) |-> AfterVariable(s, i)])
<1>1. s \in Seq(Codes) /\ Len(s) \in Nat
  OBVIOUS
<1>2. ASSUME NEW i \in 1..Len(s) PROVE ExpandedAt(s, v, i) \in Seq(S)
  BY DEF ExpandedAt
<1>3. \A i \in 1..Len(s) : AfterVariable(s, i) \in Nat /\ AfterVariable(s, i) > i
  BY <1>1, AfterVariableFacts
<1> QED
  BY <1>1, <1>2, <1>3 DEF IsScan

LEMMA TemplateTypes ==
  ASSUME NEW s \in Seq(Bytes)
  PROVE  /\ EncodeTemplate(s) \in Seq(Bytes)
         /\ \A v \in Seq(Bytes) : Expand(s, v) \in Seq(Bytes)
<1>1. EncodeTemplate(s) \in Seq(Bytes)
  BY EncodeTemplateScans, ScanType DEF EncodeTemplate, EncodedAt
<1>2. ASSUME NEW v \in Seq(Bytes) PROVE Expand(s, v) \in Seq(Bytes)
  <2>1. Bytes \in SUBSET Codes
    BY CodesOf
  <2> QED
    BY <2>1, ExpandScans, ScanType DEF Expand, ExpandedAt
<1> QED
  BY <1>1, <1>2

LEMMA ExpandType ==
  ASSUME NEW s \in Seq(Codes), NEW v \in Seq(Codes) PROVE Expand(s, v) \in Seq(Codes)
<1>1. Codes \in SUBSET Codes
  OBVIOUS
<1> QED
  BY <1>1, ExpandScans, ScanType DEF Expand, ExpandedAt

LEMMA EncodedAtSuffix ==
  ASSUME NEW s, NEW k, NEW t, IsRemainder(s, k, t), NEW i \in 1..Len(t)
  PROVE  /\ EncodedAt(t, i) = EncodedAt(s, i + k)
         /\ \A v : ExpandedAt(t, v, i) = ExpandedAt(s, v, i + k)
<1>1. /\ s \in Seq(Codes) /\ t \in Seq(Codes)
      /\ k \in 1..Len(s) /\ Len(s) \in Nat /\ Len(t) \in Nat /\ Len(t) = Len(s) - k
      /\ \A j \in 1..Len(t) : t[j] = s[j + k]
  BY DEF IsRemainder
<1>2. /\ i + k \in 1..Len(s) /\ t[i] = s[i + k] /\ i \in Nat /\ k \in Nat
  BY <1>1
<1>3. VariableEnd(s, i + k) = IF VariableEnd(t, i) = 0 THEN 0 ELSE VariableEnd(t, i) + k
  BY VariableEndSuffix
<1>4. CASE VariableEnd(t, i) = 0
  BY <1>2, <1>3, <1>4 DEF EncodedAt, ExpandedAt
<1>5. CASE VariableEnd(t, i) # 0
  <2> DEFINE e == VariableEnd(t, i)
  <2>1. e \in (i + 1)..Len(t) /\ e \in Nat
    BY <1>1, <1>5, VariableEndFacts
  <2>2. VariableEnd(s, i + k) = e + k /\ e + k # 0
    BY <1>2, <1>3, <1>5, <2>1
  <2> HIDE DEF e
  <2>3. SubSeq(t, i, e) = SubSeq(s, i + k, e + k)
    <3>1. /\ SubSeq(t, i, e) \in Seq(Codes) /\ SubSeq(s, i + k, e + k) \in Seq(Codes)
          /\ Len(SubSeq(t, i, e)) = e - i + 1 /\ Len(SubSeq(s, i + k, e + k)) = e - i + 1
      BY <1>1, <1>2, <2>1
    <3>2. ASSUME NEW j \in 1..(e - i + 1)
          PROVE  SubSeq(t, i, e)[j] = SubSeq(s, i + k, e + k)[j]
      <4>1. SubSeq(t, i, e)[j] = t[i + j - 1]
        BY <1>1, <1>2, <2>1
      <4>2. SubSeq(s, i + k, e + k)[j] = s[i + k + j - 1]
        BY <1>1, <1>2, <2>1
      <4>3. i + j - 1 \in 1..Len(t) /\ i + k + j - 1 = i + j - 1 + k
        BY <1>1, <1>2, <2>1
      <4> QED
        BY <1>1, <4>1, <4>2, <4>3
    <3> QED
      BY <3>1, <3>2, SeqEqual
  <2> QED
    BY <1>5, <2>2, <2>3 DEF EncodedAt, ExpandedAt, e
<1> QED
  BY <1>4, <1>5

LEMMA EncodeTemplateStep ==
  ASSUME NEW s \in Seq(Bytes), NEW t \in Seq(Bytes), NEW k, IsRemainder(s, k, t),
         AfterVariable(s, 1) = k + 1
  PROVE  EncodeTemplate(s) = EncodedAt(s, 1) \o EncodeTemplate(t)
<1> DEFINE n == Len(s)
           chunk == [i \in 1..n |-> EncodedAt(s, i)]
           next == [i \in 1..n |-> AfterVariable(s, i)]
           chunk2 == [i \in 1..Len(t) |-> EncodedAt(t, i)]
           next2 == [i \in 1..Len(t) |-> AfterVariable(t, i)]
<1>1. Len(t) = n - k /\ n \in Nat /\ k \in 1..n /\ 1 \in 1..n
  BY DEF IsRemainder
<1>2. IsScan(Bytes, n, chunk, next) /\ IsScan(Bytes, n - k, chunk2, next2)
  <2>1. IsScan(Bytes, Len(t), chunk2, next2)
    BY EncodeTemplateScans
  <2> QED
    BY <1>1, <2>1, EncodeTemplateScans
<1>3. \A i \in 1..(n - k) : chunk2[i] = chunk[i + k] /\ next2[i] + k = next[i + k]
  <2> SUFFICES ASSUME NEW i \in 1..Len(t)
               PROVE  chunk2[i] = chunk[i + k] /\ next2[i] + k = next[i + k]
    BY <1>1
  <2>1. i + k \in 1..n
    BY <1>1
  <2>2. EncodedAt(t, i) = EncodedAt(s, i + k) /\ AfterVariable(t, i) + k = AfterVariable(s, i + k)
    BY EncodedAtSuffix, AfterVariableSuffix
  <2> QED
    BY <2>1, <2>2
<1>4. next[1] = k + 1 /\ chunk[1] = EncodedAt(s, 1)
  BY <1>1
<1>5. Scan(chunk, next) = chunk[1] \o Scan(chunk2, next2)
  <2> HIDE DEF chunk, next, chunk2, next2, n
  <2>1. IsShift(Bytes, n, chunk, next, k, chunk2, next2)
    BY <1>1, <1>2, <1>3, <1>4 DEF IsShift
  <2> QED
    BY <2>1, ScanShift
<1>6. EncodeTemplate(s) = Scan(chunk, next)
  BY DEF EncodeTemplate, EncodedAt
<1>7. EncodeTemplate(t) = Scan(chunk2, next2)
  BY DEF EncodeTemplate, EncodedAt
<1> QED
  BY <1>4, <1>5, <1>6, <1>7

LEMMA ExpandStep ==
  ASSUME NEW s, NEW t, NEW k, IsRemainder(s, k, t), AfterVariable(s, 1) = k + 1
  PROVE  \A v \in Seq(Codes) : Expand(s, v) = ExpandedAt(s, v, 1) \o Expand(t, v)
<1> SUFFICES ASSUME NEW v \in Seq(Codes)
             PROVE  Expand(s, v) = ExpandedAt(s, v, 1) \o Expand(t, v)
  OBVIOUS
<1> DEFINE n == Len(s)
           chunk == [i \in 1..n |-> ExpandedAt(s, v, i)]
           next == [i \in 1..n |-> AfterVariable(s, i)]
           chunk2 == [i \in 1..Len(t) |-> ExpandedAt(t, v, i)]
           next2 == [i \in 1..Len(t) |-> AfterVariable(t, i)]
<1>1. /\ Len(t) = n - k /\ n \in Nat /\ k \in 1..n /\ 1 \in 1..n
      /\ s \in Seq(Codes) /\ t \in Seq(Codes) /\ Codes \in SUBSET Codes
  BY DEF IsRemainder
<1>2. IsScan(Codes, n, chunk, next) /\ IsScan(Codes, n - k, chunk2, next2)
  <2>1. IsScan(Codes, Len(t), chunk2, next2)
    BY <1>1, ExpandScans
  <2> QED
    BY <1>1, <2>1, ExpandScans
<1>3. \A i \in 1..(n - k) : chunk2[i] = chunk[i + k] /\ next2[i] + k = next[i + k]
  <2> SUFFICES ASSUME NEW i \in 1..Len(t)
               PROVE  chunk2[i] = chunk[i + k] /\ next2[i] + k = next[i + k]
    BY <1>1
  <2>1. i + k \in 1..n
    BY <1>1
  <2>2. /\ ExpandedAt(t, v, i) = ExpandedAt(s, v, i + k)
        /\ AfterVariable(t, i) + k = AfterVariable(s, i + k)
    BY EncodedAtSuffix, AfterVariableSuffix
  <2> QED
    BY <2>1, <2>2
<1>4. next[1] = k + 1 /\ chunk[1] = ExpandedAt(s, v, 1)
  BY <1>1
<1>5. Scan(chunk, next) = chunk[1] \o Scan(chunk2, next2)
  <2> HIDE DEF chunk, next, chunk2, next2, n
  <2>1. IsShift(Codes, n, chunk, next, k, chunk2, next2)
    BY <1>1, <1>2, <1>3, <1>4 DEF IsShift
  <2> QED
    BY <2>1, ScanShift
<1>6. Expand(s, v) = Scan(chunk, next)
  BY DEF Expand, ExpandedAt
<1>7. Expand(t, v) = Scan(chunk2, next2)
  BY DEF Expand, ExpandedAt
<1> QED
  BY <1>4, <1>5, <1>6, <1>7

-----------------------------------------------------------------------------
(* Round trips.                                                            *)

LEMMA HeadAndTail ==
  ASSUME NEW S, NEW s \in Seq(S), s # <<>>
  PROVE  /\ s[1] \in S /\ <<s[1]>> \in Seq(S) /\ Tail(s) \in Seq(S)
         /\ s = <<s[1]>> \o Tail(s) /\ Len(Tail(s)) = Len(s) - 1
<1>1. /\ s[1] \in S /\ <<s[1]>> \in Seq(S) /\ Tail(s) \in Seq(S)
      /\ Len(Tail(s)) = Len(s) - 1 /\ Len(s) \in Nat
      /\ \A i \in 1..Len(Tail(s)) : Tail(s)[i] = s[i + 1]
  OBVIOUS
<1>2. s = <<s[1]>> \o Tail(s)
  <2>1. /\ <<s[1]>> \o Tail(s) \in Seq(S) /\ Len(<<s[1]>> \o Tail(s)) = Len(s)
        /\ \A i \in 1..Len(s) : (<<s[1]>> \o Tail(s))[i] = s[i]
    BY <1>1
  <2> QED
    BY <2>1, SeqEqual
<1> QED
  BY <1>1, <1>2

\* A text at its k-th symbol: what is up to it, and what is left.
LEMMA CutAt ==
  ASSUME NEW S \in SUBSET Codes, NEW s \in Seq(S), NEW k \in 1..Len(s)
  PROVE  /\ SubSeq(s, 1, k) \in Seq(S) /\ From(s, k + 1) \in Seq(S)
         /\ Len(SubSeq(s, 1, k)) = k
         /\ \A i \in 1..k : SubSeq(s, 1, k)[i] = s[i]
         /\ IsRemainder(s, k, From(s, k + 1))
<1>1. Len(s) \in Nat /\ s \in Seq(Codes)
  OBVIOUS
<1>2. /\ SubSeq(s, 1, k) \in Seq(S)
      /\ Len(SubSeq(s, 1, k)) = k
      /\ \A i \in 1..k : SubSeq(s, 1, k)[i] = s[i]
  BY <1>1
<1>3. /\ From(s, k + 1) \in Seq(S)
      /\ Len(From(s, k + 1)) = Len(s) - k
      /\ \A i \in 1..(Len(s) - k) : From(s, k + 1)[i] = s[i + k]
  BY <1>1 DEF From
<1>4. From(s, k + 1) \in Seq(Codes)
  BY <1>3
<1> QED
  BY <1>1, <1>2, <1>3, <1>4 DEF IsRemainder

LEMMA DecodeOther ==
  ASSUME NEW c \in Codes \ {Percent}, NEW R \in Seq(Codes)
  PROVE  Decode(<<c>> \o R) = <<c>> \o Decode(R)
<1> DEFINE s == <<c>> \o R
<1>1. <<c>> \in Seq(Codes) /\ <<c>> # <<>> /\ Len(<<c>>) = 1 /\ <<c>>[1] = c
  OBVIOUS
<1>2. IsRemainder(s, 1, R) /\ s[1] = c
  <2> DEFINE a == <<c>>
  <2>1. a \in Seq(Codes) /\ a # <<>> /\ Len(a) = 1 /\ a[1] = c
    BY <1>1
  <2> HIDE DEF a
  <2>2. IsRemainder(a \o R, 1, R) /\ \A i \in 1..1 : (a \o R)[i] = a[i]
    BY <2>1, ConcatRemainder
  <2> QED
    BY <2>1, <2>2 DEF a
<1>3. AfterByte(s, 1) = 1 + 1 /\ DecodeAt(s, 1) = c
  BY <1>2 DEF AfterByte, DecodeAt
<1> QED
  BY <1>2, <1>3, DecodeStep

LEMMA DecodeEscape ==
  ASSUME NEW h \in Codes, NEW l \in Codes, IsHex(h), IsHex(l), NEW R \in Seq(Codes)
  PROVE  Decode(<<Percent, h, l>> \o R) = <<16 * FromHex(h) + FromHex(l)>> \o Decode(R)
<1> DEFINE a == <<Percent, h, l>>
           s == a \o R
<1>1. Percent \in Codes
  BY CodesOf
<1>2. a \in Seq(Codes) /\ a # <<>> /\ Len(a) = 3 /\ a[1] = Percent /\ a[2] = h /\ a[3] = l
  BY <1>1
<1>3. IsRemainder(s, 3, R) /\ s[1] = Percent /\ s[1 + 1] = h /\ s[1 + 2] = l
  <2> HIDE DEF a
  <2>1. IsRemainder(a \o R, 3, R) /\ \A i \in 1..3 : (a \o R)[i] = a[i]
    BY <1>2, ConcatRemainder
  <2>2. 1 \in 1..3 /\ 2 \in 1..3 /\ 3 \in 1..3 /\ 1 + 1 = 2 /\ 1 + 2 = 3
    OBVIOUS
  <2>3. (a \o R)[1] = Percent /\ (a \o R)[2] = h /\ (a \o R)[3] = l
    BY <1>2, <2>1, <2>2
  <2> QED
    BY <2>1, <2>2, <2>3
<1>4. Len(s) \in Nat /\ 3 <= Len(s)
  BY <1>3 DEF IsRemainder
<1> HIDE DEF s, a
<1>5. IsEscape(s, 1)
  BY <1>3, <1>4 DEF IsEscape, Truncated
<1>6. AfterByte(s, 1) = 3 + 1 /\ DecodeAt(s, 1) = 16 * FromHex(h) + FromHex(l)
  BY <1>3, <1>5 DEF AfterByte, DecodeAt
<1>7. Decode(s) = <<16 * FromHex(h) + FromHex(l)>> \o Decode(R)
  BY <1>3, <1>6, DecodeStep
<1> QED
  BY <1>7 DEF s, a

\* An encoded byte decodes to the byte, and the rest to what it decodes to.
LEMMA DecodeEncodedByte ==
  ASSUME NEW b \in Bytes, NEW R \in Seq(Codes)
  PROVE  Decode(EncodeByte(b) \o R) = <<b>> \o Decode(R)
<1>1. CASE EncodeByte(b) = <<b>> /\ b # Percent
  <2>1. b \in Codes \ {Percent}
    BY <1>1, CodesOf
  <2> QED
    BY <1>1, <2>1, DecodeOther
<1>2. CASE EncodeByte(b) # <<b>> \/ b = Percent
  <2> DEFINE h == HexDigit(b \div 16)
             l == HexDigit(b % 16)
  <2>1. /\ EncodeByte(b) = <<Percent, h, l>> /\ IsHex(h) /\ IsHex(l)
        /\ 16 * FromHex(h) + FromHex(l) = b
    BY <1>2, EncodeByteType
  <2>2. \A c : IsHex(c) => c \in Codes
    BY DEF IsHex, Codes, Invalid
  <2> HIDE DEF h, l
  <2>3. h \in Codes /\ l \in Codes
    BY <2>1, <2>2
  <2>4. Decode(<<Percent, h, l>> \o R) = <<16 * FromHex(h) + FromHex(l)>> \o Decode(R)
    BY <2>1, <2>3, DecodeEscape
  <2> QED
    BY <2>1, <2>4
<1> QED
  BY <1>1, <1>2

\* Text without percent signs decodes to itself.
LEMMA DecodePrefix ==
  ASSUME NEW a \in Seq(Codes \ {Percent}), NEW R \in Seq(Codes)
  PROVE  Decode(a \o R) = a \o Decode(R)
<1> DEFINE A == Codes \ {Percent}
           M == {m \in Nat : \A s \in Seq(A) : Len(s) = m => Decode(s \o R) = s \o Decode(R)}
<1>a. R \in Seq(Codes) /\ Decode(R) \in Seq(Codes)
  BY DecodeType
<1>b. \A s \in Seq(A) : s \in Seq(Codes)
  OBVIOUS
<1>1. 0 \in M
  <2> SUFFICES ASSUME NEW s \in Seq(A), Len(s) = 0 PROVE Decode(s \o R) = s \o Decode(R)
    OBVIOUS
  <2>1. s = <<>>
    OBVIOUS
  <2> QED
    BY <1>a, <2>1, ConcatEmptySeq
<1>2. ASSUME NEW m \in Nat, m \in M PROVE m + 1 \in M
  <2> SUFFICES ASSUME NEW s \in Seq(A), Len(s) = m + 1
               PROVE  Decode(s \o R) = s \o Decode(R)
    OBVIOUS
  <2> DEFINE c == s[1]
             u == Tail(s)
  <2>1. /\ c \in A /\ <<c>> \in Seq(A) /\ u \in Seq(A) /\ s = <<c>> \o u /\ Len(u) = m
    <3>1. s # <<>>
      OBVIOUS
    <3> QED
      BY <3>1, HeadAndTail
  <2> HIDE DEF c, u, A
  <2>2. <<c>> \in Seq(Codes) /\ u \in Seq(Codes) /\ u \o R \in Seq(Codes)
    BY <1>a, <1>b, <2>1, ConcatProperties
  <2>3. s \o R = <<c>> \o (u \o R) /\ s \o Decode(R) = <<c>> \o (u \o Decode(R))
    <3> DEFINE b == <<c>>
               D == Decode(R)
    <3>1. b \in Seq(Codes) /\ D \in Seq(Codes)
      BY <1>a, <2>2
    <3> HIDE DEF b, D
    <3>2. /\ Join(Join(b, u), R) = Join(b, Join(u, R))
          /\ Join(Join(b, u), D) = Join(b, Join(u, D))
      BY <1>a, <2>2, <3>1, JoinAssociative
    <3> QED
      BY <2>1, <3>2 DEF Join, b, D
  <2>4. Decode(<<c>> \o (u \o R)) = <<c>> \o Decode(u \o R)
    BY <2>1, <2>2, DecodeOther DEF A
  <2>5. Decode(u \o R) = u \o Decode(R)
    BY <1>2, <2>1
  <2> QED
    BY <2>3, <2>4, <2>5
<1>3. Nat \subseteq M
  <2> HIDE DEF M
  <2> QED
    BY <1>1, <1>2, Induction
<1>4. Len(a) \in M
  BY <1>3
<1> QED
  BY <1>4

\* Encoded text decodes to the text, and the rest to what it decodes to.
LEMMA DecodeEncoded ==
  ASSUME NEW a \in Seq(Bytes), NEW R \in Seq(Codes)
  PROVE  Decode(Encode(a) \o R) = a \o Decode(R)
<1> DEFINE M == {m \in Nat : \A s \in Seq(Bytes) :
                   Len(s) = m => Decode(Encode(s) \o R) = s \o Decode(R)}
<1>a. R \in Seq(Codes) /\ Decode(R) \in Seq(Codes)
  BY DecodeType
<1>1. 0 \in M
  <2> SUFFICES ASSUME NEW s \in Seq(Bytes), Len(s) = 0
               PROVE  Decode(Encode(s) \o R) = s \o Decode(R)
    OBVIOUS
  <2>1. s = <<>> /\ Encode(s) = <<>>
    BY EmptyTexts
  <2> QED
    BY <1>a, <2>1, ConcatEmptySeq
<1>2. ASSUME NEW m \in Nat, m \in M PROVE m + 1 \in M
  <2> SUFFICES ASSUME NEW s \in Seq(Bytes), Len(s) = m + 1
               PROVE  Decode(Encode(s) \o R) = s \o Decode(R)
    OBVIOUS
  <2> DEFINE b == s[1]
             u == Tail(s)
  <2>1. s # <<>>
    OBVIOUS
  <2>2. b \in Bytes /\ u \in Seq(Bytes) /\ s = <<b>> \o u /\ Len(u) = m
    BY <2>1, HeadAndTail
  <2>3. Encode(s) = EncodeByte(b) \o Encode(u)
    BY <2>1, EncodeStep
  <2> HIDE DEF b, u
  <2>4. /\ EncodeByte(b) \in Seq(Codes) /\ Encode(u) \in Seq(Codes)
        /\ <<b>> \in Seq(Codes) /\ u \in Seq(Codes)
    <3>1. EncodeByte(b) \in Seq(Plain) /\ Encode(u) \in Seq(Plain)
      BY <2>2, EncodeByteType, EncodeType
    <3>2. <<b>> \in Seq(Bytes)
      BY <2>2
    <3> QED
      BY <2>2, <3>1, <3>2, PlainSequences, CodesOf
  <2>5. Encode(u) \o R \in Seq(Codes)
    BY <1>a, <2>4, ConcatProperties
  <2>6. /\ (EncodeByte(b) \o Encode(u)) \o R = EncodeByte(b) \o (Encode(u) \o R)
        /\ (<<b>> \o u) \o Decode(R) = <<b>> \o (u \o Decode(R))
    <3>1. (EncodeByte(b) \o Encode(u)) \o R = EncodeByte(b) \o (Encode(u) \o R)
      <4>1. Join(Join(EncodeByte(b), Encode(u)), R) = Join(EncodeByte(b), Join(Encode(u), R))
        BY <1>a, <2>4, JoinAssociative
      <4> QED
        BY <4>1 DEF Join
    <3>2. (<<b>> \o u) \o Decode(R) = <<b>> \o (u \o Decode(R))
      <4> DEFINE c == <<b>>
                 D == Decode(R)
      <4>1. c \in Seq(Codes) /\ u \in Seq(Codes) /\ D \in Seq(Codes)
        BY <1>a, <2>4
      <4> HIDE DEF c, D
      <4>2. Join(Join(c, u), D) = Join(c, Join(u, D))
        BY <4>1, JoinAssociative
      <4> QED
        BY <4>2 DEF c, D, Join
    <3> QED
      BY <3>1, <3>2
  <2>7. Decode(EncodeByte(b) \o (Encode(u) \o R)) = <<b>> \o Decode(Encode(u) \o R)
    BY <2>2, <2>5, DecodeEncodedByte
  <2>8. Decode(Encode(u) \o R) = u \o Decode(R)
    BY <1>2, <2>2
  <2> QED
    BY <2>2, <2>3, <2>6, <2>7, <2>8
<1>3. Nat \subseteq M
  <2> HIDE DEF M
  <2> QED
    BY <1>1, <1>2, Induction
<1>4. Len(a) \in M
  BY <1>3
<1> QED
  BY <1>4

\* percent_decode undoes percent_encode.
THEOREM CodecRoundTrip ==
  ASSUME NEW s \in Seq(Bytes) PROVE Decode(Encode(s)) = s
<1>1. Decode(Encode(s) \o <<>>) = s \o Decode(<<>>)
  <2>1. <<>> \in Seq(Codes)
    OBVIOUS
  <2> QED
    BY <2>1, DecodeEncoded
<1>2. Encode(s) \in Seq(Codes)
  BY EncodeType, PlainSequences
<1>3. Encode(s) \o <<>> = Encode(s) /\ s \o <<>> = s
  BY <1>2, ConcatEmptySeq
<1> QED
  BY <1>1, <1>3, EmptyTexts

\* Text without opening braces is not expanded.
LEMMA ExpandOther ==
  ASSUME NEW c \in Codes \ {Open}, NEW R \in Seq(Codes), NEW v \in Seq(Codes)
  PROVE  Expand(<<c>> \o R, v) = <<c>> \o Expand(R, v)
<1> DEFINE a == <<c>>
           s == a \o R
<1>1. a \in Seq(Codes) /\ a # <<>> /\ Len(a) = 1 /\ a[1] = c
  OBVIOUS
<1> HIDE DEF a
<1>2. IsRemainder(s, 1, R) /\ \A i \in 1..1 : s[i] = a[i]
  BY <1>1, ConcatRemainder
<1> HIDE DEF s
<1>3. s \in Seq(Codes) /\ 1 \in 1..Len(s) /\ s[1] = c
  BY <1>1, <1>2 DEF IsRemainder
<1>4. VariableEnd(s, 1) = 0
  BY <1>3, VariableEndFacts
<1>5. AfterVariable(s, 1) = 1 + 1 /\ ExpandedAt(s, v, 1) = <<c>>
  BY <1>3, <1>4 DEF AfterVariable, ExpandedAt
<1>6. \A x \in Seq(Codes) : Expand(s, x) = ExpandedAt(s, x, 1) \o Expand(R, x)
  BY <1>2, <1>5, ExpandStep
<1>7. Expand(s, v) = <<c>> \o Expand(R, v)
  BY <1>5, <1>6
<1> QED
  BY <1>7 DEF s, a

LEMMA ExpandPrefix ==
  ASSUME NEW a \in Seq(Codes \ {Open}), NEW R \in Seq(Codes), NEW v \in Seq(Codes)
  PROVE  Expand(a \o R, v) = a \o Expand(R, v)
<1> DEFINE A == Codes \ {Open}
           X == Expand(R, v)
           M == {m \in Nat : \A s \in Seq(A) : Len(s) = m => Expand(s \o R, v) = s \o X}
<1>a. R \in Seq(Codes) /\ X \in Seq(Codes)
  BY ExpandType
<1>b. \A s \in Seq(A) : s \in Seq(Codes)
  OBVIOUS
<1>1. 0 \in M
  <2> SUFFICES ASSUME NEW s \in Seq(A), Len(s) = 0 PROVE Expand(s \o R, v) = s \o X
    OBVIOUS
  <2>1. s = <<>>
    OBVIOUS
  <2> QED
    BY <1>a, <2>1, ConcatEmptySeq
<1>2. ASSUME NEW m \in Nat, m \in M PROVE m + 1 \in M
  <2> SUFFICES ASSUME NEW s \in Seq(A), Len(s) = m + 1 PROVE Expand(s \o R, v) = s \o X
    OBVIOUS
  <2> DEFINE c == s[1]
             u == Tail(s)
  <2>1. /\ c \in A /\ <<c>> \in Seq(A) /\ u \in Seq(A) /\ s = <<c>> \o u /\ Len(u) = m
    <3>1. s # <<>>
      OBVIOUS
    <3> QED
      BY <3>1, HeadAndTail
  <2> HIDE DEF c, u, A
  <2>2. <<c>> \in Seq(Codes) /\ u \in Seq(Codes) /\ u \o R \in Seq(Codes)
    BY <1>a, <1>b, <2>1, ConcatProperties
  <2>3. s \o R = <<c>> \o (u \o R) /\ s \o X = <<c>> \o (u \o X)
    <3> DEFINE b == <<c>>
    <3>1. b \in Seq(Codes) /\ X \in Seq(Codes)
      BY <1>a, <2>2
    <3> HIDE DEF b, X
    <3>2. /\ Join(Join(b, u), R) = Join(b, Join(u, R))
          /\ Join(Join(b, u), X) = Join(b, Join(u, X))
      BY <1>a, <2>2, <3>1, JoinAssociative
    <3> QED
      BY <2>1, <3>2 DEF Join, b
  <2>4. Expand(<<c>> \o (u \o R), v) = <<c>> \o Expand(u \o R, v)
    BY <2>1, <2>2, ExpandOther DEF A
  <2>5. Expand(u \o R, v) = u \o X
    BY <1>2, <2>1
  <2> QED
    BY <2>3, <2>4, <2>5
<1>3. Nat \subseteq M
  <2> HIDE DEF M
  <2> QED
    BY <1>1, <1>2, Induction
<1>4. Len(a) \in M
  BY <1>3
<1> QED
  BY <1>4

\* A variable is expanded to the value.
LEMMA ExpandVariable ==
  ASSUME NEW w, IsVariable(w, 1, Len(w)), NEW R \in Seq(Codes), NEW v \in Seq(Codes)
  PROVE  Expand(w \o R, v) = v \o Expand(R, v)
<1> DEFINE s == w \o R
           e == Len(w)
<1>1. /\ w \in Seq(Codes) /\ e \in Nat /\ 1 \in 1..e /\ w[1] = Open /\ w[e] = Close
      /\ \A j \in 1..(e - 1) : w[j] # Close
  BY DEF IsVariable
<1>2. w # <<>>
  BY <1>1
<1>3. IsRemainder(s, e, R) /\ \A i \in 1..e : s[i] = w[i]
  BY <1>1, <1>2, ConcatRemainder
<1> HIDE DEF s, e
<1>4. s \in Seq(Codes) /\ 1 \in 1..Len(s) /\ e \in 1..Len(s)
  BY <1>1, <1>3 DEF IsRemainder
<1>5. IsVariable(s, 1, e)
  BY <1>1, <1>3, <1>4 DEF IsVariable
<1>6. VariableEnd(s, 1) = e /\ e # 0
  BY <1>1, <1>5, VariableEndIs
<1>7. AfterVariable(s, 1) = e + 1 /\ ExpandedAt(s, v, 1) = v
  BY <1>6 DEF AfterVariable, ExpandedAt
<1>8. \A x \in Seq(Codes) : Expand(s, x) = ExpandedAt(s, x, 1) \o Expand(R, x)
  BY <1>3, <1>7, ExpandStep
<1>9. Expand(s, v) = v \o Expand(R, v)
  BY <1>7, <1>8
<1> QED
  BY <1>9 DEF s

\* A template begins with a byte or with a variable, and goes on with t.
BeginsWithByte(s, t) ==
  /\ s[1] \in Bytes /\ IsRemainder(s, 1, t) /\ t \in Seq(Bytes) /\ s = <<s[1]>> \o t
  /\ EncodeTemplate(s) = EncodeByte(s[1]) \o EncodeTemplate(t)
  /\ \A v \in Seq(Codes) : Expand(s, v) = <<s[1]>> \o Expand(t, v)

BeginsWithVariable(s, w, t) ==
  /\ w \in Seq(Bytes) /\ IsVariable(w, 1, Len(w))
  /\ IsRemainder(s, Len(w), t) /\ t \in Seq(Bytes) /\ s = w \o t
  /\ EncodeTemplate(s) = w \o EncodeTemplate(t)
  /\ \A v \in Seq(Codes) : Expand(s, v) = v \o Expand(t, v)

LEMMA TemplateCases ==
  ASSUME NEW s \in Seq(Bytes), s # <<>>
  PROVE  \E t : \/ BeginsWithByte(s, t)
                \/ \E w : BeginsWithVariable(s, w, t)
<1>0. /\ s \in Seq(Codes) /\ Len(s) \in Nat /\ 1 \in 1..Len(s) /\ Bytes \in SUBSET Codes
  <2>1. s \in Seq(Codes) /\ Bytes \in SUBSET Codes
    BY CodesOf
  <2> QED
    BY <2>1
<1>1. CASE VariableEnd(s, 1) = 0
  <2> DEFINE t == Tail(s)
  <2>1. /\ s[1] \in Bytes /\ t \in Seq(Bytes) /\ s = <<s[1]>> \o t
    BY HeadAndTail
  <2>2. IsRemainder(s, 1, t)
    BY <1>0, TailRemainder
  <2>3. AfterVariable(s, 1) = 1 + 1 /\ EncodedAt(s, 1) = EncodeByte(s[1])
        /\ \A v : ExpandedAt(s, v, 1) = <<s[1]>>
    BY <1>1 DEF AfterVariable, EncodedAt, ExpandedAt
  <2> HIDE DEF t
  <2>4. EncodeTemplate(s) = EncodeByte(s[1]) \o EncodeTemplate(t)
    BY <2>1, <2>2, <2>3, EncodeTemplateStep
  <2>a. \A x \in Seq(Codes) : Expand(s, x) = ExpandedAt(s, x, 1) \o Expand(t, x)
    BY <2>2, <2>3, ExpandStep
  <2>5. \A v \in Seq(Codes) : Expand(s, v) = <<s[1]>> \o Expand(t, v)
    BY <2>3, <2>a
  <2>6. BeginsWithByte(s, t)
    BY <2>1, <2>2, <2>4, <2>5 DEF BeginsWithByte
  <2> QED
    BY <2>6
<1>2. CASE VariableEnd(s, 1) # 0
  <2> DEFINE e == VariableEnd(s, 1)
             w == SubSeq(s, 1, e)
             t == From(s, e + 1)
  <2>1. /\ s[1] = Open /\ e \in (1 + 1)..Len(s) /\ s[e] = Close
        /\ \A j \in 1..(e - 1) : s[j] # Close
    BY <1>0, <1>2, VariableEndFacts
  <2>2. e \in 1..Len(s)
    BY <1>0, <2>1
  <2>3. /\ AfterVariable(s, 1) = e + 1 /\ EncodedAt(s, 1) = w
        /\ \A v : ExpandedAt(s, v, 1) = v
    BY <1>2 DEF AfterVariable, EncodedAt, ExpandedAt
  <2> HIDE DEF e
  <2>4. /\ w \in Seq(Bytes) /\ t \in Seq(Bytes) /\ Len(w) = e
        /\ \A i \in 1..e : w[i] = s[i]
        /\ IsRemainder(s, e, t)
    BY <1>0, <2>2, CutAt
  <2> HIDE DEF w, t
  <2>5. IsVariable(w, 1, Len(w))
    <3>1. w \in Seq(Codes)
      BY <2>4, CodesOf
    <3>2. 1 \in 1..e /\ e \in 1..e
      BY <1>0, <2>1
    <3>3. \A j \in 1..(e - 1) : j \in 1..e
      BY <1>0, <2>1
    <3> QED
      BY <2>1, <2>4, <3>1, <3>2, <3>3 DEF IsVariable
  <2>6. s = w \o t
    <3>1. /\ w \o t \in Seq(Bytes) /\ Len(w \o t) = Len(w) + Len(t)
          /\ \A i \in 1 .. Len(w) + Len(t) :
               (w \o t)[i] = IF i <= Len(w) THEN w[i] ELSE t[i - Len(w)]
      BY <2>4, ConcatProperties
    <3>2. Len(t) = Len(s) - e /\ \A i \in 1..Len(t) : t[i] = s[i + e]
      BY <2>4 DEF IsRemainder
    <3>3. Len(w \o t) = Len(s)
      BY <1>0, <2>2, <2>4, <3>1, <3>2
    <3>4. ASSUME NEW i \in 1..Len(s) PROVE (w \o t)[i] = s[i]
      <4>1. CASE i <= e
        BY <1>0, <2>2, <2>4, <3>1, <3>3, <4>1
      <4>2. CASE ~(i <= e)
        <5>1. i - e \in 1..Len(t) /\ i - e + e = i
          BY <1>0, <2>2, <3>2, <4>2
        <5>2. t[i - e] = s[i - e + e]
          BY <3>2, <5>1
        <5>3. (w \o t)[i] = t[i - e]
          BY <2>4, <3>1, <3>3, <4>2
        <5> QED
          BY <5>1, <5>2, <5>3
      <4> QED
        BY <4>1, <4>2
    <3> QED
      BY <3>1, <3>3, <3>4, SeqEqual
  <2>7. EncodeTemplate(s) = w \o EncodeTemplate(t)
    BY <2>3, <2>4, EncodeTemplateStep
  <2>a. \A x \in Seq(Codes) : Expand(s, x) = ExpandedAt(s, x, 1) \o Expand(t, x)
    BY <2>3, <2>4, ExpandStep
  <2>8. \A v \in Seq(Codes) : Expand(s, v) = v \o Expand(t, v)
    BY <2>3, <2>a
  <2>9. BeginsWithVariable(s, w, t)
    BY <2>4, <2>5, <2>6, <2>7, <2>8 DEF BeginsWithVariable
  <2> QED
    BY <2>9
<1> QED
  BY <1>1, <1>2

\* What is left of a template without percent signs in its variables.
LEMMA PlainSuffix ==
  ASSUME NEW s, NEW k, NEW t, IsRemainder(s, k, t), PlainVariables(s)
  PROVE  PlainVariables(t)
<1>1. /\ Len(s) \in Nat /\ k \in 1..Len(s) /\ Len(t) = Len(s) - k
      /\ DOMAIN s = 1..Len(s) /\ DOMAIN t = 1..Len(t) /\ Len(t) \in Nat
      /\ \A i \in 1..Len(t) : t[i] = s[i + k]
  BY DEF IsRemainder
<1> SUFFICES ASSUME NEW a \in DOMAIN t, NEW b \in DOMAIN t, NEW c \in DOMAIN t,
                    a < b, b < c, t[a] = Open, t[b] = Percent, t[c] = Close
             PROVE  \E m \in a..b : t[m] = Close
  BY DEF PlainVariables
<1>2. /\ a + k \in DOMAIN s /\ b + k \in DOMAIN s /\ c + k \in DOMAIN s
      /\ a + k < b + k /\ b + k < c + k
  BY <1>1
<1>3. s[a + k] = Open /\ s[b + k] = Percent /\ s[c + k] = Close
  BY <1>1
<1>4. PICK m \in (a + k)..(b + k) : s[m] = Close
  BY <1>2, <1>3 DEF PlainVariables
<1>5. m - k \in a..b /\ m - k \in 1..Len(t) /\ m - k + k = m
  BY <1>1
<1>6. t[m - k] = s[m - k + k]
  BY <1>1, <1>5
<1> QED
  BY <1>4, <1>5, <1>6

\* Such a variable decodes to itself.
LEMMA PlainVariable ==
  ASSUME NEW s, NEW w, NEW t, BeginsWithVariable(s, w, t), PlainVariables(s)
  PROVE  w \in Seq(Codes \ {Percent})
<1>1. /\ w \in Seq(Codes) /\ Len(w) \in Nat /\ 1 \in 1..Len(w)
      /\ w[1] = Open /\ w[Len(w)] = Close
      /\ \A j \in 1..(Len(w) - 1) : w[j] # Close
  BY DEF BeginsWithVariable, IsVariable
<1>2. /\ s = w \o t /\ t \in Seq(Codes) /\ w # <<>>
  BY <1>1, CodesOf DEF BeginsWithVariable
<1>3. IsRemainder(s, Len(w), t) /\ \A i \in 1..Len(w) : s[i] = w[i]
  BY <1>1, <1>2, ConcatRemainder
<1>4. /\ DOMAIN s = 1..Len(s) /\ Len(w) \in 1..Len(s) /\ Len(s) \in Nat
  BY <1>3 DEF IsRemainder
<1>5. ASSUME NEW b \in 1..Len(w), w[b] = Percent PROVE FALSE
  <2>1. b # 1 /\ b # Len(w)
    BY <1>1, <1>5 DEF Open, Close, Percent
  <2>2. 1 < b /\ b < Len(w) /\ 1 \in DOMAIN s /\ b \in DOMAIN s /\ Len(w) \in DOMAIN s
    BY <1>1, <1>4, <2>1
  <2>3. s[1] = Open /\ s[b] = Percent /\ s[Len(w)] = Close
    BY <1>1, <1>3, <1>5
  <2>4. PICK m \in 1..b : s[m] = Close
    BY <2>2, <2>3 DEF PlainVariables
  <2>5. m \in 1..Len(w) /\ m \in 1..(Len(w) - 1)
    BY <1>1, <2>2
  <2> QED
    BY <1>1, <1>3, <2>4, <2>5
<1>6. \A i \in 1..Len(w) : w[i] \in Codes \ {Percent}
  BY <1>1, <1>5
<1> QED
  BY <1>1, <1>6

\* percent_decode undoes percent_encode_resource_template, unless a variable
\* has a percent sign in its name.
THEOREM TemplateRoundTrip ==
  ASSUME NEW s \in Seq(Bytes), PlainVariables(s)
  PROVE  Decode(EncodeTemplate(s)) = s
<1> DEFINE Holds(u) == PlainVariables(u) => Decode(EncodeTemplate(u)) = u
           M == {m \in Nat : \A u \in Seq(Bytes) : Len(u) = m => Holds(u)}
<1>1. ASSUME NEW m \in Nat, \A l \in 0..(m - 1) : l \in M PROVE m \in M
  <2> SUFFICES ASSUME NEW u \in Seq(Bytes), Len(u) = m, PlainVariables(u)
               PROVE  Decode(EncodeTemplate(u)) = u
    OBVIOUS
  <2>1. CASE u = <<>>
    BY <2>1, EmptyTexts
  <2>2. CASE u # <<>>
    <3>1. PICK t : BeginsWithByte(u, t) \/ \E w : BeginsWithVariable(u, w, t)
      BY <2>2, TemplateCases
    <3>2. ASSUME NEW k, IsRemainder(u, k, t), t \in Seq(Bytes)
          PROVE  Decode(EncodeTemplate(t)) = t
      <4>a. PlainVariables(t)
        BY <3>2, PlainSuffix
      <4>b. Len(t) \in 0..(m - 1)
        BY <3>2 DEF IsRemainder
      <4>1. Len(t) \in 0..(m - 1) /\ PlainVariables(t)
        BY <4>a, <4>b
      <4>2. Len(t) \in M
        BY <1>1, <4>1
      <4> QED
        BY <3>2, <4>1, <4>2
    <3>3. t \in Seq(Bytes) => EncodeTemplate(t) \in Seq(Codes)
      BY TemplateTypes, CodesOf
    <3>4. CASE BeginsWithByte(u, t)
      <4>1. /\ u[1] \in Bytes /\ IsRemainder(u, 1, t) /\ t \in Seq(Bytes) /\ u = <<u[1]>> \o t
            /\ EncodeTemplate(u) = EncodeByte(u[1]) \o EncodeTemplate(t)
        BY <3>4 DEF BeginsWithByte
      <4>2. Decode(EncodeTemplate(t)) = t
        BY <3>2, <4>1
      <4>3. Decode(EncodeByte(u[1]) \o EncodeTemplate(t)) = <<u[1]>> \o Decode(EncodeTemplate(t))
        BY <3>3, <4>1, DecodeEncodedByte
      <4> QED
        BY <4>1, <4>2, <4>3
    <3>5. ASSUME NEW w, BeginsWithVariable(u, w, t) PROVE Decode(EncodeTemplate(u)) = u
      <4>1. /\ IsRemainder(u, Len(w), t) /\ t \in Seq(Bytes) /\ u = w \o t
            /\ EncodeTemplate(u) = w \o EncodeTemplate(t)
        BY <3>5 DEF BeginsWithVariable
      <4>2. Decode(EncodeTemplate(t)) = t
        BY <3>2, <4>1
      <4>3. w \in Seq(Codes \ {Percent})
        BY <3>5, PlainVariable
      <4>4. Decode(w \o EncodeTemplate(t)) = w \o Decode(EncodeTemplate(t))
        BY <3>3, <4>1, <4>3, DecodePrefix
      <4> QED
        BY <4>1, <4>2, <4>4
    <3> QED
      BY <3>1, <3>4, <3>5
  <2> QED
    BY <2>1, <2>2
<1>2. Nat \subseteq M
  <2> HIDE DEF M
  <2> QED
    BY <1>1, StrongInduction
<1>3. Len(s) \in M
  BY <1>2
<1> QED
  BY <1>3

\* A client that expands the variables of an encoded template by encoded values
\* gets what decodes to the upstream's template with the values in it.
THEOREM ExpansionRoundTrip ==
  ASSUME NEW s \in Seq(Bytes), NEW v \in Seq(Bytes)
  PROVE  Decode(Expand(EncodeTemplate(s), Encode(v))) = Expand(s, v)
<1> DEFINE E == Encode(v)
           M == {m \in Nat : \A u \in Seq(Bytes) :
                   Len(u) = m => Decode(Expand(EncodeTemplate(u), E)) = Expand(u, v)}
<1>a. v \in Seq(Codes) /\ E \in Seq(Codes)
  BY EncodeType, PlainSequences, CodesOf
<1>1. ASSUME NEW m \in Nat, \A l \in 0..(m - 1) : l \in M PROVE m \in M
  <2> SUFFICES ASSUME NEW u \in Seq(Bytes), Len(u) = m
               PROVE  Decode(Expand(EncodeTemplate(u), E)) = Expand(u, v)
    OBVIOUS
  <2>1. CASE u = <<>>
    BY <2>1, EmptyTexts
  <2>2. CASE u # <<>>
    <3>1. PICK t : BeginsWithByte(u, t) \/ \E w : BeginsWithVariable(u, w, t)
      BY <2>2, TemplateCases
    <3> DEFINE X == EncodeTemplate(t)
    <3>2. t \in Seq(Bytes) /\ Len(t) \in 0..(m - 1)
      BY <3>1 DEF BeginsWithByte, BeginsWithVariable, IsRemainder
    <3>3. Decode(Expand(X, E)) = Expand(t, v)
      <4>1. Len(t) \in M
        BY <1>1, <3>2
      <4> QED
        BY <3>2, <4>1
    <3>4. X \in Seq(Codes)
      BY <3>2, TemplateTypes, CodesOf
    <3> HIDE DEF X, E
    <3>5. Expand(X, E) \in Seq(Codes)
      BY <1>a, <3>4, ExpandType
    <3>6. CASE BeginsWithByte(u, t)
      <4>1. /\ u[1] \in Bytes /\ EncodeTemplate(u) = EncodeByte(u[1]) \o X
            /\ Expand(u, v) = <<u[1]>> \o Expand(t, v)
        BY <1>a, <3>6 DEF BeginsWithByte, X
      <4>2. EncodeByte(u[1]) \in Seq(Codes \ {Open})
        BY <4>1, EncodeByteType, PlainSequences
      <4>3. Expand(EncodeByte(u[1]) \o X, E) = EncodeByte(u[1]) \o Expand(X, E)
        BY <1>a, <3>4, <4>2, ExpandPrefix
      <4>4. Decode(EncodeByte(u[1]) \o Expand(X, E)) = <<u[1]>> \o Decode(Expand(X, E))
        BY <3>5, <4>1, DecodeEncodedByte
      <4> QED
        BY <3>3, <4>1, <4>3, <4>4
    <3>7. ASSUME NEW w, BeginsWithVariable(u, w, t)
          PROVE  Decode(Expand(EncodeTemplate(u), E)) = Expand(u, v)
      <4>1. /\ IsVariable(w, 1, Len(w)) /\ EncodeTemplate(u) = w \o X
            /\ Expand(u, v) = v \o Expand(t, v)
        BY <1>a, <3>7 DEF BeginsWithVariable, X
      <4>2. Expand(w \o X, E) = E \o Expand(X, E)
        BY <1>a, <3>4, <4>1, ExpandVariable
      <4>3. Decode(E \o Expand(X, E)) = v \o Decode(Expand(X, E))
        BY <3>5, DecodeEncoded DEF E
      <4> QED
        BY <3>3, <4>1, <4>2, <4>3
    <3> QED
      BY <3>1, <3>6, <3>7
  <2> QED
    BY <2>1, <2>2
<1>2. Nat \subseteq M
  <2> HIDE DEF M
  <2> QED
    BY <1>1, StrongInduction
<1>3. Len(s) \in M
  BY <1>2
<1> QED
  BY <1>3

-----------------------------------------------------------------------------
(* Routing what was exposed.                                               *)

\* The first separator of a text is where the text before it ends.
IsSplit(p, c, a, R) ==
  /\ c \in Codes /\ a \in Seq(Codes \ {c}) /\ R \in Seq(Codes)
  /\ p = a \o (<<c>> \o R)

LEMMA SplitAtSeparator ==
  ASSUME NEW p, NEW c, NEW a, NEW R, IsSplit(p, c, a, R)
  PROVE  /\ Separator(p, c) = Len(a) + 1
         /\ SubSeq(p, 1, Separator(p, c) - 1) = a
         /\ From(p, Separator(p, c) + 1) = R
<1> DEFINE n == Len(a)
           I == {i \in 1..Len(p) : p[i] = c}
<1>a. /\ c \in Codes /\ a \in Seq(Codes \ {c}) /\ R \in Seq(Codes)
      /\ p = a \o (<<c>> \o R)
  BY DEF IsSplit
<1>1. /\ a \in Seq(Codes) /\ n \in Nat /\ Len(R) \in Nat /\ <<c>> \in Seq(Codes)
      /\ Len(<<c>>) = 1 /\ <<c>>[1] = c /\ \A i \in 1..n : a[i] # c
  BY <1>a
<1>2. /\ <<c>> \o R \in Seq(Codes) /\ Len(<<c>> \o R) = 1 + Len(R)
      /\ \A i \in 1 .. 1 + Len(R) : (<<c>> \o R)[i] = IF i <= 1 THEN c ELSE R[i - 1]
  <2> DEFINE b == <<c>>
  <2> HIDE DEF b
  <2>1. /\ b \o R \in Seq(Codes) /\ Len(b \o R) = Len(b) + Len(R)
        /\ \A i \in 1 .. Len(b) + Len(R) : (b \o R)[i] = IF i <= Len(b) THEN b[i]
                                                        ELSE R[i - Len(b)]
    BY <1>a, <1>1, ConcatProperties DEF b
  <2>2. Len(b) = 1 /\ b[1] = c
    BY <1>1 DEF b
  <2>3. \A i \in 1 .. 1 + Len(R) : i <= 1 => i = 1
    BY <1>1
  <2> QED
    BY <2>1, <2>2, <2>3 DEF b
<1>3. /\ p \in Seq(Codes) /\ Len(p) = n + 1 + Len(R)
      /\ \A i \in 1 .. Len(p) : p[i] = IF i <= n THEN a[i] ELSE (<<c>> \o R)[i - n]
  <2> DEFINE b == <<c>> \o R
  <2>1. b \in Seq(Codes) /\ Len(b) = 1 + Len(R)
    BY <1>2
  <2> HIDE DEF b
  <2>2. /\ a \o b \in Seq(Codes) /\ Len(a \o b) = Len(a) + Len(b)
        /\ \A i \in 1 .. Len(a) + Len(b) : (a \o b)[i] = IF i <= Len(a) THEN a[i]
                                                        ELSE b[i - Len(a)]
    BY <1>1, <2>1, ConcatProperties
  <2>3. p = a \o b
    BY <1>a DEF b
  <2>4. Len(p) = n + 1 + Len(R)
    BY <1>1, <2>1, <2>2, <2>3
  <2> QED
    BY <2>1, <2>2, <2>3, <2>4 DEF b
<1>4. /\ \A i \in 1..n : p[i] = a[i]
      /\ p[n + 1] = c
      /\ \A i \in 1..Len(R) : p[i + n + 1] = R[i]
  <2>1. \A i \in 1..n : p[i] = a[i]
    BY <1>1, <1>3
  <2>2. p[n + 1] = c
    <3>1. n + 1 \in 1..Len(p) /\ ~(n + 1 <= n) /\ n + 1 - n = 1 /\ 1 \in 1..(1 + Len(R))
      BY <1>1, <1>3
    <3> QED
      BY <1>2, <1>3, <3>1
  <2>3. ASSUME NEW i \in 1..Len(R) PROVE p[i + n + 1] = R[i]
    <3>1. /\ i + n + 1 \in 1..Len(p) /\ ~(i + n + 1 <= n) /\ i + n + 1 - n = i + 1
          /\ i + 1 \in 1..(1 + Len(R)) /\ ~(i + 1 <= 1) /\ i + 1 - 1 = i
      BY <1>1, <1>3
    <3> QED
      BY <1>2, <1>3, <3>1
  <2> QED
    BY <2>1, <2>2, <2>3
<1>5. Separator(p, c) = n + 1
  <2> DEFINE q == Min(I)
  <2>1. n + 1 \in I /\ I \in SUBSET Nat
    BY <1>1, <1>3, <1>4
  <2>2. q \in I /\ q <= n + 1
    <3> HIDE DEF I
    <3> QED
      BY <2>1, MinOfNaturals
  <2>3. Separator(p, c) = q
    <3>1. I # {}
      BY <2>1
    <3> QED
      BY <3>1 DEF Separator, SelectInSeq
  <2> HIDE DEF q
  <2>4. q \in Nat /\ q >= 1 /\ p[q] = c
    BY <2>2
  <2>5. ~(q <= n)
    <3> SUFFICES ASSUME q <= n PROVE FALSE
      OBVIOUS
    <3>1. q \in 1..n
      BY <1>1, <2>4
    <3> QED
      BY <1>1, <1>4, <2>4, <3>1
  <2>6. q = n + 1
    BY <1>1, <2>2, <2>4, <2>5
  <2> QED
    BY <2>3, <2>6
<1> HIDE DEF n
<1>6. SubSeq(p, 1, n) = a
  <2>1. n <= Len(p) /\ Len(p) \in Nat
    BY <1>1, <1>3
  <2>2. /\ SubSeq(p, 1, n) \in Seq(Codes) /\ Len(SubSeq(p, 1, n)) = n
        /\ \A i \in 1..n : SubSeq(p, 1, n)[i] = p[i]
    BY <1>1, <1>3, <2>1
  <2>3. Len(a) = n
    BY DEF n
  <2> QED
    BY <1>a, <1>1, <1>4, <2>2, <2>3, SeqEqual
<1>7. From(p, n + 2) = R
  <2>1. n + 2 <= Len(p) + 1 /\ Len(p) \in Nat /\ Len(p) - (n + 2) + 1 = Len(R)
    BY <1>1, <1>3
  <2>2. /\ From(p, n + 2) \in Seq(Codes) /\ Len(From(p, n + 2)) = Len(R)
        /\ \A i \in 1..Len(R) : From(p, n + 2)[i] = p[n + 2 + i - 1]
    <3>1. SubSeq(p, n + 2, Len(p)) \in Seq(Codes)
      BY <1>1, <1>3, <2>1
    <3>2. Len(SubSeq(p, n + 2, Len(p))) = Len(R)
      BY <1>1, <1>3, <2>1
    <3>3. \A i \in 1..Len(R) : SubSeq(p, n + 2, Len(p))[i] = p[n + 2 + i - 1]
      BY <1>1, <1>3, <2>1
    <3> QED
      BY <3>1, <3>2, <3>3 DEF From
  <2>3. ASSUME NEW i \in 1..Len(R) PROVE From(p, n + 2)[i] = R[i]
    <3>1. n + 2 + i - 1 = i + n + 1
      BY <1>1
    <3>2. From(p, n + 2)[i] = p[i + n + 1]
      BY <2>2, <3>1
    <3> QED
      BY <1>4, <3>2
  <2> QED
    BY <1>a, <2>2, <2>3, SeqEqual
<1>8. Separator(p, c) - 1 = n /\ Separator(p, c) + 1 = n + 2
  BY <1>1, <1>5
<1>9. /\ Separator(p, c) = n + 1
      /\ SubSeq(p, 1, Separator(p, c) - 1) = a
      /\ From(p, Separator(p, c) + 1) = R
  BY <1>5, <1>6, <1>7, <1>8
<1> QED
  BY <1>9 DEF n

LEMMA TailOfConcat ==
  ASSUME NEW c \in Codes, NEW Q \in Seq(Codes)
  PROVE  (<<c>> \o Q)[1] = c /\ Tail(<<c>> \o Q) = Q /\ <<c>> \o Q \in Seq(Codes)
<1> DEFINE a == <<c>>
           p == a \o Q
<1>1. a \in Seq(Codes) /\ a # <<>> /\ Len(a) = 1 /\ a[1] = c
  OBVIOUS
<1> HIDE DEF a
<1>2. IsRemainder(p, 1, Q) /\ \A i \in 1..1 : p[i] = a[i]
  BY <1>1, ConcatRemainder
<1> HIDE DEF p
<1>3. /\ p \in Seq(Codes) /\ Q \in Seq(Codes) /\ 1 \in 1..Len(p) /\ Len(Q) = Len(p) - 1
      /\ \A i \in 1..Len(Q) : Q[i] = p[i + 1]
  BY <1>2 DEF IsRemainder
<1>4. p # <<>> /\ p[1] = c
  BY <1>1, <1>2, <1>3
<1>5. /\ Tail(p) \in Seq(Codes) /\ Len(Tail(p)) = Len(p) - 1
      /\ \A i \in 1..Len(Tail(p)) : Tail(p)[i] = p[i + 1]
  BY <1>3, <1>4, HeadTailProperties
<1>6. Tail(p) = Q
  BY <1>3, <1>5, SeqEqual
<1> QED
  BY <1>3, <1>4, <1>6 DEF p, a

\* What a resource identifier or a template looks like to the gateway.
LEMMA UriParts ==
  ASSUME NEW id \in Seq(Bytes), NEW X \in Seq(Codes)
  PROVE  /\ <<Scheme>> \o Encode(id) \o <<Slash>> \o X =
              <<Scheme>> \o (Encode(id) \o (<<Slash>> \o X))
         /\ Encode(id) \o (<<Slash>> \o X) \in Seq(Codes)
<1> DEFINE a == <<Scheme>>
           E == Encode(id)
           b == <<Slash>>
<1>1. a \in Seq(Codes) /\ b \in Seq(Codes) /\ X \in Seq(Codes)
  BY CodesOf
<1>2. E \in Seq(Codes)
  BY EncodeType, PlainSequences
<1> HIDE DEF a, b, E
<1>3. ((a \o E) \o b) \o X = a \o (E \o (b \o X))
  <2>1. Join(a, E) \in Seq(Codes) /\ Join(b, X) \in Seq(Codes)
    BY <1>1, <1>2, JoinType
  <2>2. Join(Join(Join(a, E), b), X) = Join(Join(a, E), Join(b, X))
    BY <1>1, <2>1, JoinAssociative
  <2>3. Join(Join(a, E), Join(b, X)) = Join(a, Join(E, Join(b, X)))
    BY <1>1, <1>2, <2>1, JoinAssociative
  <2> QED
    BY <2>2, <2>3 DEF Join
<1>4. E \o (b \o X) \in Seq(Codes)
  BY <1>1, <1>2, ConcatProperties
<1> QED
  BY <1>3, <1>4 DEF a, b, E

LEMMA ResolveUriParts ==
  ASSUME NEW id \in Seq(Bytes), NEW X \in Seq(Codes)
  PROVE  ResolveUri(<<Scheme>> \o Encode(id) \o <<Slash>> \o X) = Accept(id, Decode(X))
<1> DEFINE E == Encode(id)
           body == E \o (<<Slash>> \o X)
           p == <<Scheme>> \o E \o <<Slash>> \o X
<1>1. p = <<Scheme>> \o body /\ body \in Seq(Codes)
  BY UriParts
<1>2. E \in Seq(Codes \ {Slash}) /\ Slash \in Codes /\ Scheme \in Codes
  BY EncodeType, PlainSequences, CodesOf
<1>3. Decode(E) = id
  BY CodecRoundTrip
<1> HIDE DEF E
<1>4. /\ Separator(body, Slash) = Len(E) + 1
      /\ SubSeq(body, 1, Separator(body, Slash) - 1) = E
      /\ From(body, Separator(body, Slash) + 1) = X
  <2>1. body = E \o (<<Slash>> \o X)
    OBVIOUS
  <2>2. IsSplit(body, Slash, E, X)
    BY <1>2, <2>1 DEF IsSplit
  <2> HIDE DEF body
  <2> QED
    BY <2>2, SplitAtSeparator
<1> HIDE DEF p, body
<1>5. p[1] = Scheme /\ Tail(p) = body
  BY <1>1, <1>2, TailOfConcat
<1>6. Separator(body, Slash) # 0
  <2>1. Len(E) \in Nat
    BY <1>2
  <2> QED
    BY <1>4, <2>1
<1>7. ResolveUri(p) = Accept(Decode(E), Decode(X))
  BY <1>4, <1>5, <1>6 DEF ResolveUri
<1> QED
  BY <1>3, <1>7 DEF p, E

\* An enabled upstream's identifier is accepted, unless nothing is left of it.
LEMMA AcceptEnabled ==
  ASSUME NEW id \in Enabled, NEW text \in Seq(Bytes)
  PROVE  Accept(id, text) = IF text = <<>> THEN Rejected ELSE [id |-> id, raw |-> text]
<1>1. ValidId(id)
  BY EnabledAssumption
<1>2. ~Contains(text, Invalid)
  <2>1. \A i \in 1..Len(text) : text[i] \in Bytes
    OBVIOUS
  <2>2. Invalid \notin Bytes
    BY DEF Bytes, Invalid
  <2> QED
    BY <2>1, <2>2 DEF Contains
<1> QED
  BY <1>1, <1>2 DEF Accept

LEMMA RejectedIsNoRoute ==
  /\ Rejected.id \notin Enabled /\ \A id \in Enabled : id \in Seq(Bytes) /\ id # <<>>
  /\ \A id \in Enabled : \A r : [id |-> id, raw |-> r] # Rejected
<1>1. \A id \in Enabled : id \in Seq(Bytes) /\ id # <<>>
  BY EnabledAssumption DEF ValidId
<1>2. Rejected.id = <<>>
  BY DEF Rejected
<1>3. \A id \in Enabled : \A r : [id |-> id, raw |-> r] # Rejected
  <2> SUFFICES ASSUME NEW id \in Enabled, NEW r, [id |-> id, raw |-> r] = Rejected
               PROVE  FALSE
    OBVIOUS
  <2>1. [id |-> id, raw |-> r].id = id
    OBVIOUS
  <2> QED
    BY <1>1, <1>2, <2>1
<1> QED
  BY <1>1, <1>2, <1>3

\* What is exposed under an encoded identifier is routed to what it decodes to.
LEMMA RouteParts ==
  ASSUME NEW k \in {"resource", "template"}, NEW id \in Enabled,
         NEW X \in Seq(Codes), Decode(X) \in Seq(Bytes)
  PROVE  Route(k, <<Scheme>> \o Encode(id) \o <<Slash>> \o X) =
           IF Decode(X) = <<>> THEN Rejected ELSE [id |-> id, raw |-> Decode(X)]
<1> DEFINE p == <<Scheme>> \o Encode(id) \o <<Slash>> \o X
<1>1. id \in Seq(Bytes)
  BY RejectedIsNoRoute
<1>2. ResolveUri(p) = Accept(id, Decode(X))
  BY <1>1, ResolveUriParts
<1>3. ResolveUri(p) = IF Decode(X) = <<>> THEN Rejected ELSE [id |-> id, raw |-> Decode(X)]
  BY <1>2, AcceptEnabled
<1> HIDE DEF p
<1>4. Route(k, p) = IF ResolveUri(p).id \in Enabled THEN ResolveUri(p) ELSE Rejected
  BY DEF Route
<1>5. Route(k, p) = IF Decode(X) = <<>> THEN Rejected ELSE [id |-> id, raw |-> Decode(X)]
  <2>1. CASE Decode(X) = <<>>
    BY <1>3, <1>4, <2>1, RejectedIsNoRoute
  <2>2. CASE Decode(X) # <<>>
    <3>1. ResolveUri(p) = [id |-> id, raw |-> Decode(X)]
      BY <1>3, <2>2
    <3>2. ResolveUri(p).id = id
      BY <3>1
    <3> QED
      BY <1>4, <2>2, <3>1, <3>2
  <2> QED
    BY <2>1, <2>2
<1> QED
  BY <1>5 DEF p

\* resolve_*_route undoes expose_*: dots, slashes, percent signs and braces in
\* what the upstream published included.
THEOREM RouteOfExposed ==
  ASSUME NEW k \in Kinds, NEW id \in Enabled, NEW r \in Seq(Bytes) \ {<<>>},
         k = "template" => PlainVariables(r)
  PROVE  Route(k, Expose(k, id, r)) = [id |-> id, raw |-> r]
<1>0. id \in Seq(Bytes) /\ r \in Seq(Bytes) /\ r # <<>> /\ r \in Seq(Codes)
  BY RejectedIsNoRoute, CodesOf
<1>1. CASE k = "name"
  <2> DEFINE p == id \o <<Dot>> \o r
  <2>1. id \in Seq(Codes \ {Dot}) /\ Dot \in Codes
    <3>1. \A i \in 1..Len(id) : id[i] \in ToSet(id)
      BY <1>0 DEF ToSet
    <3>2. ToSet(id) \subseteq (33 .. 126) \ {Dot, Slash, Backslash}
      BY EnabledAssumption DEF ValidId
    <3>3. \A x \in (33 .. 126) \ {Dot, Slash, Backslash} : x \in Codes \ {Dot}
      BY DEF Codes, Invalid
    <3>4. \A i \in 1..Len(id) : id[i] \in Codes \ {Dot}
      BY <3>1, <3>2, <3>3
    <3> QED
      BY <1>0, <3>4 DEF Dot, Codes, Invalid
  <2>2. p = id \o (<<Dot>> \o r)
    <3> DEFINE b == <<Dot>>
    <3>1. b \in Seq(Codes) /\ id \in Seq(Codes)
      BY <2>1
    <3> HIDE DEF b
    <3>2. (id \o b) \o r = id \o (b \o r)
      <4>1. Join(Join(id, b), r) = Join(id, Join(b, r))
        BY <1>0, <3>1, JoinAssociative
      <4> QED
        BY <4>1 DEF Join
    <3> QED
      BY <3>2 DEF b
  <2> HIDE DEF p
  <2>3. /\ Separator(p, Dot) = Len(id) + 1
        /\ SubSeq(p, 1, Separator(p, Dot) - 1) = id
        /\ From(p, Separator(p, Dot) + 1) = r
    <3>1. IsSplit(p, Dot, id, r)
      BY <1>0, <2>1, <2>2 DEF IsSplit
    <3> QED
      BY <3>1, SplitAtSeparator
  <2>4. Separator(p, Dot) # 0
    BY <1>0, <2>3
  <2>5. ResolveName(p) = Accept(id, r)
    BY <2>3, <2>4 DEF ResolveName
  <2>6. ResolveName(p) = [id |-> id, raw |-> r]
    BY <1>0, <2>5, AcceptEnabled
  <2>7. Route("name", p) = [id |-> id, raw |-> r]
    BY <2>6 DEF Route
  <2>8. Expose(k, id, r) = p
    BY <1>1 DEF Expose, p
  <2> QED
    BY <1>1, <2>7, <2>8
<1>2. CASE k # "name"
  <2> DEFINE X == IF k = "template" THEN EncodeTemplate(r) ELSE Encode(r)
  <2>1. X \in Seq(Codes) /\ Decode(X) = r
    BY <1>0, EncodeType, PlainSequences, TemplateTypes, CodesOf, CodecRoundTrip,
       TemplateRoundTrip
  <2>2. Expose(k, id, r) = <<Scheme>> \o Encode(id) \o <<Slash>> \o X
    BY <1>2 DEF Expose
  <2>3. k \in {"resource", "template"}
    BY <1>2 DEF Kinds
  <2> HIDE DEF X
  <2> QED
    BY <1>0, <2>1, <2>2, <2>3, RouteParts
<1> QED
  BY <1>1, <1>2

LEMMA ExpandExposed ==
  ASSUME NEW id \in Enabled, NEW r \in Seq(Bytes), NEW v \in Seq(Bytes)
  PROVE  Expand(Expose("template", id, r), Encode(v)) =
           <<Scheme>> \o Encode(id) \o <<Slash>> \o Expand(EncodeTemplate(r), Encode(v))
<1> DEFINE a == <<Scheme>>
           b == <<Slash>>
           E == Encode(id)
           V == Encode(v)
           X == EncodeTemplate(r)
           A == Codes \ {Open}
<1>1. a \in Seq(A) /\ b \in Seq(A)
  BY CodesOf DEF Scheme, Slash, Open
<1>2. E \in Seq(A) /\ V \in Seq(Codes) /\ X \in Seq(Codes)
  <2>1. id \in Seq(Bytes)
    BY RejectedIsNoRoute
  <2> QED
    BY <2>1, EncodeType, PlainSequences, TemplateTypes, CodesOf
<1> HIDE DEF a, b, E, V, X, A
<1>3. (a \o E) \o b \in Seq(A)
  BY <1>1, <1>2, ConcatProperties
<1> DEFINE c == (a \o E) \o b
<1> HIDE DEF c
<1>4. Expand(c \o X, V) = c \o Expand(X, V)
  BY <1>2, <1>3, ExpandPrefix DEF A, c
<1> QED
  BY <1>4 DEF Expose, a, b, c, E, V, X

\* What a client expands is routed to the upstream's own template with the
\* values in it.
THEOREM RouteOfExpansion ==
  ASSUME NEW id \in Enabled, NEW r \in Seq(Bytes), NEW v \in Seq(Bytes)
  PROVE  Route("template", Expand(Expose("template", id, r), Encode(v))) =
           IF Expand(r, v) = <<>> THEN Rejected ELSE [id |-> id, raw |-> Expand(r, v)]
<1> DEFINE X == Expand(EncodeTemplate(r), Encode(v))
<1>1. X \in Seq(Codes)
  BY TemplateTypes, EncodeType, PlainSequences, CodesOf
<1>2. Decode(X) = Expand(r, v) /\ Expand(r, v) \in Seq(Bytes)
  BY ExpansionRoundTrip, TemplateTypes
<1>3. Expand(Expose("template", id, r), Encode(v)) = <<Scheme>> \o Encode(id) \o <<Slash>> \o X
  BY ExpandExposed
<1>4. "template" \in {"resource", "template"}
  OBVIOUS
<1> HIDE DEF X
<1> QED
  BY <1>1, <1>2, <1>3, <1>4, RouteParts

-----------------------------------------------------------------------------
(* The life of an identifier.                                              *)

LEMMA SeparatorRange ==
  ASSUME NEW s \in Seq(Codes), NEW c
  PROVE  Separator(s, c) \in 0..Len(s)
<1> DEFINE I == {i \in 1..Len(s) : s[i] = c}
<1>1. Len(s) \in Nat
  OBVIOUS
<1>2. CASE I = {}
  <2>1. Separator(s, c) = 0
    BY <1>2 DEF Separator, SelectInSeq
  <2> QED
    BY <1>1, <2>1
<1>3. CASE I # {}
  <2>1. Separator(s, c) = Min(I)
    BY <1>3 DEF Separator, SelectInSeq
  <2>2. I \in SUBSET Nat
    BY <1>1
  <2>3. Min(I) \in I
    <3> HIDE DEF I
    <3> QED
      BY <1>3, <2>2, MinOfNaturals
  <2> QED
    BY <1>1, <2>1, <2>3
<1> QED
  BY <1>2, <1>3

LEMMA PartsType ==
  ASSUME NEW s \in Seq(Bytes), NEW c
  PROVE  From(s, Separator(s, c) + 1) \in Seq(Bytes)
<1>1. s \in Seq(Codes) /\ Len(s) \in Nat
  BY CodesOf
<1>2. Separator(s, c) \in 0..Len(s)
  BY <1>1, SeparatorRange
<1>3. ASSUME NEW m \in 1..(Len(s) + 1) PROVE SubSeq(s, m, Len(s)) \in Seq(Bytes)
  BY <1>1
<1>4. Separator(s, c) + 1 \in 1..(Len(s) + 1)
  BY <1>1, <1>2
<1> QED
  BY <1>3, <1>4 DEF From

\* What a client sends: a name, or something that begins like a gateway URI.
IsRequest(k, p) ==
  IF k = "name" THEN p \in Seq(Bytes)
  ELSE \E body \in Seq(Bytes) : p = <<Scheme>> \o body

RouteTargets == [id : Enabled, raw : Seq(Bytes) \ {<<>>}]

LEMMA AcceptType ==
  ASSUME NEW id, NEW text \in Seq(Decoded)
  PROVE  \/ Accept(id, text) = Rejected
         \/ Accept(id, text) = [id |-> id, raw |-> text] /\ text \in Seq(Bytes) \ {<<>>}
<1>1. CASE ValidId(id) /\ text # <<>> /\ ~Contains(text, Invalid)
  <2>1. \A i \in 1..Len(text) : text[i] \in Decoded /\ text[i] # Invalid
    BY <1>1 DEF Contains
  <2>2. \A i \in 1..Len(text) : text[i] \in Bytes
    BY <2>1 DEF Decoded
  <2>3. text \in Seq(Bytes)
    BY <2>2
  <2> QED
    BY <1>1, <2>3 DEF Accept
<1>2. CASE ~(ValidId(id) /\ text # <<>> /\ ~Contains(text, Invalid))
  <2>1. Accept(id, text) = Rejected
    BY <1>2 DEF Accept
  <2> QED
    BY <2>1
<1> QED
  BY <1>1, <1>2

\* A request is rejected, or routed to an enabled upstream under an identifier
\* the upstream could have published.
LEMMA RouteType ==
  ASSUME NEW k \in Kinds, NEW p, IsRequest(k, p)
  PROVE  Route(k, p) \in RouteTargets \cup {Rejected}
<1> DEFINE r == IF k = "name" THEN ResolveName(p) ELSE ResolveUri(p)
<1>1. \/ r = Rejected
      \/ r.raw \in Seq(Bytes) \ {<<>>} /\ \E id : r = [id |-> id, raw |-> r.raw]
  <2>a. \A text \in Seq(Bytes) : text \in Seq(Decoded)
    BY DEF Decoded
  <2>1. CASE k = "name"
    <3>1. From(p, Separator(p, Dot) + 1) \in Seq(Bytes)
      BY <2>1, PartsType DEF IsRequest
    <3>2. r = Rejected \/ r = Accept(SubSeq(p, 1, Separator(p, Dot) - 1),
                                    From(p, Separator(p, Dot) + 1))
      BY <2>1 DEF ResolveName
    <3> DEFINE id == SubSeq(p, 1, Separator(p, Dot) - 1)
               text == From(p, Separator(p, Dot) + 1)
    <3> HIDE DEF id, text
    <3>3. \/ Accept(id, text) = Rejected
          \/ Accept(id, text) = [id |-> id, raw |-> text] /\ text \in Seq(Bytes) \ {<<>>}
      BY <2>a, <3>1, AcceptType DEF text
    <3>4. r = Rejected \/ (r = [id |-> id, raw |-> text] /\ text \in Seq(Bytes) \ {<<>>})
      BY <3>2, <3>3 DEF id, text
    <3> HIDE DEF r
    <3>5. r # Rejected => r.raw = text
      BY <3>4
    <3> QED
      BY <3>4, <3>5
  <2>2. CASE k # "name"
    <3>1. PICK body \in Seq(Bytes) : p = <<Scheme>> \o body
      BY <2>2 DEF IsRequest
    <3>2. Tail(p) = body
      BY <3>1, CodesOf, TailOfConcat
    <3> DEFINE id == Decode(SubSeq(body, 1, Separator(body, Slash) - 1))
               text == Decode(From(body, Separator(body, Slash) + 1))
    <3>3. r = Rejected \/ r = Accept(id, text)
      BY <2>2, <3>2 DEF ResolveUri
    <3>4. text \in Seq(Decoded)
      BY PartsType, DecodedBytes
    <3> HIDE DEF id, text
    <3>5. \/ Accept(id, text) = Rejected
          \/ Accept(id, text) = [id |-> id, raw |-> text] /\ text \in Seq(Bytes) \ {<<>>}
      BY <3>4, AcceptType
    <3>6. r = Rejected \/ (r = [id |-> id, raw |-> text] /\ text \in Seq(Bytes) \ {<<>>})
      BY <3>3, <3>5
    <3> HIDE DEF r
    <3>7. r # Rejected => r.raw = text
      BY <3>6
    <3> QED
      BY <3>6, <3>7
  <2> QED
    BY <2>1, <2>2
<1>2. Route(k, p) = IF r.id \in Enabled THEN r ELSE Rejected
  BY DEF Route
<1> HIDE DEF r
<1>3. CASE r = Rejected
  BY <1>2, <1>3
<1>4. CASE r # Rejected
  <2>1. PICK id : r = [id |-> id, raw |-> r.raw]
    BY <1>1, <1>4
  <2>2. r.id = id /\ r.raw \in Seq(Bytes) \ {<<>>}
    BY <1>1, <1>4, <2>1
  <2>3. r.id \in Enabled => r \in RouteTargets
    BY <2>1, <2>2 DEF RouteTargets
  <2> QED
    BY <1>2, <2>3
<1> QED
  BY <1>3, <1>4

\* What the gateway exposes, and what becomes of it when a client expands it,
\* is a request.
LEMMA ExposedRequest ==
  ASSUME NEW k \in Kinds, NEW id \in Enabled, NEW r \in Seq(Bytes)
  PROVE  IsRequest(k, Expose(k, id, r))
<1>0. id \in Seq(Bytes) /\ Encode(id) \in Seq(Bytes)
  BY RejectedIsNoRoute, EncodeType, PlainSequences
<1>1. CASE k = "name"
  <2>1. id \o <<Dot>> \o r \in Seq(Bytes)
    <3>1. <<Dot>> \in Seq(Bytes)
      BY DEF Dot, Bytes
    <3> QED
      BY <1>0, <3>1, ConcatProperties
  <2> QED
    BY <1>1, <2>1 DEF Expose, IsRequest
<1>2. CASE k # "name"
  <2> DEFINE X == IF k = "template" THEN EncodeTemplate(r) ELSE Encode(r)
             b == <<Slash>>
  <2>1. X \in Seq(Bytes) /\ b \in Seq(Bytes)
    <3>1. EncodeTemplate(r) \in Seq(Bytes) /\ Encode(r) \in Seq(Bytes)
      BY EncodeType, PlainSequences, TemplateTypes
    <3> QED
      BY <3>1, CodesOf
  <2>2. Expose(k, id, r) = <<Scheme>> \o Encode(id) \o b \o X
    BY <1>2 DEF Expose
  <2> HIDE DEF X
  <2>3. <<Scheme>> \o Encode(id) \o b \o X = <<Scheme>> \o (Encode(id) \o (b \o X))
    BY <1>0, <2>1, CodesOf, UriParts
  <2> HIDE DEF b
  <2>4. Encode(id) \o (b \o X) \in Seq(Bytes)
    BY <1>0, <2>1, ConcatProperties
  <2> QED
    BY <1>2, <2>2, <2>3, <2>4 DEF IsRequest
<1> QED
  BY <1>1, <1>2

LEMMA ExpandedRequest ==
  ASSUME NEW id \in Enabled, NEW r \in Seq(Bytes), NEW v \in Seq(Bytes)
  PROVE  IsRequest("template", Expand(Expose("template", id, r), Encode(v)))
<1> DEFINE X == Expand(EncodeTemplate(r), Encode(v))
           b == <<Slash>>
<1>1. id \in Seq(Bytes) /\ Encode(id) \in Seq(Bytes) /\ Encode(v) \in Seq(Bytes)
  BY RejectedIsNoRoute, EncodeType, PlainSequences
<1>2. X \in Seq(Bytes) /\ b \in Seq(Bytes)
  <2>1. EncodeTemplate(r) \in Seq(Bytes)
    BY TemplateTypes
  <2>2. \A x \in Seq(Bytes) : \A y \in Seq(Bytes) : Expand(x, y) \in Seq(Bytes)
    BY TemplateTypes
  <2> QED
    BY <1>1, <2>1, <2>2, CodesOf
<1>3. Expand(Expose("template", id, r), Encode(v)) = <<Scheme>> \o Encode(id) \o b \o X
  BY ExpandExposed
<1> HIDE DEF X
<1>4. <<Scheme>> \o Encode(id) \o b \o X = <<Scheme>> \o (Encode(id) \o (b \o X))
  BY <1>1, <1>2, CodesOf, UriParts
<1> HIDE DEF b
<1>5. Encode(id) \o (b \o X) \in Seq(Bytes)
  BY <1>1, <1>2, ConcatProperties
<1> QED
  BY <1>3, <1>4, <1>5 DEF IsRequest

\* What is exposed was published, or resolved before, by an enabled upstream;
\* what is requested is what was exposed, or an expansion of it, or something
\* that only looks like it; and the result is the route of what is requested.
RoutingTypeOK ==
  /\ stage \in {"published", "exposed", "requested", "routed", "rejected"}
  /\ origin \in {"gateway", "client"}
  /\ kind \in Kinds
  /\ value = {} \/ \E v \in Values : value = {v}

ExposedInv ==
  /\ stage \in {"published", "exposed"} => origin = "gateway" /\ value = {}
  /\ origin = "gateway" => owner \in Enabled /\ raw \in Seq(Bytes) \ {<<>>}
  /\ origin = "gateway" /\ stage # "published" /\ value = {} => public = Expose(kind, owner, raw)
  /\ \A v \in value : /\ origin = "gateway" /\ kind = "template"
                      /\ public = Expand(Expose("template", owner, raw), Encode(v))

RequestInv ==
  /\ stage # "published" => IsRequest(kind, public)
  /\ stage \in {"routed", "rejected"} => result = Route(kind, public)
  /\ stage = "routed" => result # Rejected
  /\ stage = "rejected" => result = Rejected

RoutingInv == RoutingTypeOK /\ ExposedInv /\ RequestInv

LEMMA InitInv == RoutingInit => RoutingInv
<1> SUFFICES ASSUME RoutingInit PROVE RoutingInv
  OBVIOUS
<1>1. Texts \subseteq Seq(Bytes)
  <2>1. \A m \in 0..MaxLength : \A s \in [1..m -> Alphabet] : s \in Seq(Bytes)
    BY AlphabetAssumption
  <2> QED
    BY <2>1 DEF Texts, SeqOf
<1>2. CASE stage = "published"
  BY <1>1, <1>2 DEF RoutingInit, RoutingInv, RoutingTypeOK, ExposedInv, RequestInv, Kinds
<1>3. CASE stage = "requested"
  <2>1. /\ origin = "client" /\ value = {} /\ kind \in {"name", "resource"}
        /\ \E text \in Texts : public = IF kind = "name" THEN text ELSE <<Scheme>> \o text
    BY <1>3 DEF RoutingInit
  <2>2. IsRequest(kind, public)
    BY <1>1, <2>1 DEF IsRequest
  <2> QED
    BY <1>3, <2>1, <2>2 DEF RoutingInv, RoutingTypeOK, ExposedInv, RequestInv, Kinds
<1> QED
  BY <1>2, <1>3 DEF RoutingInit

LEMMA NextInv == RoutingInv /\ [RoutingNext]_routingVars => RoutingInv'
<1> SUFFICES ASSUME RoutingInv, [RoutingNext]_routingVars PROVE RoutingInv'
  OBVIOUS
<1> USE DEF RoutingInv
<1>1. CASE Publish
  <2>1. /\ stage = "published" /\ stage' = "exposed" /\ public' = Expose(kind, owner, raw)
        /\ UNCHANGED <<origin, kind, owner, raw, value, result>>
    BY <1>1 DEF Publish
  <2>2. origin = "gateway" /\ value = {} /\ owner \in Enabled /\ raw \in Seq(Bytes) \ {<<>>}
    BY <2>1 DEF ExposedInv
  <2>3. IsRequest(kind, public')
    BY <2>1, <2>2, ExposedRequest DEF RoutingTypeOK
  <2>4. RoutingTypeOK'
    BY <2>1 DEF RoutingTypeOK
  <2>5. ExposedInv'
    BY <2>1, <2>2 DEF ExposedInv
  <2>6. RequestInv'
    BY <2>1, <2>3 DEF RequestInv
  <2> QED
    BY <2>4, <2>5, <2>6
<1>2. CASE Use
  BY <1>2 DEF Use, RoutingTypeOK, ExposedInv, RequestInv
<1>3. CASE UseExpanded
  <2>1. /\ stage = "exposed" /\ stage' = "requested" /\ kind = "template"
        /\ UNCHANGED <<origin, kind, owner, raw, result>>
    BY <1>3 DEF UseExpanded
  <2>2. PICK v \in Values : value' = {v} /\ public' = Expand(public, Encode(v))
    BY <1>3 DEF UseExpanded
  <2>3. /\ origin = "gateway" /\ owner \in Enabled /\ raw \in Seq(Bytes) \ {<<>>}
        /\ public = Expose("template", owner, raw)
    BY <2>1 DEF ExposedInv
  <2>4. v \in Seq(Bytes)
    BY AlphabetAssumption
  <2>5. IsRequest("template", public')
    BY <2>2, <2>3, <2>4, ExpandedRequest
  <2>6. RoutingTypeOK'
    BY <2>1, <2>2 DEF RoutingTypeOK
  <2>7. ExposedInv'
    BY <2>1, <2>2, <2>3 DEF ExposedInv
  <2>8. RequestInv'
    BY <2>1, <2>5 DEF RequestInv
  <2> QED
    BY <2>6, <2>7, <2>8
<1>4. CASE Resolve
  <2>1. /\ stage = "requested" /\ result' = Route(kind, public)
        /\ stage' = IF result' = Rejected THEN "rejected" ELSE "routed"
        /\ UNCHANGED <<origin, kind, owner, raw, public, value>>
    BY <1>4 DEF Resolve
  <2>2. RoutingTypeOK'
    BY <2>1 DEF RoutingTypeOK
  <2>3. ExposedInv'
    BY <2>1 DEF ExposedInv
  <2>4. RequestInv'
    BY <2>1 DEF RequestInv
  <2> QED
    BY <2>2, <2>3, <2>4
<1>5. CASE Reply
  <2>1. /\ stage = "routed" /\ stage' = "exposed" /\ origin' = "gateway" /\ kind' = "resource"
        /\ owner' = result.id /\ raw' = result.raw
        /\ public' = Expose("resource", result.id, result.raw)
        /\ value' = {} /\ result' = Rejected
    BY <1>5 DEF Reply
  <2>2. result \in RouteTargets
    <3>1. result = Route(kind, public) /\ result # Rejected /\ IsRequest(kind, public)
      BY <2>1 DEF RequestInv
    <3> QED
      BY <3>1, RouteType DEF RoutingTypeOK
  <2>3. result.id \in Enabled /\ result.raw \in Seq(Bytes) \ {<<>>}
    BY <2>2 DEF RouteTargets
  <2>4. IsRequest("resource", public')
    BY <2>1, <2>3, ExposedRequest DEF Kinds
  <2>5. RoutingTypeOK'
    BY <2>1 DEF RoutingTypeOK, Kinds
  <2>6. ExposedInv'
    BY <2>1, <2>3 DEF ExposedInv
  <2>7. RequestInv'
    BY <2>1, <2>4 DEF RequestInv
  <2> QED
    BY <2>5, <2>6, <2>7
<1>6. CASE UNCHANGED routingVars
  BY <1>6 DEF routingVars, RoutingTypeOK, ExposedInv, RequestInv
<1> QED
  BY <1>1, <1>2, <1>3, <1>4, <1>5, <1>6 DEF RoutingNext

THEOREM RoutingInvariant == RoutingSpec => []RoutingInv
<1> QED
  BY InitInv, NextInv, PTL DEF RoutingSpec

\* resolve_*_route finds the upstream that published what the gateway exposes,
\* and what it published it as, whatever bytes the identifier is made of.
THEOREM Routed == RoutingSpec => []RoutedToPublisher
<1>1. RoutingInv => RoutedToPublisher
  <2> SUFFICES ASSUME RoutingInv, stage = "routed", origin = "gateway", value = {},
                      kind = "template" => PlainVariables(raw)
               PROVE  result = Published
    BY DEF RoutedToPublisher
  <2>1. /\ kind \in Kinds /\ owner \in Enabled /\ raw \in Seq(Bytes) \ {<<>>}
        /\ public = Expose(kind, owner, raw) /\ result = Route(kind, public)
    BY DEF RoutingInv, RoutingTypeOK, ExposedInv, RequestInv
  <2> QED
    BY <2>1, RouteOfExposed DEF Published
<1> QED
  BY <1>1, RoutingInvariant, PTL

\* What the gateway exposed is rejected only when nothing is left of it, or when
\* a variable of a template, sent back as it is, has a percent sign in its name.
THEOREM Accepted == RoutingSpec => []ExposedIsAccepted
<1>1. RoutingInv => ExposedIsAccepted
  <2> SUFFICES ASSUME RoutingInv, stage = "rejected", origin = "gateway"
               PROVE  /\ kind = "template"
                      /\ IF value = {} THEN ~PlainVariables(raw)
                         ELSE \A v \in value : Expand(raw, v) = <<>>
    BY DEF ExposedIsAccepted
  <2>1. /\ kind \in Kinds /\ owner \in Enabled /\ raw \in Seq(Bytes) \ {<<>>}
        /\ result = Route(kind, public) /\ result = Rejected
    BY DEF RoutingInv, RoutingTypeOK, ExposedInv, RequestInv
  <2>2. \A r : [id |-> owner, raw |-> r] # Rejected
    BY <2>1, RejectedIsNoRoute
  <2>3. CASE value = {}
    <3>1. public = Expose(kind, owner, raw)
      BY <2>3 DEF RoutingInv, ExposedInv
    <3>2. ~(kind = "template" => PlainVariables(raw))
      BY <2>1, <2>2, <3>1, RouteOfExposed
    <3> QED
      BY <2>3, <3>2
  <2>4. CASE value # {}
    <3>1. PICK v \in Values : value = {v}
      BY <2>4 DEF RoutingInv, RoutingTypeOK
    <3>2. kind = "template" /\ public = Expand(Expose("template", owner, raw), Encode(v))
      BY <3>1 DEF RoutingInv, ExposedInv
    <3>3. v \in Seq(Bytes)
      BY AlphabetAssumption
    <3>a. Route("template", public) =
            IF Expand(raw, v) = <<>> THEN Rejected ELSE [id |-> owner, raw |-> Expand(raw, v)]
      BY <2>1, <3>2, <3>3, RouteOfExpansion
    <3>4. Expand(raw, v) = <<>>
      BY <2>1, <2>2, <3>2, <3>a
    <3> QED
      BY <2>4, <3>1, <3>2, <3>4
  <2> QED
    BY <2>3, <2>4
<1> QED
  BY <1>1, RoutingInvariant, PTL

\* An expanded template reaches the upstream as its own template with the
\* decoded values in it.
THEOREM Expanded == RoutingSpec => []ExpandedReachesPublisher
<1>1. RoutingInv => ExpandedReachesPublisher
  <2> SUFFICES ASSUME RoutingInv, stage = "routed", NEW v \in value
               PROVE  result = [id |-> owner, raw |-> Expand(raw, v)]
    BY DEF ExpandedReachesPublisher
  <2>1. /\ kind = "template" /\ origin = "gateway"
        /\ public = Expand(Expose("template", owner, raw), Encode(v))
        /\ result = Route(kind, public) /\ result # Rejected
    BY DEF RoutingInv, ExposedInv, RequestInv
  <2>2. owner \in Enabled /\ raw \in Seq(Bytes) \ {<<>>} /\ v \in Values
    BY <2>1 DEF RoutingInv, RoutingTypeOK, ExposedInv
  <2>3. v \in Seq(Bytes)
    BY <2>2, AlphabetAssumption
  <2> QED
    BY <2>1, <2>2, <2>3, RouteOfExpansion
<1> QED
  BY <1>1, RoutingInvariant, PTL
=============================================================================
